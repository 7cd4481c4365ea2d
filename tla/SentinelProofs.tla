---------------------------- MODULE SentinelProofs ----------------------------
(***************************************************************************)
(* The sentinel client: what readiness promises, that an ended client      *)
(* stays quiet, that a slot of the pool is in one place, and that a        *)
(* transaction runs under its WATCH.                                       *)
(***************************************************************************)
EXTENDS Sentinel, FiniteSetTheorems, TLAPS

Master ==
    [node : Node, st : {"connecting", "ready", "down"}, watch : {"none", "on", "dirty"}]
Ctrl ==
    [st : {"none", "connecting", "subscribed", "closed"}, at : Guard \cup {None}]
Answer == [by : Guard \cup {None}, master : Node \cup {None}, knows : SUBSET Guard]
Awaits == [ctrl : BOOLEAN, proxy : BOOLEAN, slots : SUBSET Nat]
Stage == {"idle", "asking", "answered", "opening", "sleeping"}
Client ==
    [pool : Nat \ {0}, seeds : SUBSET Guard, open : BOOLEAN, everOpen : BOOLEAN,
     ready : BOOLEAN, destroying : BOOLEAN, loop : Stage, initial : BOOLEAN,
     outcome : {"none", "ok", "rejected"}, count : Nat, again : BOOLEAN,
     answer : Answer, awaits : Awaits, roots : SUBSET Guard, ctrl : Ctrl,
     masters : Seq(Master), proxy : {"none", "connecting", "up"}, timer : BOOLEAN,
     teardown : {"none", "close", "destroy"}, draining : BOOLEAN]
Call ==
    [st : {"idle", "over", "waiting", "run", "await", "sent", "error", "throw", "resetting"},
     op : {"none", "command", "block", "watch", "exec"}, slot : Nat, tries : Nat,
     how : {"none", "ok", "failed"}, guarded : BOOLEAN, retried : BOOLEAN,
     reopened : BOOLEAN]
Queue ==
    [free : Seq(Nat), queue : Seq(Session \cup {None}), count : Nat, shared : Nat,
     lost : SUBSET Nat]
World == [guards : SUBSET Guard, up : SUBSET (Node \cup Guard), master : Node, news : BOOLEAN]

-----------------------------------------------------------------------------
(* The client: its pool is of one master, one that is closed or that       *)
(* drains opens nothing, and what readiness needs is there from the moment *)
(* a round begins to open it.                                              *)

Live(s) == s.ctrl.st \in {"connecting", "subscribed"}

Full(s) ==
    s.masters # <<>> =>
        /\ Size(s) = s.pool
        /\ \A i, j \in 1..Size(s) : s.masters[i].node = s.masters[j].node

Quiet(s) ==
    /\ s.loop = "idle" /\ ~s.ready /\ ~s.timer
    /\ s.masters = <<>> /\ s.ctrl.st = "none"

Ended(s) ==
    /\ s.destroying <=> s.teardown # "none"
    /\ s.draining => s.destroying
    /\ ~s.open \/ s.draining => Quiet(s)

Served(s) ==
    /\ s.ready \/ s.loop = "opening" => s.masters # <<>>
    /\ s.loop = "opening" /\ ~s.again /\ ~s.destroying => Live(s)
    /\ s.ready /\ s.loop = "idle" /\ ~s.destroying =>
            s.outcome = "rejected" \/ (~s.again /\ Live(s))

(* Connections are awaited only in a round that opens them. *)
Awaiting(s) ==
    s.awaits.ctrl \/ s.awaits.proxy \/ s.awaits.slots # {} => s.loop = "opening"

Sound(s) == s \in Client /\ Full(s) /\ Ended(s) /\ Served(s) /\ Awaiting(s)

-----------------------------------------------------------------------------
(* The leases: every slot of a set is in exactly one place, and who waits  *)
(* is in the queue.                                                        *)

Owns(cs, c) ==
    \/ cs[c].st = "resetting"
    \/ c \in Session /\ cs[c].st \notin {"idle", "over", "waiting"}

Active(cs) == {c \in Plain : cs[c].st \notin {"idle", "over", "resetting"}}

Holds(s, x) == \E i \in 1..Len(s) : s[i] = x
NoRepeat(s) == \A i, j \in 1..Len(s) : s[i] = s[j] => i = j

FreeAt(l, k) == Holds(l.free, k)
OwnedAt(cs, k) == \E c \in Caller : Owns(cs, c) /\ cs[c].slot = k
Queued(l, x) == Holds(l.queue, x)

OneOf(a, b, c, d) ==
    \/ a /\ ~b /\ ~c /\ ~d
    \/ ~a /\ b /\ ~c /\ ~d
    \/ ~a /\ ~b /\ c /\ ~d
    \/ ~a /\ ~b /\ ~c /\ d

Spread(l, cs, S) ==
    /\ \A i \in 1..Len(l.free) : l.free[i] \in S
    /\ NoRepeat(l.free)
    /\ \A c \in Caller : Owns(cs, c) => cs[c].slot \in S
    /\ \A c, d \in Caller :
            Owns(cs, c) /\ Owns(cs, d) /\ cs[c].slot = cs[d].slot => c = d
    /\ l.shared \in S \cup {0}
    /\ l.lost \subseteq S
    /\ \A k \in S : OneOf(FreeAt(l, k), OwnedAt(cs, k), l.shared = k, k \in l.lost)

Waits(l, cs) ==
    /\ NoRepeat(l.queue)
    /\ \A c \in Session : Queued(l, c) <=> cs[c].st = "waiting"
    /\ Queued(l, None) <=> l.shared = 0 /\ l.count > 0
    /\ IsFiniteSet(Active(cs)) /\ l.count = Cardinality(Active(cs))
    /\ \A c \in Active(cs) :
            IF cs[c].st = "waiting" THEN l.shared = 0
            ELSE l.shared # 0 /\ cs[c].slot = l.shared

Ops(cs) ==
    /\ \A c \in Plain : cs[c].op \in {"none", "command", "block"}
    /\ \A c \in Session : cs[c].st = "waiting" => cs[c].op = "watch"

Leased(l, cs, S) == l \in Queue /\ cs \in [Caller -> Call] /\ Spread(l, cs, S) /\ Waits(l, cs) /\ Ops(cs)

-----------------------------------------------------------------------------
(* The watches: until its EXEC is sent, the client of a session knows of   *)
(* the WATCH, and where the connection was lost it is dirty.               *)

Covered(x) == x.op = "exec" /\ ~x.retried /\ ~x.reopened
Pending(x) == Covered(x) /\ x.st \in {"run", "await"}

(* No loop runs, and none starts before the next connect(). *)
Shut(s) == s.loop = "idle" /\ (~s.open \/ s.destroying)

Known(s, x) ==
    IF s.masters = <<>> THEN Shut(s)
    ELSE /\ s.masters[x.slot].watch # "none"
         /\ ~x.guarded => s.masters[x.slot].watch = "dirty"

Watched(s, cs) ==
    \A c \in Session : /\ Pending(cs[c]) => Known(s, cs[c])
                       /\ Covered(cs[c]) /\ cs[c].st = "sent" => cs[c].guarded

Inv ==
    /\ Sound(sen)
    /\ world \in World
    /\ Leased(lease, caller, 1..sen.pool)
    /\ Watched(sen, caller)

-----------------------------------------------------------------------------
(* The client's methods.                                                   *)

(* A record that differs in its loop and its readiness only. *)
SameButLoop(s, t) ==
    /\ t.pool = s.pool /\ t.open = s.open /\ t.destroying = s.destroying
    /\ t.teardown = s.teardown /\ t.draining = s.draining /\ t.masters = s.masters
    /\ t.ctrl = s.ctrl /\ t.timer = s.timer

(* The same master clients, in a client that is shut if it was. *)
Gentle(s, t) ==
    /\ t.pool = s.pool /\ Len(t.masters) = Len(s.masters)
    /\ t.masters = <<>> <=> s.masters = <<>>
    /\ \A i \in 1..Len(s.masters) : t.masters[i].watch = s.masters[i].watch
    /\ Shut(s) => Shut(t)

(* Readiness is not asserted while the client is torn down. *)
LEMMA SetReadyFields ==
    ASSUME NEW s \in Client, NEW v \in BOOLEAN
    PROVE  LET t == SetReady(s, v)
           IN  /\ t \in Client /\ SameButLoop(s, t)
               /\ t.ready = (IF v /\ s.destroying THEN s.ready ELSE v)
               /\ t.loop = s.loop /\ t.again = s.again /\ t.awaits = s.awaits
               /\ t.outcome = s.outcome /\ t.initial = s.initial /\ t.proxy = s.proxy
               /\ t.answer = s.answer /\ t.seeds = s.seeds
<1>1. PICK x : x = IF v /\ s.destroying THEN s.ready ELSE v
  OBVIOUS
<1>2. x \in BOOLEAN
  BY <1>1 DEF Client
<1>3. SetReady(s, v) = [s EXCEPT !.ready = x]
  BY <1>1 DEF SetReady
<1>4. QED
  BY <1>1, <1>2, <1>3 DEF Client, SameButLoop

(* A round begins, unless the client is torn down. *)
LEMMA LoopTopFields ==
    ASSUME NEW s \in Client
    PROVE  LET t == LoopTop(s)
           IN  /\ t \in Client /\ SameButLoop(s, t)
               /\ t.ready = s.ready /\ t.awaits = s.awaits /\ t.initial = s.initial
               /\ s.destroying => t.loop = "idle" /\ t.again = s.again
               /\ ~s.destroying => t.loop = "asking" /\ ~t.again
<1>1. CASE s.destroying
  BY <1>1 DEF LoopTop, Client, Stage, SameButLoop
<1>2. CASE ~s.destroying
  BY <1>2 DEF LoopTop, Client, Stage, SameButLoop
<1>3. QED
  BY <1>1, <1>2

(* The loop begins. *)
LEMMA StartLoopFields ==
    ASSUME NEW s \in Client, NEW initial \in BOOLEAN
    PROVE  LET t == StartLoop(s, initial)
           IN  /\ t \in Client /\ SameButLoop(s, t)
               /\ t.ready = s.ready /\ t.awaits = s.awaits
               /\ s.destroying => t.loop = "idle" /\ t.again = s.again
               /\ ~s.destroying => t.loop = "asking" /\ ~t.again
<1>1. PICK r : r = [s EXCEPT !.count = 0, !.initial = initial, !.outcome = "none"]
  OBVIOUS
<1>2. /\ r \in Client /\ SameButLoop(s, r) /\ r.ready = s.ready /\ r.awaits = s.awaits
      /\ r.again = s.again
  BY <1>1 DEF Client, SameButLoop
<1>3. StartLoop(s, initial) = LoopTop(r)
  BY <1>1 DEF StartLoop
<1>4. QED
  BY <1>2, <1>3, LoopTopFields DEF SameButLoop

(* A reset starts the loop, or tells the one in flight to go round again. *)
LEMMA ResetFields ==
    ASSUME NEW s \in Client
    PROVE  LET t == Reset(s)
           IN  /\ t \in Client /\ SameButLoop(s, t)
               /\ t.ready = s.ready /\ t.awaits = s.awaits
               /\ s.destroying => t = s
               /\ ~s.destroying /\ s.loop # "idle" => t.loop = s.loop /\ t.again
               /\ ~s.destroying /\ s.loop = "idle" /\ ~s.open => t = s
               /\ ~s.destroying /\ s.loop = "idle" /\ s.open => t.loop = "asking" /\ ~t.again
<1>1. CASE s.destroying
  BY <1>1 DEF Reset, SameButLoop
<1>2. CASE ~s.destroying /\ s.loop # "idle"
  <2>1. Reset(s) = [s EXCEPT !.again = TRUE]
    BY <1>2 DEF Reset
  <2>2. QED
    BY <1>2, <2>1 DEF SameButLoop, Client
<1>3. CASE ~s.destroying /\ s.loop = "idle" /\ ~s.open
  BY <1>3 DEF Reset, SameButLoop
<1>4. CASE ~s.destroying /\ s.loop = "idle" /\ s.open
  <2>1. Reset(s) = StartLoop(s, FALSE)
    BY <1>4 DEF Reset
  <2>2. QED
    BY <1>4, <2>1, StartLoopFields
<1>5. QED
  BY <1>1, <1>2, <1>3, <1>4

(* A teardown begins, or is escalated. *)
LEMMA TeardownFields ==
    ASSUME NEW s \in Client, NEW kind \in {"close", "destroy"}
    PROVE  LET t == Teardown(s, kind)
           IN  /\ t \in Client
               /\ t.pool = s.pool /\ t.open = s.open /\ t.draining = s.draining
               /\ t.masters = s.masters /\ t.ctrl = s.ctrl /\ t.timer = s.timer
               /\ t.ready = s.ready /\ t.awaits = s.awaits /\ t.loop = s.loop
               /\ t.again = s.again /\ t.destroying /\ t.teardown # "none"
<1>1. PICK x : x = IF s.teardown = "close" /\ kind = "destroy" THEN "destroy"
                   ELSE IF s.teardown = "none" THEN kind ELSE s.teardown
  OBVIOUS
<1>2. x \in {"none", "close", "destroy"} /\ x # "none"
  BY <1>1 DEF Client
<1>3. Teardown(s, kind) = [s EXCEPT !.destroying = TRUE, !.teardown = x]
  BY <1>1 DEF Teardown
<1>4. QED
  BY <1>2, <1>3, ZenonT(60) DEF Client

(* A round that fails is followed by a pause, or ends the loop. *)
LEMMA LoopFailsFields ==
    ASSUME NEW s \in Client
    PROVE  LET t == LoopFails(s)
           IN  /\ t \in Client
               /\ t.pool = s.pool /\ t.open = s.open /\ t.draining = s.draining
               /\ t.masters = s.masters /\ t.ctrl = s.ctrl /\ t.timer = s.timer
               /\ t.ready = s.ready
               /\ ~t.awaits.ctrl /\ ~t.awaits.proxy /\ t.awaits.slots = {}
               /\ \/ /\ t.destroying = s.destroying /\ t.teardown = s.teardown
                     /\ t.loop = "sleeping"
                  \/ /\ t.destroying = s.destroying /\ t.teardown = s.teardown
                     /\ t.loop = "idle" /\ t.outcome = "rejected"
                  \/ t.destroying /\ t.teardown # "none" /\ t.loop = "idle"
<1>1. PICK r : r = [s EXCEPT !.count = s.count + 1, !.awaits = NothingAwaited]
  OBVIOUS
<1>2. PICK e : e = [r EXCEPT !.loop = "idle", !.outcome = "rejected"]
  OBVIOUS
<1>3. NothingAwaited \in Awaits
  BY DEF NothingAwaited, Awaits
<1>4. s.count + 1 \in Nat
  BY DEF Client
<1>5. /\ r \in Client /\ SameButLoop(s, r) /\ r.ready = s.ready /\ r.awaits = NothingAwaited
  BY <1>1, <1>3, <1>4 DEF Client, SameButLoop
<1>6. /\ e \in Client /\ SameButLoop(r, e) /\ e.ready = r.ready /\ e.awaits = r.awaits
      /\ e.loop = "idle" /\ e.outcome = "rejected"
  <2>1. e \in Client
    BY <1>2, <1>5, ZenonT(60) DEF Client, Stage
  <2>2. /\ SameButLoop(r, e) /\ e.ready = r.ready /\ e.awaits = r.awaits
        /\ e.loop = "idle" /\ e.outcome = "rejected"
    BY <1>2, <1>5, SMTT(60) DEF Client, SameButLoop
  <2>3. QED
    BY <2>1, <2>2
<1>7. NothingAwaited.ctrl = FALSE /\ NothingAwaited.proxy = FALSE /\ NothingAwaited.slots = {}
  BY DEF NothingAwaited
<1>8. CASE LoopFails(s) = Teardown(e, "destroy")
  BY <1>5, <1>6, <1>7, <1>8, TeardownFields DEF SameButLoop
<1>9. CASE LoopFails(s) = e
  BY <1>5, <1>6, <1>7, <1>9 DEF SameButLoop
<1>10. CASE LoopFails(s) = [r EXCEPT !.loop = "sleeping"]
  <2>1. [r EXCEPT !.loop = "sleeping"] \in Client
    BY <1>5 DEF Client, Stage
  <2>2. QED
    BY <1>5, <1>7, <1>10, <2>1 DEF SameButLoop, Client
<1>11. QED
  BY <1>1, <1>2, <1>8, <1>9, <1>10 DEF LoopFails

(* The last step of most of what follows. *)
LEMMA GentleIfSame ==
    ASSUME NEW s, NEW t, t.pool = s.pool, t.masters = s.masters, Shut(s) => Shut(t)
    PROVE  Gentle(s, t)
BY DEF Gentle

(* A reset keeps what the client promises. *)
LEMMA ResetKeeps ==
    ASSUME NEW s, Sound(s)
    PROVE  LET t == Reset(s)
           IN  /\ Sound(t) /\ Gentle(s, t)
               /\ t.ctrl = s.ctrl /\ t.draining = s.draining /\ t.masters = s.masters
               /\ t.pool = s.pool
<1>1. s \in Client
  BY DEF Sound
<1>2. PICK t : t = Reset(s)
  OBVIOUS
<1>3. /\ t \in Client /\ SameButLoop(s, t)
      /\ t.ready = s.ready /\ t.awaits = s.awaits
      /\ s.destroying => t = s
      /\ ~s.destroying /\ s.loop # "idle" => t.loop = s.loop /\ t.again
      /\ ~s.destroying /\ s.loop = "idle" /\ ~s.open => t = s
      /\ ~s.destroying /\ s.loop = "idle" /\ s.open => t.loop = "asking" /\ ~t.again
  BY <1>1, <1>2, ResetFields
<1>4. CASE t = s
  BY <1>2, <1>4 DEF Gentle
<1>5. CASE ~s.destroying /\ s.loop # "idle"
  <2>1. s.open /\ ~s.draining
    BY <1>5 DEF Sound, Ended, Quiet
  <2>2. Full(t) /\ Ended(t) /\ Served(t) /\ Awaiting(t)
    BY <1>3, <1>5, <2>1 DEF Sound, SameButLoop, Full, Size, Ended, Served, Awaiting
  <2>3. ~Shut(s)
    BY <1>5 DEF Shut
  <2>4. QED
    BY <1>2, <1>3, <2>2, <2>3, GentleIfSame DEF Sound, SameButLoop
<1>6. CASE ~s.destroying /\ s.loop = "idle" /\ s.open
  <2>1. ~s.draining
    BY <1>6 DEF Sound, Ended
  <2>2. Full(t) /\ Ended(t) /\ Served(t) /\ Awaiting(t)
    BY <1>3, <1>6, <2>1 DEF Sound, SameButLoop, Full, Size, Ended, Served, Awaiting
  <2>3. ~Shut(s)
    BY <1>6 DEF Shut
  <2>4. QED
    BY <1>2, <1>3, <2>2, <2>3, GentleIfSame DEF Sound, SameButLoop
<1>7. QED
  BY <1>3, <1>4, <1>5, <1>6

(* So does a round that fails. *)
LEMMA LoopFailsKeeps ==
    ASSUME NEW s, Sound(s), s.loop # "idle"
    PROVE  LET t == LoopFails(s)
           IN  /\ Sound(t) /\ Gentle(s, t)
               /\ t.ctrl = s.ctrl /\ t.masters = s.masters /\ t.pool = s.pool
               /\ t.loop # "opening" /\ t.awaits.slots = {}
<1>1. s \in Client /\ s.open /\ ~s.draining
  BY DEF Sound, Ended, Quiet
<1>2. PICK t : t = LoopFails(s)
  OBVIOUS
<1>3. /\ t \in Client
      /\ t.pool = s.pool /\ t.open = s.open /\ t.draining = s.draining
      /\ t.masters = s.masters /\ t.ctrl = s.ctrl /\ t.timer = s.timer
      /\ t.ready = s.ready
      /\ ~t.awaits.ctrl /\ ~t.awaits.proxy /\ t.awaits.slots = {}
      /\ \/ /\ t.destroying = s.destroying /\ t.teardown = s.teardown
            /\ t.loop = "sleeping"
         \/ /\ t.destroying = s.destroying /\ t.teardown = s.teardown
            /\ t.loop = "idle" /\ t.outcome = "rejected"
         \/ t.destroying /\ t.teardown # "none" /\ t.loop = "idle"
  BY <1>1, <1>2, LoopFailsFields
<1>4. Full(t) /\ Awaiting(t)
  BY <1>3 DEF Sound, Full, Size, Awaiting
<1>5. Ended(t)
  BY <1>1, <1>3 DEF Sound, Ended
<1>6. Served(t)
  BY <1>3 DEF Sound, Served
<1>7. ~Shut(s)
  BY DEF Shut
<1>8. Gentle(s, t)
  BY <1>3, <1>7, GentleIfSame
<1>9. QED
  BY <1>2, <1>3, <1>4, <1>5, <1>6, <1>8 DEF Sound

(* A lost control connection is followed by a reset. *)
LEMMA GuardFailedKeeps ==
    ASSUME NEW s, Sound(s), Live(s)
    PROVE  LET t == GuardFailed(s)
           IN  /\ Sound(t) /\ Gentle(s, t)
               /\ t.awaits = s.awaits /\ t.pool = s.pool
               /\ s.loop # "idle" => t.loop = s.loop
<1>1. s \in Client /\ s.open /\ ~s.draining
  BY DEF Sound, Ended, Quiet, Live
<1>2. PICK roots : roots = IF s.roots \ {s.ctrl.at} = {} THEN s.seeds ELSE s.roots \ {s.ctrl.at}
  OBVIOUS
<1>3. PICK ctrl : ctrl = [s.ctrl EXCEPT !.st = "closed"]
  OBVIOUS
<1>4. PICK r : r = [s EXCEPT !.roots = roots, !.ctrl = ctrl]
  OBVIOUS
<1>5. roots \in SUBSET Guard
  <2>1. s.roots \in SUBSET Guard /\ s.seeds \in SUBSET Guard
    BY <1>1 DEF Client
  <2>2. QED
    BY ONLY <1>2, <2>1
<1>6. ctrl \in Ctrl
  BY <1>1, <1>3 DEF Client, Ctrl
<1>7. r \in Client
  BY <1>1, <1>4, <1>5, <1>6 DEF Client
<1>8. /\ r.pool = s.pool /\ r.open = s.open /\ r.destroying = s.destroying
      /\ r.teardown = s.teardown /\ r.draining = s.draining /\ r.masters = s.masters
      /\ r.timer = s.timer /\ r.ready = s.ready /\ r.awaits = s.awaits
      /\ r.loop = s.loop /\ r.again = s.again /\ r.outcome = s.outcome
  BY <1>1, <1>4 DEF Client
<1>9. GuardFailed(s) = Reset(r)
  <2>1. [s EXCEPT !.roots = roots, !.ctrl.st = "closed"] = r
    BY <1>1, <1>3, <1>4 DEF Client
  <2>2. QED
    BY <1>2, <2>1 DEF GuardFailed
<1>10. PICK t : t = Reset(r)
  OBVIOUS
<1>11. /\ t \in Client /\ SameButLoop(r, t)
       /\ t.ready = r.ready /\ t.awaits = r.awaits
       /\ r.destroying => t = r
       /\ ~r.destroying /\ r.loop # "idle" => t.loop = r.loop /\ t.again
       /\ ~r.destroying /\ r.loop = "idle" /\ r.open => t.loop = "asking" /\ ~t.again
  BY <1>7, <1>10, ResetFields
<1>12. Full(t) /\ Ended(t) /\ Awaiting(t)
  BY <1>1, <1>8, <1>11 DEF Sound, SameButLoop, Full, Size, Ended, Awaiting
<1>13. Served(t)
  BY <1>1, <1>8, <1>11 DEF Sound, SameButLoop, Served
<1>14. Shut(s) => Shut(t)
  BY <1>1, <1>8, <1>11 DEF Shut, SameButLoop
<1>15. Gentle(s, t)
  BY <1>8, <1>11, <1>14, GentleIfSame DEF SameButLoop
<1>16. t.pool = s.pool /\ (s.loop # "idle" => t.loop = s.loop)
  BY <1>8, <1>11 DEF SameButLoop
<1>17. QED
  BY <1>8, <1>9, <1>10, <1>11, <1>12, <1>13, <1>15, <1>16 DEF Sound

(* A round that opened everything ends, or makes way for another. *)
LEMMA EndRoundKeeps ==
    ASSUME NEW s, Sound(s), s.loop = "opening", s.awaits = NothingAwaited
    PROVE  LET t == EndRound(s)
           IN  /\ Sound(t) /\ Gentle(s, t) /\ t.pool = s.pool /\ t.open
               /\ ~t.draining
<1>1. s \in Client /\ s.open /\ ~s.draining /\ s.masters # <<>>
  BY DEF Sound, Ended, Quiet, Served
<1>2. ~Shut(s) /\ ~s.awaits.ctrl /\ ~s.awaits.proxy /\ s.awaits.slots = {}
  BY DEF Shut, NothingAwaited
<1>3. CASE s.again
  <2>1. PICK t : t = LoopTop(s)
    OBVIOUS
  <2>2. EndRound(s) = t
    BY <1>3, <2>1 DEF EndRound
  <2>3. /\ t \in Client /\ SameButLoop(s, t)
        /\ t.ready = s.ready /\ t.awaits = s.awaits
        /\ s.destroying => t.loop = "idle" /\ t.again = s.again
        /\ ~s.destroying => t.loop = "asking" /\ ~t.again
    BY <1>1, <2>1, LoopTopFields
  <2>4. Full(t) /\ Ended(t) /\ Awaiting(t)
    BY <1>1, <1>2, <2>3 DEF Sound, SameButLoop, Full, Size, Ended, Awaiting
  <2>5. Served(t)
    BY <1>1, <2>3 DEF Sound, SameButLoop, Served
  <2>6. Gentle(s, t) /\ t.pool = s.pool /\ t.open /\ ~t.draining
    BY <1>1, <1>2, <2>3, GentleIfSame DEF SameButLoop
  <2>7. QED
    BY <2>2, <2>3, <2>4, <2>5, <2>6 DEF Sound
<1>4. CASE ~s.again
  <2>1. PICK r : r = SetReady(s, TRUE)
    OBVIOUS
  <2>2. /\ r \in Client /\ SameButLoop(s, r)
        /\ r.again = s.again /\ r.awaits = s.awaits
    BY <1>1, <2>1, SetReadyFields
  <2>3. PICK t : t = [r EXCEPT !.loop = "idle", !.outcome = "ok"]
    OBVIOUS
  <2>4. EndRound(s) = t
    BY <1>4, <2>1, <2>3 DEF EndRound
  <2>5. /\ t \in Client /\ SameButLoop(r, t) /\ t.loop = "idle" /\ t.again = r.again
        /\ t.awaits = r.awaits
    BY <2>2, <2>3 DEF Client, SameButLoop, Stage
  <2>6. Full(t) /\ Ended(t) /\ Awaiting(t)
    BY <1>1, <1>2, <2>2, <2>5 DEF Sound, SameButLoop, Full, Size, Ended, Awaiting
  <2>7. Served(t)
    BY <1>1, <1>4, <2>2, <2>5 DEF Sound, SameButLoop, Served, Live
  <2>8. Gentle(s, t) /\ t.pool = s.pool /\ t.open /\ ~t.draining
    BY <1>1, <1>2, <2>2, <2>5, GentleIfSame DEF SameButLoop
  <2>9. QED
    BY <2>4, <2>5, <2>6, <2>7, <2>8 DEF Sound
<1>5. QED
  BY <1>3, <1>4

(* A record that differs in its master clients, in what it awaits and in   *)
(* its proxy only, but in no node.                                         *)
SameButMasters(s, t) ==
    /\ t.pool = s.pool /\ t.open = s.open /\ t.destroying = s.destroying
    /\ t.teardown = s.teardown /\ t.draining = s.draining /\ t.ctrl = s.ctrl
    /\ t.timer = s.timer /\ t.ready = s.ready /\ t.loop = s.loop /\ t.again = s.again
    /\ t.outcome = s.outcome
    /\ Len(t.masters) = Len(s.masters)
    /\ \A i \in 1..Len(s.masters) : t.masters[i].node = s.masters[i].node
    /\ t.awaits.ctrl => s.awaits.ctrl
    /\ t.awaits.proxy => s.awaits.proxy
    /\ t.awaits.slots \subseteq s.awaits.slots

(* What such a record keeps. *)
LEMMA MastersKeep ==
    ASSUME NEW s, Sound(s), NEW t \in Client, SameButMasters(s, t)
    PROVE  Sound(t) /\ (t.masters = <<>> <=> s.masters = <<>>)
<1>1. s.masters \in Seq(Master) /\ t.masters \in Seq(Master)
  BY DEF Sound, Client
<1>2. t.masters = <<>> <=> s.masters = <<>>
  BY <1>1 DEF SameButMasters
<1>3. Full(t)
  <2>1. SUFFICES ASSUME t.masters # <<>> PROVE Full(t)
    BY DEF Full
  <2>2. /\ Len(s.masters) = s.pool
        /\ \A i, j \in 1..Len(s.masters) : s.masters[i].node = s.masters[j].node
    BY <1>2, <2>1 DEF Sound, Full, Size
  <2>3. Len(t.masters) = t.pool
    BY <2>2 DEF SameButMasters
  <2>4. \A i, j \in 1..Len(t.masters) : t.masters[i].node = t.masters[j].node
    BY <2>2 DEF SameButMasters
  <2>5. QED
    BY <2>3, <2>4 DEF Full, Size
<1>4. Ended(t)
  BY <1>2 DEF SameButMasters, Sound, Ended, Quiet
<1>5. Served(t)
  BY <1>2 DEF SameButMasters, Sound, Served, Live
<1>6. Awaiting(t)
  BY DEF SameButMasters, Sound, Awaiting
<1>7. QED
  BY <1>2, <1>3, <1>4, <1>5, <1>6 DEF Sound

SetsMasters(s, t, m) == t = [s EXCEPT !.masters = m]

(* Other master clients of the same nodes. *)
LEMMA SetsMastersKeeps ==
    ASSUME NEW s, Sound(s), NEW m \in Seq(Master), Len(m) = Len(s.masters),
           \A i \in 1..Len(s.masters) : m[i].node = s.masters[i].node,
           NEW t, SetsMasters(s, t, m)
    PROVE  /\ Sound(t) /\ t.masters = m /\ t.pool = s.pool /\ t.awaits = s.awaits
           /\ t.loop = s.loop /\ t.draining = s.draining /\ t.destroying = s.destroying
           /\ t.open = s.open /\ (t.masters = <<>> <=> s.masters = <<>>)
<1>1. s \in Client
  BY DEF Sound
<1>2. t \in Client
  BY <1>1 DEF SetsMasters, Client
<1>3. /\ t.masters = m
      /\ t.pool = s.pool /\ t.open = s.open /\ t.destroying = s.destroying
      /\ t.teardown = s.teardown /\ t.draining = s.draining /\ t.ctrl = s.ctrl
      /\ t.timer = s.timer /\ t.ready = s.ready /\ t.loop = s.loop /\ t.again = s.again
      /\ t.outcome = s.outcome /\ t.awaits = s.awaits
  BY <1>1 DEF SetsMasters, Client
<1>4. SameButMasters(s, t)
  BY <1>3 DEF SameButMasters
<1>5. QED
  BY <1>2, <1>3, <1>4, MastersKeep

SetsState(m, r, i, x) == r = [m EXCEPT ![i].st = x]
SetsWatch(m, r, i, x) == r = [m EXCEPT ![i].watch = x]

(* One client of the pool in another state. *)
LEMMA OneState ==
    ASSUME NEW m \in Seq(Master), NEW i \in 1..Len(m),
           NEW x \in {"connecting", "ready", "down"}, NEW r, SetsState(m, r, i, x)
    PROVE  /\ r \in Seq(Master) /\ Len(r) = Len(m)
           /\ \A j \in 1..Len(m) : r[j].node = m[j].node /\ r[j].watch = m[j].watch
<1>1. m[i] \in Master
  OBVIOUS
<1>2. PICK y : y = [m[i] EXCEPT !.st = x]
  OBVIOUS
<1>3. y \in Master /\ y.node = m[i].node /\ y.watch = m[i].watch
  BY <1>1, <1>2 DEF Master
<1>4. r = [m EXCEPT ![i] = y]
  BY <1>2 DEF SetsState
<1>5. QED
  BY <1>3, <1>4

(* One client of the pool with another watch. *)
LEMMA OneWatch ==
    ASSUME NEW m \in Seq(Master), NEW i \in 1..Len(m),
           NEW x \in {"none", "on", "dirty"}, NEW r, SetsWatch(m, r, i, x)
    PROVE  /\ r \in Seq(Master) /\ Len(r) = Len(m) /\ r[i].watch = x
           /\ \A j \in 1..Len(m) : r[j].node = m[j].node
           /\ \A j \in 1..Len(m) : j # i => r[j].watch = m[j].watch
<1>1. m[i] \in Master
  OBVIOUS
<1>2. PICK y : y = [m[i] EXCEPT !.watch = x]
  OBVIOUS
<1>3. y \in Master /\ y.node = m[i].node /\ y.watch = x
  BY <1>1, <1>2 DEF Master
<1>4. r = [m EXCEPT ![i] = y]
  BY <1>2 DEF SetsWatch
<1>5. QED
  BY <1>3, <1>4

(* The clients of a new master: they know of the transactions of those     *)
(* they replace.                                                           *)
Renewed(s, t) ==
    /\ t.masters # <<>> /\ Len(t.masters) = s.pool /\ t.pool = s.pool
    /\ \A i \in 1..s.pool : i <= Len(s.masters) /\ s.masters[i].watch # "none" =>
            t.masters[i].watch = "dirty"

Renews(t) == t.loop = "opening" /\ t.awaits.slots # {}

(* Before a sentinel has answered nothing is known. *)
LEMMA NoAnswerType == NoAnswer \in Answer
  BY DEF NoAnswer, Answer

(* The transformation opens a control connection and the clients of a new  *)
(* master, where they are not there.                                       *)
LEMMA TransformKeeps ==
    ASSUME NEW s, Sound(s), s.loop = "answered"
    PROVE  LET t == Transform(s)
           IN  /\ Sound(t) /\ t.pool = s.pool
               /\ Renews(t) => Renewed(s, t)
               /\ ~Renews(t) => Gentle(s, t)
<1>1. /\ s \in Client /\ s.open /\ ~s.draining /\ s.pool \in Nat \ {0}
      /\ s.masters \in Seq(Master) /\ s.answer \in Answer
  BY DEF Sound, Ended, Quiet, Client
<1>2. ~Shut(s)
  BY DEF Shut
<1>3. CASE s.answer.master = None
  <2>1. Transform(s) = LoopFails(s)
    BY <1>3 DEF Transform
  <2>2. QED
    BY <2>1, LoopFailsKeeps DEF Renews
<1>4. CASE s.answer.master # None
  <2>1. s.answer.master \in Node /\ s.answer.by \in Guard \cup {None}
    BY <1>1, <1>4 DEF Answer
  <2>2. PICK newCtrl : newCtrl = ~(s.ctrl.st \in {"connecting", "subscribed"} /\ s.ctrl.at = s.answer.by)
    OBVIOUS
  <2>3. PICK newMaster : newMaster = (s.answer.master # MasterNode(s))
    OBVIOUS
  <2>4. newCtrl \in BOOLEAN /\ newMaster \in BOOLEAN
    BY <2>2, <2>3
  <2>5. PICK opened : opened = IF newCtrl THEN [s EXCEPT !.ctrl = [st |-> "connecting", at |-> s.answer.by]] ELSE s
    OBVIOUS
  <2>6. [st |-> "connecting", at |-> s.answer.by] \in Ctrl
    BY <2>1 DEF Ctrl
  <2>7. /\ opened \in Client /\ Live(opened)
        /\ opened.pool = s.pool /\ opened.open = s.open /\ opened.destroying = s.destroying
        /\ opened.teardown = s.teardown /\ opened.draining = s.draining
        /\ opened.masters = s.masters /\ opened.timer = s.timer /\ opened.ready = s.ready
        /\ opened.proxy = s.proxy
    <3>1. CASE newCtrl
      BY <1>1, <2>4, <2>5, <2>6, <3>1 DEF Client, Live
    <3>2. CASE ~newCtrl
      BY <1>1, <2>2, <2>5, <3>2 DEF Live
    <3>3. QED
      BY <2>4, <3>1, <3>2
  <2>8. PICK r : r = SetReady(opened, FALSE)
    OBVIOUS
  <2>9. r \in Client /\ SameButLoop(opened, r) /\ r.ready = FALSE /\ r.proxy = opened.proxy
    BY <2>7, <2>8, SetReadyFields
  <2>10. PICK masters : masters = [i \in 1..s.pool |->
                            [node |-> s.answer.master, st |-> "connecting",
                             watch |-> IF i <= Size(s) THEN Carries(s.masters[i]) ELSE "none"]]
    OBVIOUS
  <2>11. /\ masters \in Seq(Master) /\ Len(masters) = s.pool /\ masters # <<>>
         /\ \A i \in 1..s.pool : masters[i].node = s.answer.master
         /\ \A i \in 1..s.pool : i <= Len(s.masters) /\ s.masters[i].watch # "none" =>
                masters[i].watch = "dirty"
    <3>1. \A i \in 1..s.pool : masters[i] \in Master
      BY <2>1, <2>10 DEF Master, Carries
    <3>2. masters \in [1..s.pool -> Master]
      BY <2>10, <3>1
    <3>3. masters \in Seq(Master) /\ Len(masters) = s.pool
      BY <1>1, <3>2
    <3>4. masters # <<>>
      BY <1>1, <3>3
    <3>5. QED
      BY <2>10, <3>3, <3>4 DEF Size, Carries
  <2>12. PICK moved : moved = IF ~newMaster THEN opened
                              ELSE [r EXCEPT !.masters = masters,
                                             !.proxy = IF r.proxy = "none" THEN r.proxy ELSE "connecting"]
    OBVIOUS
  <2>13. /\ moved \in Client
         /\ moved.pool = s.pool /\ moved.open = s.open /\ moved.destroying = s.destroying
         /\ moved.teardown = s.teardown /\ moved.draining = s.draining
         /\ moved.ctrl = opened.ctrl
         /\ moved.masters = IF newMaster THEN masters ELSE s.masters
    <3>1. CASE newMaster
      <4>1. PICK x : x = IF r.proxy = "none" THEN r.proxy ELSE "connecting"
        OBVIOUS
      <4>2. x \in {"none", "connecting", "up"}
        BY <4>1
      <4>3. moved = [r EXCEPT !.masters = masters, !.proxy = x]
        BY <2>4, <2>12, <3>1, <4>1
      <4>4. moved \in Client
        BY <2>9, <2>11, <4>2, <4>3 DEF Client
      <4>5. QED
        BY <2>7, <2>9, <3>1, <4>3, <4>4 DEF Client, SameButLoop
    <3>2. CASE ~newMaster
      BY <2>7, <2>12, <3>2
    <3>3. QED
      BY <2>4, <3>1, <3>2
  <2>14. PICK awaits : awaits = [ctrl |-> newCtrl, proxy |-> newMaster /\ moved.proxy # "none",
                                 slots |-> IF newMaster THEN 1..s.pool ELSE {}]
    OBVIOUS
  <2>15. /\ awaits \in Awaits /\ awaits.slots = IF newMaster THEN 1..s.pool ELSE {}
    <3>1. (newMaster /\ moved.proxy # "none") \in BOOLEAN
      BY <2>4
    <3>2. (IF newMaster THEN 1..s.pool ELSE {}) \in SUBSET Nat
      BY <1>1
    <3>3. QED
      BY <2>4, <2>14, <3>1, <3>2 DEF Awaits
  <2>16. PICK t : t = [moved EXCEPT !.loop = "opening", !.answer = NoAnswer,
                                   !.roots = s.seeds \cup s.answer.knows, !.awaits = awaits]
    OBVIOUS
  <2>17. Transform(s) = t
    <3>1. CASE newMaster
      <4>1. moved = [SetReady(opened, FALSE) EXCEPT
                        !.masters = [i \in 1..s.pool |->
                            [node |-> s.answer.master, st |-> "connecting",
                             watch |-> IF i <= Size(s) THEN Carries(s.masters[i]) ELSE "none"]],
                        !.proxy = IF @ = "none" THEN @ ELSE "connecting"]
        BY ONLY <2>8, <2>10, <2>12, <3>1
      <4>2. QED
        BY ONLY <1>4, <2>2, <2>3, <2>5, <2>14, <2>16, <3>1, <4>1, ZenonT(60) DEF Transform
    <3>2. CASE ~newMaster
      <4>1. moved = opened
        BY ONLY <2>12, <3>2
      <4>2. QED
        BY ONLY <1>4, <2>2, <2>3, <2>5, <2>14, <2>16, <3>2, <4>1 DEF Transform
    <3>3. QED
      BY <2>4, <3>1, <3>2
  <2>18. t \in Client
    <3>1. s.seeds \in SUBSET Guard /\ s.answer.knows \in SUBSET Guard
      BY <1>1 DEF Client, Answer
    <3>2. PICK roots : roots = s.seeds \cup s.answer.knows
      OBVIOUS
    <3>3. roots \in SUBSET Guard
      BY ONLY <3>1, <3>2
    <3>4. t = [moved EXCEPT !.loop = "opening", !.answer = NoAnswer, !.roots = roots,
                            !.awaits = awaits]
      BY ONLY <2>16, <3>2
    <3>5. QED
      BY <2>13, <2>15, <3>3, <3>4, NoAnswerType DEF Client, Stage
  <2>19. /\ t.pool = s.pool /\ t.open = s.open /\ t.destroying = s.destroying
         /\ t.teardown = s.teardown /\ t.draining = s.draining /\ t.loop = "opening"
         /\ t.ctrl = opened.ctrl /\ t.masters = moved.masters /\ t.awaits = awaits
    BY <2>13, <2>16 DEF Client
  <2>20. t.masters # <<>>
    <3>1. CASE newMaster
      BY <2>11, <2>13, <2>19, <3>1
    <3>2. CASE ~newMaster
      <4>1. MasterNode(s) # None
        BY <1>4, <2>3, <2>4, <3>2
      <4>2. s.masters # <<>>
        BY <4>1 DEF MasterNode, Size
      <4>3. QED
        BY <2>13, <2>19, <3>2, <4>2
    <3>3. QED
      BY <2>4, <3>1, <3>2
  <2>21. Full(t)
    <3>1. CASE newMaster
      BY <2>11, <2>13, <2>19, <3>1 DEF Full, Size
    <3>2. CASE ~newMaster
      BY <2>13, <2>19, <3>2 DEF Sound, Full, Size
    <3>3. QED
      BY <2>4, <3>1, <3>2
  <2>22. Ended(t) /\ Served(t) /\ Awaiting(t)
    BY <1>1, <2>7, <2>19, <2>20 DEF Sound, Ended, Served, Awaiting, Live
  <2>23. Renews(t) => Renewed(s, t)
    <3>1. Renews(t) => newMaster
      BY <2>4, <2>15, <2>19 DEF Renews
    <3>2. QED
      BY <2>11, <2>13, <2>19, <2>20, <3>1 DEF Renewed
  <2>24. ~Renews(t) => Gentle(s, t)
    <3>1. ~Renews(t) => ~newMaster
      <4>1. 1 \in 1..s.pool
        BY <1>1
      <4>2. QED
        BY <2>4, <2>15, <2>19, <4>1 DEF Renews
    <3>2. QED
      BY <1>2, <2>13, <2>19, <3>1, GentleIfSame
  <2>25. QED
    BY <2>17, <2>18, <2>19, <2>21, <2>22, <2>23, <2>24 DEF Sound
<1>5. QED
  BY <1>3, <1>4

(* What is quiet may be closed. *)
LEMMA ClosedKeeps ==
    ASSUME NEW s \in Client, Quiet(s), Awaiting(s)
    PROVE  LET t == Closed(s)
           IN  Sound(t) /\ t.pool = s.pool /\ t.masters = <<>> /\ Shut(t)
<1>1. PICK t : t = Closed(s)
  OBVIOUS
<1>2. t \in Client
  BY <1>1 DEF Closed, Client
<1>3. /\ t.destroying = FALSE /\ t.teardown = "none" /\ t.draining = FALSE /\ t.open = FALSE
      /\ t.loop = s.loop /\ t.ready = s.ready /\ t.timer = s.timer /\ t.masters = s.masters
      /\ t.ctrl = s.ctrl /\ t.awaits = s.awaits /\ t.pool = s.pool
  BY <1>1 DEF Closed, Client
<1>4. Full(t) /\ Ended(t) /\ Served(t) /\ Awaiting(t)
  BY <1>3 DEF Quiet, Full, Ended, Served, Awaiting
<1>5. Shut(t)
  BY <1>3 DEF Quiet, Shut
<1>6. QED
  BY <1>1, <1>2, <1>3, <1>4, <1>5 DEF Quiet, Sound

(* The end of the client, or the beginning of its drain. *)
LEMMA DismantleKeeps ==
    ASSUME NEW s, Sound(s), s.loop = "idle", s.destroying
    PROVE  LET t == Dismantle(s)
           IN  Sound(t) /\ t.pool = s.pool /\ t.masters = <<>> /\ Shut(t)
<1>1. s \in Client /\ s.teardown # "none"
  BY DEF Sound, Ended
<1>2. PICK r : r = SetReady(s, FALSE)
  OBVIOUS
<1>3. /\ r \in Client /\ SameButLoop(s, r) /\ r.ready = FALSE /\ r.loop = s.loop
      /\ r.awaits = s.awaits
  BY <1>1, <1>2, SetReadyFields
<1>4. PICK t : t = [r EXCEPT !.timer = FALSE, !.ctrl = [st |-> "none", at |-> None], !.masters = <<>>]
  OBVIOUS
<1>5. t \in Client
  <2>1. [st |-> "none", at |-> None] \in Ctrl
    BY DEF Ctrl
  <2>2. <<>> \in Seq(Master)
    OBVIOUS
  <2>3. QED
    BY <1>3, <1>4, <2>1, <2>2 DEF Client
<1>6. /\ t.timer = FALSE /\ t.ctrl.st = "none" /\ t.masters = <<>> /\ t.ready = FALSE
      /\ t.loop = "idle" /\ t.pool = s.pool /\ t.destroying /\ t.teardown = s.teardown
      /\ t.awaits = s.awaits /\ t.open = s.open
  BY <1>3, <1>4 DEF Client, SameButLoop
<1>7. Quiet(t) /\ Awaiting(t)
  BY <1>6 DEF Quiet, Sound, Awaiting
<1>8. CASE s.teardown = "close"
  <2>1. PICK u : u = [t EXCEPT !.draining = TRUE]
    OBVIOUS
  <2>2. Dismantle(s) = u
    BY <1>2, <1>4, <1>8, <2>1 DEF Dismantle
  <2>3. u \in Client
    BY <1>5, <2>1 DEF Client
  <2>4. /\ u.timer = FALSE /\ u.ctrl.st = "none" /\ u.masters = <<>> /\ u.ready = FALSE
        /\ u.loop = "idle" /\ u.pool = s.pool /\ u.destroying /\ u.teardown = s.teardown
        /\ u.awaits = t.awaits
    BY <1>5, <1>6, <2>1 DEF Client
  <2>5. Full(u) /\ Ended(u) /\ Served(u) /\ Awaiting(u) /\ Shut(u)
    BY <1>1, <1>7, <2>4 DEF Full, Ended, Quiet, Served, Awaiting, Shut
  <2>6. QED
    BY <2>2, <2>3, <2>4, <2>5 DEF Sound
<1>9. CASE s.teardown # "close"
  <2>1. Dismantle(s) = Closed(t)
    BY <1>2, <1>4, <1>9 DEF Dismantle
  <2>2. QED
    BY <1>5, <1>6, <1>7, <2>1, ClosedKeeps
<1>10. QED
  BY <1>8, <1>9

(* A teardown that waits. *)
LEMMA TeardownKeeps ==
    ASSUME NEW s, Sound(s), NEW kind \in {"close", "destroy"}
    PROVE  LET t == Teardown(s, kind)
           IN  /\ Sound(t) /\ Gentle(s, t) /\ t.pool = s.pool /\ t.loop = s.loop
               /\ t.destroying /\ t.draining = s.draining
<1>1. s \in Client
  BY DEF Sound
<1>2. PICK t : t = Teardown(s, kind)
  OBVIOUS
<1>3. /\ t \in Client
      /\ t.pool = s.pool /\ t.open = s.open /\ t.draining = s.draining
      /\ t.masters = s.masters /\ t.ctrl = s.ctrl /\ t.timer = s.timer
      /\ t.ready = s.ready /\ t.awaits = s.awaits /\ t.loop = s.loop
      /\ t.again = s.again /\ t.destroying /\ t.teardown # "none"
  BY <1>1, <1>2, TeardownFields
<1>4. Full(t) /\ Ended(t) /\ Served(t) /\ Awaiting(t)
  BY <1>3 DEF Sound, Full, Size, Ended, Quiet, Served, Awaiting
<1>5. Gentle(s, t)
  BY <1>3, GentleIfSame DEF Shut
<1>6. QED
  BY <1>2, <1>3, <1>4, <1>5 DEF Sound

-----------------------------------------------------------------------------
(* Callers that look alike to the leases. *)

Class(st) ==
    IF st \in {"idle", "over"} THEN "out"
    ELSE IF st \in {"waiting", "resetting"} THEN st ELSE "busy"

Alike(cs, ds) ==
    \A c \in Caller : /\ ds[c].slot = cs[c].slot
                      /\ Class(ds[c].st) = Class(cs[c].st)

(* Alike callers hold alike. *)
LEMMA AlikeHolds ==
    ASSUME NEW cs, NEW ds, Alike(cs, ds)
    PROVE  /\ \A c \in Caller : Owns(ds, c) <=> Owns(cs, c)
           /\ \A c \in Caller : ds[c].st = "waiting" <=> cs[c].st = "waiting"
           /\ Active(ds) = Active(cs)
<1>1. ASSUME NEW c \in Caller
      PROVE  /\ ds[c].st = "resetting" <=> cs[c].st = "resetting"
             /\ ds[c].st = "waiting" <=> cs[c].st = "waiting"
             /\ ds[c].st \in {"idle", "over"} <=> cs[c].st \in {"idle", "over"}
  BY DEF Alike, Class
<1>2. \A c \in Caller : Owns(ds, c) <=> Owns(cs, c)
  BY <1>1 DEF Owns
<1>3. Active(ds) = Active(cs)
  BY <1>1 DEF Active, Caller
<1>4. QED
  BY <1>1, <1>2, <1>3

(* So the leases stay as they are. *)
LEMMA AlikeLeased ==
    ASSUME NEW l, NEW cs, NEW S, Leased(l, cs, S), NEW ds \in [Caller -> Call],
           Alike(cs, ds), \A c \in Caller : ds[c].op = cs[c].op \/ (c \in Session /\ ds[c].st # "waiting")
    PROVE  Leased(l, ds, S)
<1>1. /\ \A c \in Caller : Owns(ds, c) <=> Owns(cs, c)
      /\ \A c \in Caller : ds[c].st = "waiting" <=> cs[c].st = "waiting"
      /\ Active(ds) = Active(cs)
      /\ \A c \in Caller : ds[c].slot = cs[c].slot
  BY AlikeHolds DEF Alike
<1>2. Spread(l, ds, S)
  <2>1. \A k \in S : OwnedAt(ds, k) <=> OwnedAt(cs, k)
    BY <1>1 DEF OwnedAt
  <2>2. \A k \in S : OneOf(FreeAt(l, k), OwnedAt(ds, k), l.shared = k, k \in l.lost)
    BY <2>1 DEF Leased, Spread, OneOf
  <2>3. QED
    BY <1>1, <2>2 DEF Leased, Spread
<1>3. Waits(l, ds)
  <2>1. Active(cs) \subseteq Caller /\ Session \subseteq Caller
    BY DEF Active, Caller
  <2>2. QED
    BY <1>1, <2>1 DEF Leased, Waits
<1>4. Ops(ds)
  <2>1. Plain \subseteq Caller /\ Session \subseteq Caller /\ Plain \cap Session = {}
    BY SentinelAssumption DEF Caller
  <2>2. QED
    BY <1>1, <2>1 DEF Leased, Ops
<1>5. QED
  BY <1>2, <1>3, <1>4 DEF Leased

-----------------------------------------------------------------------------
(* Who takes a slot, who waits for one and who gives one back.             *)

(* The rest of a queue. *)
LEMMA TailHolds ==
    ASSUME NEW T, NEW s \in Seq(T), s # <<>>
    PROVE  /\ Tail(s) \in Seq(T) /\ Head(s) \in T /\ Holds(s, Head(s))
           /\ NoRepeat(s) => /\ NoRepeat(Tail(s))
                             /\ \A x : Holds(Tail(s), x) <=> Holds(s, x) /\ x # Head(s)
<1>1. /\ Len(s) \in Nat /\ Len(s) > 0 /\ Tail(s) \in Seq(T) /\ Len(Tail(s)) = Len(s) - 1
      /\ \A i \in 1..Len(Tail(s)) : Tail(s)[i] = s[i + 1]
      /\ Head(s) = s[1] /\ s[1] \in T
  OBVIOUS
<1>2. Holds(s, Head(s))
  BY <1>1 DEF Holds
<1>3. ASSUME NoRepeat(s) PROVE NoRepeat(Tail(s))
  BY <1>1, <1>3 DEF NoRepeat
<1>4. ASSUME NoRepeat(s), NEW x
      PROVE  Holds(Tail(s), x) <=> Holds(s, x) /\ x # Head(s)
  <2>1. ASSUME Holds(Tail(s), x) PROVE Holds(s, x) /\ x # Head(s)
    <3>1. PICK i \in 1..Len(Tail(s)) : Tail(s)[i] = x
      BY <2>1 DEF Holds
    <3>2. i + 1 \in 1..Len(s) /\ s[i + 1] = x /\ i + 1 # 1
      BY <1>1, <3>1
    <3>3. s[i + 1] # s[1]
      BY <1>1, <1>4, <3>2 DEF NoRepeat
    <3>4. QED
      BY <1>1, <3>2, <3>3 DEF Holds
  <2>2. ASSUME Holds(s, x), x # Head(s) PROVE Holds(Tail(s), x)
    <3>1. PICK i \in 1..Len(s) : s[i] = x
      BY <2>2 DEF Holds
    <3>2. i # 1
      BY <1>1, <2>2, <3>1
    <3>3. i - 1 \in 1..Len(Tail(s)) /\ Tail(s)[i - 1] = x
      BY <1>1, <3>1, <3>2
    <3>4. QED
      BY <3>3 DEF Holds
  <2>3. QED
    BY <2>1, <2>2
<1>5. QED
  BY <1>1, <1>2, <1>3, <1>4

(* A queue with one more. *)
LEMMA AppendHolds ==
    ASSUME NEW T, NEW s \in Seq(T), NEW e \in T
    PROVE  /\ Append(s, e) \in Seq(T)
           /\ \A x : Holds(Append(s, e), x) <=> Holds(s, x) \/ x = e
           /\ NoRepeat(s) /\ ~Holds(s, e) => NoRepeat(Append(s, e))
<1>1. PICK t : t = Append(s, e)
  OBVIOUS
<1>2. /\ t \in Seq(T) /\ Len(s) \in Nat /\ Len(t) = Len(s) + 1
      /\ \A i \in 1..Len(s) : t[i] = s[i]
      /\ t[Len(s) + 1] = e
  BY <1>1
<1>3. ASSUME NEW x PROVE Holds(t, x) <=> Holds(s, x) \/ x = e
  <2>1. ASSUME Holds(t, x), x # e PROVE Holds(s, x)
    <3>1. PICK i \in 1..Len(t) : t[i] = x
      BY <2>1 DEF Holds
    <3>2. i \in 1..Len(s)
      BY <1>2, <2>1, <3>1
    <3>3. QED
      BY <1>2, <3>1, <3>2 DEF Holds
  <2>2. ASSUME Holds(s, x) PROVE Holds(t, x)
    <3>1. PICK i \in 1..Len(s) : s[i] = x
      BY <2>2 DEF Holds
    <3>2. i \in 1..Len(t) /\ t[i] = x
      BY <1>2, <3>1
    <3>3. QED
      BY <3>2 DEF Holds
  <2>3. ASSUME x = e PROVE Holds(t, x)
    <3>1. Len(s) + 1 \in 1..Len(t)
      BY <1>2
    <3>2. QED
      BY <1>2, <2>3, <3>1 DEF Holds
  <2>4. QED
    BY <2>1, <2>2, <2>3
<1>4. ASSUME NoRepeat(s), ~Holds(s, e), NEW i \in 1..Len(t), NEW j \in 1..Len(t), t[i] = t[j]
      PROVE  i = j
  <2>1. CASE i \in 1..Len(s) /\ j \in 1..Len(s)
    BY <1>2, <1>4, <2>1 DEF NoRepeat
  <2>2. CASE i = Len(s) + 1 /\ j \in 1..Len(s)
    BY <1>2, <1>4, <2>2 DEF Holds
  <2>3. CASE i \in 1..Len(s) /\ j = Len(s) + 1
    BY <1>2, <1>4, <2>3 DEF Holds
  <2>4. QED
    BY <1>2, <2>1, <2>2, <2>3
<1>5. NoRepeat(s) /\ ~Holds(s, e) => NoRepeat(t)
  BY <1>4 DEF NoRepeat
<1>6. QED
  BY <1>1, <1>2, <1>3, <1>5

(* What Spread asks for, slot by slot. *)
LEMMA SpreadIf ==
    ASSUME NEW l \in Queue, NEW cs, NEW S,
           NoRepeat(l.free), l.shared \in S \cup {0}, l.lost \subseteq S,
           \A c, d \in Caller :
                Owns(cs, c) /\ Owns(cs, d) /\ cs[c].slot = cs[d].slot => c = d,
           \A k : FreeAt(l, k) \/ OwnedAt(cs, k) => k \in S,
           \A k \in S : OneOf(FreeAt(l, k), OwnedAt(cs, k), l.shared = k, k \in l.lost)
    PROVE  Spread(l, cs, S)
<1>1. \A i \in 1..Len(l.free) : l.free[i] \in S
  BY DEF FreeAt, Holds
<1>2. \A c \in Caller : Owns(cs, c) => cs[c].slot \in S
  BY DEF OwnedAt
<1>3. QED
  BY <1>1, <1>2 DEF Spread

(* And what it says. *)
LEMMA SpreadSays ==
    ASSUME NEW l, NEW cs, NEW S, Spread(l, cs, S)
    PROVE  \A k : FreeAt(l, k) \/ OwnedAt(cs, k) => k \in S
BY DEF Spread, FreeAt, Holds, OwnedAt

(* One caller changes, and is not, or stays, where a slot is. *)
LEMMA SameOwners ==
    ASSUME NEW cs, NEW ds,
           \A d \in Caller : Owns(ds, d) <=> Owns(cs, d),
           \A d \in Caller : Owns(cs, d) => ds[d].slot = cs[d].slot
    PROVE  \A k : OwnedAt(ds, k) <=> OwnedAt(cs, k)
BY DEF OwnedAt

Sets(cs, ds, c, x) == ds = [cs EXCEPT ![c] = x]

(* One more plain caller is served. *)
LEMMA ActiveGrows ==
    ASSUME NEW l, NEW cs \in [Caller -> Call], NEW c \in Plain, cs[c].st = "idle", Waits(l, cs),
           NEW x \in Call, x.st \in {"run", "waiting"}, NEW ds, Sets(cs, ds, c, x)
    PROVE  /\ Active(ds) = Active(cs) \cup {c}
           /\ IsFiniteSet(Active(ds)) /\ Cardinality(Active(ds)) = l.count + 1
           /\ l.count = 0 => Active(cs) = {}
<1>1. ds = [cs EXCEPT ![c] = x]
  BY DEF Sets
<1>2. c \in Caller
  BY DEF Caller
<1>3. ds[c] = x /\ \A d \in Caller \ {c} : ds[d] = cs[d]
  BY <1>1, <1>2
<1>4. c \notin Active(cs)
  BY DEF Active
<1>5. Active(ds) = Active(cs) \cup {c}
  <2>1. \A d \in Plain : d \in Active(ds) <=> d \in Active(cs) \cup {c}
    BY <1>3 DEF Active, Caller
  <2>2. Active(ds) \subseteq Plain /\ Active(cs) \subseteq Plain
    BY DEF Active
  <2>3. QED
    BY <2>1, <2>2
<1>6. IsFiniteSet(Active(cs)) /\ l.count = Cardinality(Active(cs))
  BY DEF Waits
<1>7. IsFiniteSet(Active(ds)) /\ Cardinality(Active(ds)) = l.count + 1
  <2>1. /\ IsFiniteSet(Active(cs) \cup {c})
        /\ Cardinality(Active(cs) \cup {c}) = Cardinality(Active(cs)) + 1
    BY ONLY <1>4, <1>6, FS_AddElement
  <2>2. QED
    BY ONLY <1>5, <1>6, <2>1
<1>8. l.count = 0 => Active(cs) = {}
  BY <1>6, FS_EmptySet
<1>9. QED
  BY <1>5, <1>7, <1>8

(* One plain caller is done. *)
LEMMA ActiveShrinks ==
    ASSUME NEW l, NEW cs \in [Caller -> Call], NEW c \in Active(cs), Waits(l, cs),
           NEW x \in Call, x.st \in {"over", "resetting"}, NEW ds, Sets(cs, ds, c, x)
    PROVE  /\ Active(ds) = Active(cs) \ {c}
           /\ IsFiniteSet(Active(ds)) /\ Cardinality(Active(ds)) = l.count - 1
           /\ l.count = 1 => Active(ds) = {}
<1>1. ds = [cs EXCEPT ![c] = x]
  BY DEF Sets
<1>2. c \in Caller /\ c \in Plain
  BY DEF Caller, Active
<1>3. ds[c] = x /\ \A d \in Caller \ {c} : ds[d] = cs[d]
  BY <1>1, <1>2
<1>4. Active(ds) = Active(cs) \ {c}
  <2>1. \A d \in Plain : d \in Active(ds) <=> d \in Active(cs) \ {c}
    BY <1>3 DEF Active, Caller
  <2>2. Active(ds) \subseteq Plain /\ Active(cs) \subseteq Plain
    BY DEF Active
  <2>3. QED
    BY <2>1, <2>2
<1>5. IsFiniteSet(Active(cs)) /\ l.count = Cardinality(Active(cs))
  BY DEF Waits
<1>6. IsFiniteSet(Active(ds)) /\ Cardinality(Active(ds)) = l.count - 1
  <2>1. c \in Active(cs)
    OBVIOUS
  <2>2. /\ IsFiniteSet(Active(cs) \ {c})
        /\ Cardinality(Active(cs) \ {c}) = Cardinality(Active(cs)) - 1
    BY ONLY <1>5, <2>1, FS_RemoveElement
  <2>3. QED
    BY ONLY <1>4, <1>5, <2>2
<1>7. l.count = 1 => Active(ds) = {}
  BY <1>6, FS_EmptySet
<1>8. QED
  BY <1>4, <1>6, <1>7

(* A plain caller joins: it shares a slot, takes one to share, or waits. *)
Shares(l, m, x) ==
    /\ l.shared # 0 /\ m.shared = l.shared /\ m.free = l.free /\ m.queue = l.queue
    /\ x.st = "run" /\ x.slot = l.shared
TakesShared(l, m, x) ==
    /\ l.shared = 0 /\ l.count = 0 /\ l.free # <<>>
    /\ m.shared = Head(l.free) /\ m.free = Tail(l.free) /\ m.queue = l.queue
    /\ x.st = "run" /\ x.slot = m.shared
WaitsShared(l, m, x) ==
    /\ l.shared = 0 /\ m.shared = 0 /\ m.free = l.free
    /\ m.queue = IF l.count = 0 THEN Append(l.queue, None) ELSE l.queue
    /\ x.st = "waiting"

(* Whichever it does, the slots stay where they belong. *)
LEMMA PlainJoins ==
    ASSUME NEW l, NEW cs, NEW S \in SUBSET (Nat \ {0}), Leased(l, cs, S),
           NEW c \in Plain, cs[c].st = "idle",
           NEW x \in Call, x.op \in {"command", "block"},
           NEW m \in Queue, m.lost = l.lost, m.count = l.count + 1,
           Shares(l, m, x) \/ TakesShared(l, m, x) \/ WaitsShared(l, m, x),
           NEW ds, Sets(cs, ds, c, x)
    PROVE  Leased(m, ds, S)
<1>1. ds = [cs EXCEPT ![c] = x]
  BY DEF Sets
<1>2. /\ l \in Queue /\ cs \in [Caller -> Call] /\ Spread(l, cs, S) /\ Waits(l, cs) /\ Ops(cs)
      /\ c \in Caller /\ c \notin Session /\ None \notin Caller
  BY SentinelAssumption DEF Leased, Caller
<1>3. x.st \in {"run", "waiting"}
  BY DEF Shares, TakesShared, WaitsShared
<1>4. ds \in [Caller -> Call] /\ ds[c] = x /\ \A d \in Caller \ {c} : ds[d] = cs[d]
  BY <1>1, <1>2
<1>5. /\ Active(ds) = Active(cs) \cup {c}
      /\ IsFiniteSet(Active(ds)) /\ Cardinality(Active(ds)) = l.count + 1
      /\ l.count = 0 => Active(cs) = {}
  <2>1. Waits(l, cs) /\ cs \in [Caller -> Call]
    BY <1>2
  <2>2. QED
    BY <1>3, <2>1, ActiveGrows
<1>6. \A d \in Caller : /\ Owns(ds, d) <=> Owns(cs, d)
                        /\ Owns(cs, d) => d # c
  BY <1>2, <1>3, <1>4 DEF Owns
<1>7. \A k : OwnedAt(ds, k) <=> OwnedAt(cs, k)
  BY <1>4, <1>6, SameOwners
<1>8. \A d, e \in Caller : Owns(ds, d) /\ Owns(ds, e) /\ ds[d].slot = ds[e].slot => d = e
  BY <1>2, <1>4, <1>6 DEF Spread
<1>9. Ops(ds)
  BY <1>2, <1>4 DEF Ops, Caller
<1>10. \A k : FreeAt(l, k) \/ OwnedAt(cs, k) => k \in S
  BY <1>2, SpreadSays
<1>11. /\ NoRepeat(l.free) /\ l.shared \in S \cup {0} /\ l.lost \subseteq S /\ 0 \notin S
       /\ \A k \in S : OneOf(FreeAt(l, k), OwnedAt(cs, k), l.shared = k, k \in l.lost)
  BY <1>2 DEF Spread
<1>12. l.count \in Nat /\ l.queue \in Seq(Session \cup {None}) /\ l.free \in Seq(Nat)
  BY <1>2 DEF Queue
<1>13. Session \subseteq Caller /\ \A d \in Session : ds[d] = cs[d]
  BY <1>2, <1>4 DEF Caller
<1>14. \A d \in Active(cs) : d # c /\ ds[d] = cs[d]
  BY <1>2, <1>4 DEF Active, Caller
<1>15. CASE Shares(l, m, x) \/ WaitsShared(l, m, x)
  <2>0. m.free = l.free /\ m.shared = l.shared
    BY <1>15 DEF Shares, WaitsShared
  <2>1. \A k \in S : OneOf(FreeAt(m, k), OwnedAt(ds, k), m.shared = k, k \in m.lost)
    BY <1>7, <1>11, <2>0 DEF OneOf, FreeAt
  <2>2. \A k : FreeAt(m, k) \/ OwnedAt(ds, k) => k \in S
    BY <1>7, <1>10, <2>0 DEF FreeAt
  <2>3. Spread(m, ds, S)
    BY <1>8, <1>11, <2>0, <2>1, <2>2, SpreadIf
  <2>4. CASE Shares(l, m, x)
    <3>1. \A y : Queued(m, y) <=> Queued(l, y)
      BY <2>4 DEF Shares, Queued
    <3>2. Waits(m, ds)
      BY <1>2, <1>4, <1>5, <1>12, <1>13, <1>14, <2>4, <3>1 DEF Waits, Shares
    <3>3. QED
      BY <1>4, <1>9, <2>3, <3>2 DEF Leased
  <2>5. CASE WaitsShared(l, m, x)
    <3>1. \A d \in Session : Queued(m, d) <=> Queued(l, d)
      <4>1. None \notin Session
        BY <1>2 DEF Caller
      <4>2. CASE l.count = 0
        BY <1>12, <2>5, <4>1, <4>2, AppendHolds, SMTT(60) DEF WaitsShared, Queued
      <4>3. CASE l.count # 0
        BY <2>5, <4>3 DEF WaitsShared, Queued
      <4>4. QED
        BY <4>2, <4>3
    <3>2. Queued(m, None) /\ NoRepeat(m.queue)
      <4>1. CASE l.count = 0
        <5>1. ~Queued(l, None) /\ NoRepeat(l.queue)
          BY <1>2, <4>1 DEF Waits
        <5>2. QED
          BY <1>12, <2>5, <4>1, <5>1, AppendHolds DEF WaitsShared, Queued
      <4>2. CASE l.count # 0
        <5>1. Queued(l, None) /\ NoRepeat(l.queue)
          BY <1>2, <1>12, <2>5, <4>2 DEF Waits, WaitsShared
        <5>2. QED
          BY <2>5, <4>2, <5>1 DEF WaitsShared, Queued
      <4>3. QED
        BY <4>1, <4>2
    <3>3. \A d \in Active(ds) : ds[d].st = "waiting" /\ m.shared = 0
      BY <1>2, <1>4, <1>5, <1>14, <2>5 DEF Waits, WaitsShared
    <3>4. m.count > 0 /\ m.shared = 0
      BY <1>12, <2>5 DEF WaitsShared
    <3>5. Waits(m, ds)
      BY <1>2, <1>5, <1>13, <3>1, <3>2, <3>3, <3>4 DEF Waits
    <3>6. QED
      BY <1>4, <1>9, <2>3, <3>5 DEF Leased
  <2>6. QED
    BY <1>15, <2>4, <2>5
<1>16. CASE TakesShared(l, m, x)
  <2>1. /\ m.free \in Seq(Nat) /\ NoRepeat(m.free) /\ FreeAt(l, m.shared)
        /\ \A k : FreeAt(m, k) <=> FreeAt(l, k) /\ k # m.shared
    BY <1>11, <1>12, <1>16, TailHolds DEF TakesShared, FreeAt
  <2>2. m.shared \in S /\ m.shared # 0 /\ l.shared = 0
    BY <1>10, <1>11, <1>16, <2>1 DEF TakesShared
  <2>3. \A k \in S : OneOf(FreeAt(m, k), OwnedAt(ds, k), m.shared = k, k \in m.lost)
    BY <1>7, <1>11, <2>1, <2>2 DEF OneOf
  <2>4. \A k : FreeAt(m, k) \/ OwnedAt(ds, k) => k \in S
    BY <1>7, <1>10, <2>1
  <2>5. Spread(m, ds, S)
    BY <1>8, <1>11, <2>1, <2>2, <2>3, <2>4, SpreadIf
  <2>6. \A y : Queued(m, y) <=> Queued(l, y)
    BY <1>16 DEF TakesShared, Queued
  <2>7. ~Queued(m, None) /\ Active(ds) = {c}
    BY <1>2, <1>5, <1>16, <2>6 DEF TakesShared, Waits
  <2>8. NoRepeat(m.queue) /\ \A d \in Session : Queued(m, d) <=> ds[d].st = "waiting"
    BY <1>2, <1>13, <1>16, <2>6 DEF Waits, TakesShared
  <2>9. ds[c].slot = m.shared /\ ds[c].st = "run"
    BY <1>4, <1>16 DEF TakesShared
  <2>10. Waits(m, ds)
    BY <1>5, <2>2, <2>7, <2>8, <2>9 DEF Waits
  <2>11. QED
    BY <1>4, <1>9, <2>5, <2>10 DEF Leased
<1>17. QED
  BY <1>15, <1>16

(* A session takes a slot of its own, or waits for one. *)
TakesSlot(l, m, x) ==
    /\ l.free # <<>> /\ m.free = Tail(l.free) /\ m.queue = l.queue
    /\ x.st = "run" /\ x.slot = Head(l.free)
WaitsSlot(l, m, x, c) ==
    /\ m.free = l.free /\ m.queue = Append(l.queue, c)
    /\ x.st = "waiting"

(* Whichever it does, the slots stay where they belong. *)
LEMMA SessionJoins ==
    ASSUME NEW l, NEW cs, NEW S \in SUBSET (Nat \ {0}), Leased(l, cs, S),
           NEW c \in Session, cs[c].st = "idle",
           NEW x \in Call, x.op = "watch",
           NEW m \in Queue, m.lost = l.lost, m.count = l.count, m.shared = l.shared,
           TakesSlot(l, m, x) \/ WaitsSlot(l, m, x, c),
           NEW ds, Sets(cs, ds, c, x)
    PROVE  Leased(m, ds, S)
<1>1. ds = [cs EXCEPT ![c] = x]
  BY DEF Sets
<1>2. /\ l \in Queue /\ cs \in [Caller -> Call] /\ Spread(l, cs, S) /\ Waits(l, cs) /\ Ops(cs)
      /\ c \in Caller /\ c \notin Plain /\ None \notin Caller
  BY SentinelAssumption DEF Leased, Caller
<1>3. ds \in [Caller -> Call] /\ ds[c] = x /\ \A d \in Caller \ {c} : ds[d] = cs[d]
  BY <1>1, <1>2
<1>4. \A d \in Plain : d \in Caller /\ ds[d] = cs[d]
  BY <1>2, <1>3 DEF Caller
<1>5. Active(ds) = Active(cs)
  BY <1>4 DEF Active
<1>6. Ops(ds)
  BY <1>2, <1>3, <1>4 DEF Ops, Caller
<1>7. \A k : FreeAt(l, k) \/ OwnedAt(cs, k) => k \in S
  BY <1>2, SpreadSays
<1>8. /\ NoRepeat(l.free) /\ l.shared \in S \cup {0} /\ l.lost \subseteq S /\ 0 \notin S
      /\ \A k \in S : OneOf(FreeAt(l, k), OwnedAt(cs, k), l.shared = k, k \in l.lost)
  BY <1>2 DEF Spread
<1>9. l.count \in Nat /\ l.queue \in Seq(Session \cup {None}) /\ l.free \in Seq(Nat)
  BY <1>2 DEF Queue
<1>10. ~Queued(l, c)
  BY <1>2 DEF Waits
<1>11. ~Owns(cs, c) /\ \A d \in Caller \ {c} : Owns(ds, d) <=> Owns(cs, d)
  BY <1>3 DEF Owns
<1>12. \A d \in Active(ds) : d \in Plain /\ d \in Active(cs) /\ ds[d] = cs[d]
  BY <1>4, <1>5 DEF Active
<1>13. CASE WaitsSlot(l, m, x, c)
  <2>1. \A d \in Caller : /\ Owns(ds, d) <=> Owns(cs, d)
                          /\ Owns(cs, d) => d # c
    BY <1>3, <1>11, <1>13 DEF Owns, WaitsSlot
  <2>2. \A k : OwnedAt(ds, k) <=> OwnedAt(cs, k)
    BY <1>3, <2>1, SameOwners
  <2>3. \A d, e \in Caller : Owns(ds, d) /\ Owns(ds, e) /\ ds[d].slot = ds[e].slot => d = e
    BY <1>2, <1>3, <2>1 DEF Spread
  <2>4. m.free = l.free
    BY <1>13 DEF WaitsSlot
  <2>5. \A k \in S : OneOf(FreeAt(m, k), OwnedAt(ds, k), m.shared = k, k \in m.lost)
    BY <1>8, <2>2, <2>4 DEF OneOf, FreeAt
  <2>6. \A k : FreeAt(m, k) \/ OwnedAt(ds, k) => k \in S
    BY <1>7, <2>2, <2>4 DEF FreeAt
  <2>7. Spread(m, ds, S)
    BY <1>8, <2>3, <2>4, <2>5, <2>6, SpreadIf
  <2>8. c \in Session \cup {None}
    OBVIOUS
  <2>9. /\ \A y : Queued(m, y) <=> Queued(l, y) \/ y = c
        /\ NoRepeat(l.queue) => NoRepeat(m.queue)
    BY <1>9, <1>10, <1>13, <2>8, AppendHolds DEF WaitsSlot, Queued
  <2>10. c # None /\ Session \subseteq Caller /\ ds[c].st = "waiting"
    BY <1>2, <1>3, <1>13 DEF Caller, WaitsSlot
  <2>11. NoRepeat(m.queue) /\ \A d \in Session : Queued(m, d) <=> ds[d].st = "waiting"
    BY <1>2, <1>3, <2>9, <2>10 DEF Waits
  <2>12. Waits(m, ds)
    BY <1>2, <1>5, <1>12, <2>9, <2>10, <2>11 DEF Waits
  <2>13. QED
    BY <1>3, <1>6, <2>7, <2>12 DEF Leased
<1>14. CASE TakesSlot(l, m, x)
  <2>1. /\ m.free \in Seq(Nat) /\ NoRepeat(m.free) /\ FreeAt(l, x.slot)
        /\ \A k : FreeAt(m, k) <=> FreeAt(l, k) /\ k # x.slot
    BY <1>8, <1>9, <1>14, TailHolds DEF TakesSlot, FreeAt
  <2>2. x.slot \in S
    BY <1>7, <2>1
  <2>3. Owns(ds, c)
    BY <1>3, <1>14 DEF Owns, TakesSlot
  <2>4. ~OwnedAt(cs, x.slot)
    BY <1>8, <2>1, <2>2 DEF OneOf
  <2>5. \A k : OwnedAt(ds, k) <=> OwnedAt(cs, k) \/ k = x.slot
    BY <1>2, <1>3, <1>11, <2>3 DEF OwnedAt
  <2>6. \A d, e \in Caller : Owns(ds, d) /\ Owns(ds, e) /\ ds[d].slot = ds[e].slot => d = e
    <3>1. \A d \in Caller \ {c} : Owns(ds, d) => ds[d].slot # x.slot
      BY <1>3, <1>11, <2>4 DEF OwnedAt
    <3>2. QED
      BY <1>2, <1>3, <1>11, <3>1 DEF Spread
  <2>7. \A k \in S : OneOf(FreeAt(m, k), OwnedAt(ds, k), m.shared = k, k \in m.lost)
    BY <1>8, <2>1, <2>5 DEF OneOf
  <2>8. \A k : FreeAt(m, k) \/ OwnedAt(ds, k) => k \in S
    BY <1>7, <2>1, <2>2, <2>5
  <2>9. Spread(m, ds, S)
    BY <1>8, <2>1, <2>6, <2>7, <2>8, SpreadIf
  <2>10. \A y : Queued(m, y) <=> Queued(l, y)
    BY <1>14 DEF TakesSlot, Queued
  <2>11. NoRepeat(m.queue) /\ \A d \in Session : Queued(m, d) <=> ds[d].st = "waiting"
    BY <1>2, <1>3, <1>10, <1>14, <2>10 DEF Waits, TakesSlot, Caller
  <2>12. Waits(m, ds)
    BY <1>2, <1>5, <1>12, <2>10, <2>11 DEF Waits
  <2>13. QED
    BY <1>3, <1>6, <2>9, <2>12 DEF Leased
<1>15. QED
  BY <1>13, <1>14

(* A caller that waited is given the slot. *)
Given(x, y, slot) ==
    \/ y = x
    \/ x.st = "waiting" /\ y = [x EXCEPT !.st = "run", !.slot = slot]

(* Where the slot is not lent again it is free. *)
LEMMA PushFree ==
    ASSUME NEW l, NEW cs, NEW S \in SUBSET (Nat \ {0}), Leased(l, cs, S),
           NEW slot \in Nat \ {0}, slot \notin S, l.queue = <<>>
    PROVE  LET p == Push(l, cs, slot)
           IN  Leased(p.l, p.cs, S \cup {slot}) /\ p.cs = cs
<1>1. /\ l \in Queue /\ cs \in [Caller -> Call] /\ Spread(l, cs, S) /\ Waits(l, cs) /\ Ops(cs)
  BY DEF Leased
<1>2. PICK m : m = [l EXCEPT !.free = Append(l.free, slot)]
  OBVIOUS
<1>3. Push(l, cs, slot) = [l |-> m, cs |-> cs]
  BY <1>2 DEF Push
<1>4. l.free \in Seq(Nat) /\ slot \in Nat
  BY <1>1 DEF Queue
<1>5. Append(l.free, slot) \in Seq(Nat)
  BY <1>4
<1>6. m \in Queue
  BY <1>1, <1>2, <1>5 DEF Queue
<1>7. /\ m.free = Append(l.free, slot) /\ m.queue = l.queue /\ m.count = l.count
      /\ m.shared = l.shared /\ m.lost = l.lost
  BY <1>1, <1>2 DEF Queue
<1>8. \A k : FreeAt(l, k) \/ OwnedAt(cs, k) => k \in S
  BY <1>1, SpreadSays
<1>9. /\ NoRepeat(l.free) /\ l.shared \in S \cup {0} /\ l.lost \subseteq S
      /\ \A k \in S : OneOf(FreeAt(l, k), OwnedAt(cs, k), l.shared = k, k \in l.lost)
      /\ \A c, d \in Caller : Owns(cs, c) /\ Owns(cs, d) /\ cs[c].slot = cs[d].slot => c = d
  BY <1>1 DEF Spread
<1>10. NoRepeat(m.free) /\ \A k : FreeAt(m, k) <=> FreeAt(l, k) \/ k = slot
  BY <1>4, <1>7, <1>8, <1>9, AppendHolds DEF FreeAt
<1>11. \A k \in S \cup {slot} : OneOf(FreeAt(m, k), OwnedAt(cs, k), m.shared = k, k \in m.lost)
  <2>1. ~FreeAt(l, slot) /\ ~OwnedAt(cs, slot) /\ m.shared # slot /\ slot \notin m.lost
    BY <1>7, <1>8, <1>9
  <2>2. QED
    BY <1>7, <1>9, <1>10, <2>1 DEF OneOf
<1>12. Spread(m, cs, S \cup {slot})
  <2>1. \A k : FreeAt(m, k) \/ OwnedAt(cs, k) => k \in S \cup {slot}
    BY <1>8, <1>10
  <2>2. m.shared \in (S \cup {slot}) \cup {0} /\ m.lost \subseteq S \cup {slot}
    BY <1>7, <1>9
  <2>3. QED
    BY <1>6, <1>9, <1>10, <1>11, <2>1, <2>2, SpreadIf
<1>13. Waits(m, cs)
  BY <1>1, <1>7 DEF Waits, Queued
<1>14. QED
  BY <1>1, <1>3, <1>6, <1>12, <1>13 DEF Leased

(* The plain callers that wait share it. *)
LEMMA PushShared ==
    ASSUME NEW l, NEW cs, NEW S \in SUBSET (Nat \ {0}), Leased(l, cs, S),
           NEW slot \in Nat \ {0}, slot \notin S, l.queue # <<>>, Head(l.queue) = None
    PROVE  LET p == Push(l, cs, slot)
           IN  /\ Leased(p.l, p.cs, S \cup {slot})
               /\ \A c \in Caller : Given(cs[c], p.cs[c], slot)
<1>1. /\ l \in Queue /\ cs \in [Caller -> Call] /\ Spread(l, cs, S) /\ Waits(l, cs) /\ Ops(cs)
      /\ None \notin Session
  BY SentinelAssumption DEF Leased
<1>2. PICK m : m = [l EXCEPT !.queue = Tail(l.queue), !.shared = slot]
  OBVIOUS
<1>3. PICK ds : ds = [c \in Caller |-> IF c \in Plain /\ cs[c].st = "waiting"
                                       THEN [cs[c] EXCEPT !.st = "run", !.slot = slot] ELSE cs[c]]
  OBVIOUS
<1>4. Push(l, cs, slot) = [l |-> m, cs |-> ds]
  <2>1. [[l EXCEPT !.queue = Tail(l.queue)] EXCEPT !.shared = slot] = m
    BY <1>1, <1>2 DEF Queue
  <2>2. QED
    BY <1>3, <2>1 DEF Push
<1>5. l.queue \in Seq(Session \cup {None})
  BY <1>1 DEF Queue
<1>6. /\ Tail(l.queue) \in Seq(Session \cup {None}) /\ Queued(l, None)
      /\ NoRepeat(Tail(l.queue))
      /\ \A y : Holds(Tail(l.queue), y) <=> Queued(l, y) /\ y # None
  BY <1>1, <1>5, TailHolds DEF Waits, Queued
<1>7. m \in Queue
  BY <1>1, <1>2, <1>6 DEF Queue
<1>8. /\ m.free = l.free /\ m.queue = Tail(l.queue) /\ m.count = l.count
      /\ m.shared = slot /\ m.lost = l.lost
  BY <1>1, <1>2 DEF Queue
<1>9. \A c \in Caller : /\ ds[c] \in Call /\ Given(cs[c], ds[c], slot)
                        /\ c \in Plain /\ cs[c].st = "waiting" =>
                                ds[c].st = "run" /\ ds[c].slot = slot /\ ds[c].op = cs[c].op
                        /\ c \notin Plain \/ cs[c].st # "waiting" => ds[c] = cs[c]
  BY <1>1, <1>3, ZenonT(60) DEF Call, Given
<1>10. ds \in [Caller -> Call]
  BY <1>3, <1>9
<1>11. Plain \cap Session = {} /\ Plain \subseteq Caller /\ Session \subseteq Caller
  BY SentinelAssumption DEF Caller
<1>12. \A c \in Session : ds[c] = cs[c]
  BY <1>9, <1>11
<1>13. Ops(ds)
  BY <1>1, <1>9, <1>11, <1>12 DEF Ops
<1>14. \A c \in Caller : /\ Owns(ds, c) <=> Owns(cs, c)
                         /\ Owns(cs, c) => ds[c] = cs[c]
  BY <1>9, <1>11 DEF Owns
<1>15. \A k : OwnedAt(ds, k) <=> OwnedAt(cs, k)
  BY <1>14, SameOwners
<1>16. \A k : FreeAt(l, k) \/ OwnedAt(cs, k) => k \in S
  BY <1>1, SpreadSays
<1>17. /\ NoRepeat(l.free) /\ l.lost \subseteq S /\ 0 \notin S
       /\ \A k \in S : OneOf(FreeAt(l, k), OwnedAt(cs, k), l.shared = k, k \in l.lost)
       /\ \A c, d \in Caller : Owns(cs, c) /\ Owns(cs, d) /\ cs[c].slot = cs[d].slot => c = d
  BY <1>1 DEF Spread
<1>18. l.shared = 0 /\ l.count > 0
  BY <1>1, <1>6 DEF Waits
<1>19. Spread(m, ds, S \cup {slot})
  <2>1. \A k : FreeAt(m, k) <=> FreeAt(l, k)
    BY <1>8 DEF FreeAt
  <2>2. \A k \in S \cup {slot} : OneOf(FreeAt(m, k), OwnedAt(ds, k), m.shared = k, k \in m.lost)
    <3>1. ~FreeAt(l, slot) /\ ~OwnedAt(cs, slot) /\ slot \notin m.lost
      BY <1>8, <1>16, <1>17
    <3>2. \A k \in S : k # l.shared /\ k # m.shared
      BY <1>8, <1>17, <1>18
    <3>3. QED
      BY <1>8, <1>15, <1>17, <2>1, <3>1, <3>2 DEF OneOf
  <2>3. \A k : FreeAt(m, k) \/ OwnedAt(ds, k) => k \in S \cup {slot}
    BY <1>15, <1>16, <2>1
  <2>4. m.shared \in (S \cup {slot}) \cup {0} /\ m.lost \subseteq S \cup {slot} /\ NoRepeat(m.free)
    BY <1>8, <1>17
  <2>5. \A c, d \in Caller : Owns(ds, c) /\ Owns(ds, d) /\ ds[c].slot = ds[d].slot => c = d
    BY <1>14, <1>17
  <2>6. QED
    BY <1>7, <2>2, <2>3, <2>4, <2>5, SpreadIf
<1>20. Waits(m, ds)
  <2>1. Active(ds) = Active(cs)
    <3>1. \A c \in Plain : ds[c].st \notin {"idle", "over", "resetting"} <=>
                           cs[c].st \notin {"idle", "over", "resetting"}
      BY <1>9, <1>11
    <3>2. QED
      BY <3>1 DEF Active
  <2>2. \A c \in Active(ds) : ds[c].st # "waiting" /\ ds[c].slot = slot
    BY <1>1, <1>9, <1>11, <1>18, <2>1 DEF Waits, Active
  <2>3. ~Queued(m, None)
    BY <1>6, <1>8 DEF Queued
  <2>4. \A c \in Session : Queued(m, c) <=> ds[c].st = "waiting"
    BY <1>1, <1>6, <1>8, <1>12 DEF Queued, Waits
  <2>5. NoRepeat(m.queue) /\ slot # 0
    BY <1>6, <1>8
  <2>6. QED
    BY <1>1, <1>8, <2>1, <2>2, <2>3, <2>4, <2>5 DEF Waits
<1>21. QED
  BY <1>4, <1>7, <1>9, <1>10, <1>13, <1>19, <1>20 DEF Leased

(* The session that waited longest has it. *)
LEMMA PushSession ==
    ASSUME NEW l, NEW cs, NEW S \in SUBSET (Nat \ {0}), Leased(l, cs, S),
           NEW slot \in Nat \ {0}, slot \notin S, l.queue # <<>>, Head(l.queue) # None
    PROVE  LET p == Push(l, cs, slot)
           IN  /\ Leased(p.l, p.cs, S \cup {slot})
               /\ \A c \in Caller : Given(cs[c], p.cs[c], slot)
<1>1. /\ l \in Queue /\ cs \in [Caller -> Call] /\ Spread(l, cs, S) /\ Waits(l, cs) /\ Ops(cs)
      /\ Plain \cap Session = {} /\ Plain \subseteq Caller /\ Session \subseteq Caller
      /\ None \notin Session
  BY SentinelAssumption DEF Leased, Caller
<1>2. l.queue \in Seq(Session \cup {None})
  BY <1>1 DEF Queue
<1>3. PICK who : who = Head(l.queue)
  OBVIOUS
<1>4. /\ Tail(l.queue) \in Seq(Session \cup {None}) /\ who \in Session \cup {None} /\ Queued(l, who)
      /\ NoRepeat(Tail(l.queue))
      /\ \A y : Holds(Tail(l.queue), y) <=> Queued(l, y) /\ y # who
  BY <1>1, <1>2, <1>3, TailHolds DEF Waits, Queued
<1>5. who \in Session /\ who \in Caller /\ cs[who].st = "waiting" /\ cs[who].op = "watch"
  BY <1>1, <1>3, <1>4 DEF Waits, Ops
<1>6. PICK m : m = [l EXCEPT !.queue = Tail(l.queue)]
  OBVIOUS
<1>7. PICK x : x = [cs[who] EXCEPT !.st = "run", !.slot = slot]
  OBVIOUS
<1>8. PICK ds : ds = [cs EXCEPT ![who] = x]
  OBVIOUS
<1>9. Push(l, cs, slot) = [l |-> m, cs |-> ds]
  BY <1>3, <1>6, <1>7, <1>8 DEF Push
<1>10. m \in Queue
  BY <1>1, <1>4, <1>6 DEF Queue
<1>11. /\ m.free = l.free /\ m.queue = Tail(l.queue) /\ m.count = l.count
       /\ m.shared = l.shared /\ m.lost = l.lost
  BY <1>1, <1>6 DEF Queue
<1>12. x \in Call /\ x.st = "run" /\ x.slot = slot /\ Given(cs[who], x, slot)
  BY <1>1, <1>5, <1>7, ZenonT(60) DEF Call, Given
<1>13. ds \in [Caller -> Call] /\ ds[who] = x /\ \A c \in Caller \ {who} : ds[c] = cs[c]
  BY <1>1, <1>5, <1>8, <1>12
<1>14. \A c \in Plain : ds[c] = cs[c]
  BY <1>1, <1>5, <1>13
<1>15. Ops(ds)
  BY <1>1, <1>12, <1>13, <1>14 DEF Ops
<1>16. ~Owns(cs, who) /\ Owns(ds, who) /\ \A c \in Caller \ {who} : Owns(ds, c) <=> Owns(cs, c)
  BY <1>5, <1>12, <1>13 DEF Owns
<1>17. \A k : FreeAt(l, k) \/ OwnedAt(cs, k) => k \in S
  BY <1>1, SpreadSays
<1>18. \A k : OwnedAt(ds, k) <=> OwnedAt(cs, k) \/ k = slot
  BY <1>5, <1>12, <1>13, <1>16 DEF OwnedAt
<1>19. /\ NoRepeat(l.free) /\ l.lost \subseteq S /\ l.shared \in S \cup {0}
       /\ \A k \in S : OneOf(FreeAt(l, k), OwnedAt(cs, k), l.shared = k, k \in l.lost)
       /\ \A c, d \in Caller : Owns(cs, c) /\ Owns(cs, d) /\ cs[c].slot = cs[d].slot => c = d
  BY <1>1 DEF Spread
<1>20. Spread(m, ds, S \cup {slot})
  <2>1. \A k : FreeAt(m, k) <=> FreeAt(l, k)
    BY <1>11 DEF FreeAt
  <2>2. \A k \in S \cup {slot} : OneOf(FreeAt(m, k), OwnedAt(ds, k), m.shared = k, k \in m.lost)
    <3>1. ~FreeAt(l, slot) /\ ~OwnedAt(cs, slot) /\ slot \notin m.lost /\ m.shared # slot
      BY <1>11, <1>17, <1>19
    <3>2. QED
      BY <1>11, <1>18, <1>19, <2>1, <3>1 DEF OneOf
  <2>3. \A k : FreeAt(m, k) \/ OwnedAt(ds, k) => k \in S \cup {slot}
    BY <1>17, <1>18, <2>1
  <2>4. m.shared \in (S \cup {slot}) \cup {0} /\ m.lost \subseteq S \cup {slot} /\ NoRepeat(m.free)
    BY <1>11, <1>19
  <2>5. \A c, d \in Caller : Owns(ds, c) /\ Owns(ds, d) /\ ds[c].slot = ds[d].slot => c = d
    <3>1. \A c \in Caller \ {who} : Owns(ds, c) => ds[c].slot # slot
      BY <1>13, <1>16, <1>17 DEF OwnedAt
    <3>2. QED
      BY <1>12, <1>13, <1>16, <1>19, <3>1
  <2>6. QED
    BY <1>10, <2>2, <2>3, <2>4, <2>5, SpreadIf
<1>21. Waits(m, ds)
  <2>1. Active(ds) = Active(cs)
    BY <1>14 DEF Active
  <2>2. \A c \in Active(ds) : ds[c] = cs[c]
    BY <1>14 DEF Active
  <2>3. \A c \in Session : Queued(m, c) <=> ds[c].st = "waiting"
    BY <1>1, <1>4, <1>11, <1>12, <1>13 DEF Queued, Waits
  <2>4. NoRepeat(m.queue) /\ (Queued(m, None) <=> Queued(l, None))
    BY <1>1, <1>4, <1>5, <1>11 DEF Queued
  <2>5. QED
    BY <1>1, <1>11, <2>1, <2>2, <2>3, <2>4 DEF Waits
<1>22. \A c \in Caller : Given(cs[c], ds[c], slot)
  <2>1. \A c \in Caller \ {who} : Given(cs[c], ds[c], slot)
    BY <1>13 DEF Given
  <2>2. QED
    BY <1>12, <1>13, <2>1
<1>23. Leased(m, ds, S \cup {slot})
  BY <1>10, <1>13, <1>15, <1>20, <1>21 DEF Leased
<1>24. QED
  BY ONLY <1>9, <1>22, <1>23

(* WaitQueue.push, whoever waits. *)
LEMMA PushLeased ==
    ASSUME NEW l, NEW cs, NEW S \in SUBSET (Nat \ {0}), Leased(l, cs, S),
           NEW slot \in Nat \ {0}, slot \notin S
    PROVE  LET p == Push(l, cs, slot)
           IN  /\ Leased(p.l, p.cs, S \cup {slot})
               /\ \A c \in Caller : Given(cs[c], p.cs[c], slot)
<1>1. CASE l.queue = <<>>
  <2>1. Leased(Push(l, cs, slot).l, Push(l, cs, slot).cs, S \cup {slot}) /\ Push(l, cs, slot).cs = cs
    BY <1>1, PushFree
  <2>2. QED
    BY ONLY <2>1 DEF Given
<1>2. CASE l.queue # <<>> /\ Head(l.queue) = None
  BY <1>2, PushShared
<1>3. CASE l.queue # <<>> /\ Head(l.queue) # None
  BY <1>3, PushSession
<1>4. QED
  BY <1>1, <1>2, <1>3

(* Who has a slot of its own leaves it. *)
LEMMA OwnerLeaves ==
    ASSUME NEW l, NEW cs, NEW S \in SUBSET (Nat \ {0}), Leased(l, cs, S),
           NEW c \in Caller, Owns(cs, c),
           NEW x \in Call, x.st = "over", x.slot = cs[c].slot, x.op = cs[c].op,
           NEW ds, Sets(cs, ds, c, x)
    PROVE  Leased(l, ds, S \ {cs[c].slot}) /\ cs[c].slot \in S
<1>1. /\ l \in Queue /\ cs \in [Caller -> Call] /\ Spread(l, cs, S) /\ Waits(l, cs) /\ Ops(cs)
      /\ Plain \cap Session = {} /\ Plain \subseteq Caller /\ Session \subseteq Caller
  BY SentinelAssumption DEF Leased, Caller
<1>2. ds \in [Caller -> Call] /\ ds[c] = x /\ \A d \in Caller \ {c} : ds[d] = cs[d]
  BY <1>1 DEF Sets
<1>3. PICK slot : slot = cs[c].slot
  OBVIOUS
<1>4. \A k : FreeAt(l, k) \/ OwnedAt(cs, k) => k \in S
  BY <1>1, SpreadSays
<1>5. /\ NoRepeat(l.free) /\ l.lost \subseteq S /\ l.shared \in S \cup {0} /\ 0 \notin S
      /\ \A k \in S : OneOf(FreeAt(l, k), OwnedAt(cs, k), l.shared = k, k \in l.lost)
      /\ \A d, e \in Caller : Owns(cs, d) /\ Owns(cs, e) /\ cs[d].slot = cs[e].slot => d = e
  BY <1>1 DEF Spread
<1>6. OwnedAt(cs, slot) /\ slot \in S
  BY <1>3, <1>4 DEF OwnedAt
<1>7. ~Owns(ds, c) /\ \A d \in Caller \ {c} : Owns(ds, d) <=> Owns(cs, d)
  BY <1>2 DEF Owns
<1>8. \A k : OwnedAt(ds, k) <=> OwnedAt(cs, k) /\ k # slot
  <2>1. \A k : OwnedAt(ds, k) => OwnedAt(cs, k)
    BY <1>2, <1>7 DEF OwnedAt
  <2>2. ~OwnedAt(ds, slot)
    BY <1>2, <1>3, <1>5, <1>7 DEF OwnedAt
  <2>3. \A k : OwnedAt(cs, k) /\ k # slot => OwnedAt(ds, k)
    BY <1>2, <1>3, <1>7 DEF OwnedAt
  <2>4. QED
    BY <2>1, <2>2, <2>3
<1>9. ~FreeAt(l, slot) /\ l.shared # slot /\ slot \notin l.lost
  BY <1>5, <1>6 DEF OneOf
<1>10. Spread(l, ds, S \ {slot})
  <2>1. \A k \in S \ {slot} : OneOf(FreeAt(l, k), OwnedAt(ds, k), l.shared = k, k \in l.lost)
    BY <1>5, <1>8 DEF OneOf
  <2>2. \A k : FreeAt(l, k) \/ OwnedAt(ds, k) => k \in S \ {slot}
    BY <1>4, <1>8, <1>9
  <2>3. l.shared \in (S \ {slot}) \cup {0} /\ l.lost \subseteq S \ {slot}
    BY <1>5, <1>9
  <2>4. \A d, e \in Caller : Owns(ds, d) /\ Owns(ds, e) /\ ds[d].slot = ds[e].slot => d = e
    BY <1>2, <1>5, <1>7
  <2>5. QED
    BY <1>1, <1>5, <2>1, <2>2, <2>3, <2>4, SpreadIf
<1>11. cs[c].st # "waiting" /\ c \notin Active(cs)
  BY <1>1 DEF Owns, Active
<1>12. Waits(l, ds)
  <2>1. \A d \in Plain : d \in Active(ds) <=> d \in Active(cs)
    BY <1>1, <1>2, <1>11 DEF Active
  <2>2. Active(ds) = Active(cs)
    BY <2>1 DEF Active
  <2>3. \A d \in Active(ds) : ds[d] = cs[d]
    BY <1>1, <1>2, <1>11, <2>2 DEF Active
  <2>4. \A d \in Session : ds[d].st = "waiting" <=> cs[d].st = "waiting"
    BY <1>1, <1>2, <1>11
  <2>5. QED
    BY <1>1, <2>2, <2>3, <2>4 DEF Waits
<1>13. Ops(ds)
  BY <1>1, <1>2 DEF Ops
<1>14. QED
  BY <1>1, <1>2, <1>3, <1>6, <1>10, <1>12, <1>13 DEF Leased

(* A session keeps its slot while its client is reset. *)
LEMMA SessionResets ==
    ASSUME NEW l, NEW cs, NEW S \in SUBSET (Nat \ {0}), Leased(l, cs, S),
           NEW c \in Session, Class(cs[c].st) = "busy",
           NEW x \in Call, x.st = "resetting", x.slot = cs[c].slot, x.op = cs[c].op,
           NEW ds, Sets(cs, ds, c, x)
    PROVE  Leased(l, ds, S)
<1>1. /\ l \in Queue /\ cs \in [Caller -> Call] /\ Spread(l, cs, S) /\ Waits(l, cs) /\ Ops(cs)
      /\ Plain \cap Session = {} /\ Plain \subseteq Caller /\ Session \subseteq Caller
  BY SentinelAssumption DEF Leased, Caller
<1>2. ds \in [Caller -> Call] /\ ds[c] = x /\ \A d \in Caller \ {c} : ds[d] = cs[d]
  BY <1>1 DEF Sets
<1>3. cs[c].st \notin {"idle", "over", "waiting", "resetting"}
  BY DEF Class
<1>4. \A d \in Caller : (Owns(ds, d) <=> Owns(cs, d)) /\ ds[d].slot = cs[d].slot
  BY <1>2, <1>3 DEF Owns
<1>5. \A k : OwnedAt(ds, k) <=> OwnedAt(cs, k)
  BY <1>4, SameOwners
<1>6. Spread(l, ds, S)
  <2>1. \A k \in S : OneOf(FreeAt(l, k), OwnedAt(ds, k), l.shared = k, k \in l.lost)
    BY <1>1, <1>5 DEF Spread, OneOf
  <2>2. QED
    BY <1>1, <1>4, <2>1 DEF Spread
<1>7. \A d \in Plain : ds[d] = cs[d]
  BY <1>1, <1>2
<1>8. Active(ds) = Active(cs) /\ \A d \in Active(ds) : ds[d] = cs[d]
  BY <1>7 DEF Active
<1>9. \A d \in Session : ds[d].st = "waiting" <=> cs[d].st = "waiting"
  BY <1>1, <1>2, <1>3
<1>10. Waits(l, ds)
  BY <1>1, <1>8, <1>9 DEF Waits
<1>11. Ops(ds)
  BY <1>1, <1>2 DEF Ops
<1>12. QED
  BY <1>1, <1>2, <1>6, <1>10, <1>11 DEF Leased

(* What a plain caller that leaves does to the slot it shares: others go   *)
(* on with it, or it is taken along for its reset, or it is given back.    *)
LeavesShared(l, m, x, slot, S, T) ==
    \/ l.count # 1 /\ m.shared = l.shared /\ x.st = "over" /\ T = S
    \/ l.count = 1 /\ m.shared = 0 /\ x.st = "resetting" /\ T = S
    \/ l.count = 1 /\ m.shared = 0 /\ x.st = "over" /\ T = S \ {slot}

(* A plain caller leaves. *)
LEMMA PlainLeaves ==
    ASSUME NEW l, NEW cs, NEW S \in SUBSET (Nat \ {0}), Leased(l, cs, S),
           NEW c \in Plain, Class(cs[c].st) = "busy",
           NEW x \in Call, x.slot = cs[c].slot, x.op = cs[c].op,
           NEW m \in Queue, m.free = l.free, m.queue = l.queue, m.lost = l.lost,
           m.count = l.count - 1,
           NEW T, LeavesShared(l, m, x, cs[c].slot, S, T),
           NEW ds, Sets(cs, ds, c, x)
    PROVE  Leased(m, ds, T) /\ cs[c].slot \in S
<1>1. /\ l \in Queue /\ cs \in [Caller -> Call] /\ Spread(l, cs, S) /\ Waits(l, cs) /\ Ops(cs)
      /\ Plain \cap Session = {} /\ Plain \subseteq Caller /\ Session \subseteq Caller
  BY SentinelAssumption DEF Leased, Caller
<1>2. ds \in [Caller -> Call] /\ ds[c] = x /\ \A d \in Caller \ {c} : ds[d] = cs[d]
  BY <1>1 DEF Sets
<1>3. cs[c].st \notin {"idle", "over", "waiting", "resetting"} /\ x.st \in {"over", "resetting"}
  BY DEF Class, LeavesShared
<1>4. c \in Active(cs) /\ l.shared # 0 /\ cs[c].slot = l.shared
  BY <1>1, <1>3 DEF Active, Waits
<1>5. /\ Active(ds) = Active(cs) \ {c}
      /\ IsFiniteSet(Active(ds)) /\ Cardinality(Active(ds)) = l.count - 1
      /\ l.count = 1 => Active(ds) = {}
  BY <1>1, <1>3, <1>4, ActiveShrinks
<1>6. /\ NoRepeat(l.free) /\ l.lost \subseteq S /\ l.shared \in S \cup {0} /\ 0 \notin S
      /\ \A k \in S : OneOf(FreeAt(l, k), OwnedAt(cs, k), l.shared = k, k \in l.lost)
      /\ \A d, e \in Caller : Owns(cs, d) /\ Owns(cs, e) /\ cs[d].slot = cs[e].slot => d = e
  BY <1>1 DEF Spread
<1>7. \A k : FreeAt(l, k) \/ OwnedAt(cs, k) => k \in S
  BY <1>1, SpreadSays
<1>8. /\ l.shared \in S /\ ~FreeAt(l, l.shared) /\ ~OwnedAt(cs, l.shared) /\ l.shared \notin l.lost
  BY <1>4, <1>6 DEF OneOf
<1>9. \A k : FreeAt(m, k) <=> FreeAt(l, k)
  BY DEF FreeAt
<1>10. ~Owns(cs, c) /\ \A d \in Caller \ {c} : Owns(ds, d) <=> Owns(cs, d)
  BY <1>1, <1>2, <1>3 DEF Owns
<1>11. Ops(ds)
  BY <1>1, <1>2 DEF Ops
<1>12. \A d \in Session : ds[d] = cs[d]
  BY <1>1, <1>2
<1>13. \A d \in Active(ds) : d # c /\ ds[d] = cs[d] /\ d \in Active(cs)
  BY <1>1, <1>2, <1>5 DEF Active
<1>14. l.count \in Nat /\ m.count \in Nat /\ ~Queued(l, None)
  BY <1>1, <1>4 DEF Queue, Waits
<1>15. \A y : Queued(m, y) <=> Queued(l, y)
  BY DEF Queued
<1>16. NoRepeat(m.free) /\ NoRepeat(m.queue)
  BY <1>1, <1>6 DEF Waits
<1>17. CASE x.st = "over"
  <2>1. ~Owns(ds, c)
    BY <1>1, <1>2, <1>17 DEF Owns
  <2>2. \A d \in Caller : (Owns(ds, d) <=> Owns(cs, d)) /\ (Owns(cs, d) => ds[d].slot = cs[d].slot)
    BY <1>2, <1>10, <2>1
  <2>3. \A k : OwnedAt(ds, k) <=> OwnedAt(cs, k)
    BY <2>2, SameOwners
  <2>4. \A d, e \in Caller : Owns(ds, d) /\ Owns(ds, e) /\ ds[d].slot = ds[e].slot => d = e
    BY <1>6, <2>2
  <2>5. CASE l.count # 1 /\ m.shared = l.shared /\ T = S
    <3>1. \A k \in T : OneOf(FreeAt(m, k), OwnedAt(ds, k), m.shared = k, k \in m.lost)
      BY <1>6, <1>9, <2>3, <2>5 DEF OneOf
    <3>2. \A k : FreeAt(m, k) \/ OwnedAt(ds, k) => k \in T
      BY <1>7, <1>9, <2>3, <2>5
    <3>3. m.shared \in T \cup {0} /\ m.lost \subseteq T
      BY <1>6, <2>5
    <3>4. Spread(m, ds, T)
      BY <1>16, <2>4, <3>1, <3>2, <3>3, SpreadIf
    <3>5. \A d \in Active(ds) : ds[d].st # "waiting" /\ ds[d].slot = m.shared
      BY <1>1, <1>4, <1>13, <2>5 DEF Waits
    <3>6. Waits(m, ds)
      BY <1>1, <1>4, <1>5, <1>12, <1>14, <1>15, <1>16, <2>5, <3>5 DEF Waits
    <3>7. QED
      BY <1>2, <1>4, <1>8, <1>11, <3>4, <3>6 DEF Leased
  <2>6. CASE l.count = 1 /\ m.shared = 0 /\ T = S \ {cs[c].slot}
    <3>1. \A k \in T : k # l.shared /\ k # 0
      BY <1>4, <1>6, <2>6
    <3>2. \A k \in T : OneOf(FreeAt(m, k), OwnedAt(ds, k), m.shared = k, k \in m.lost)
      BY <1>6, <1>9, <2>3, <2>6, <3>1 DEF OneOf
    <3>3. \A k : FreeAt(m, k) \/ OwnedAt(ds, k) => k \in T
      BY <1>4, <1>7, <1>8, <1>9, <2>3, <2>6
    <3>4. m.shared \in T \cup {0} /\ m.lost \subseteq T
      BY <1>4, <1>6, <1>8, <2>6
    <3>5. Spread(m, ds, T)
      BY <1>16, <2>4, <3>2, <3>3, <3>4, SpreadIf
    <3>6. m.count = 0 /\ Active(ds) = {}
      BY <1>5, <2>6
    <3>7. Waits(m, ds)
      BY <1>1, <1>5, <1>12, <1>14, <1>15, <1>16, <3>6 DEF Waits
    <3>8. QED
      BY <1>2, <1>4, <1>8, <1>11, <3>5, <3>7 DEF Leased
  <2>7. QED
    BY <1>17, <2>5, <2>6 DEF LeavesShared
<1>18. CASE x.st = "resetting"
  <2>1. l.count = 1 /\ m.shared = 0 /\ T = S
    BY <1>18 DEF LeavesShared
  <2>2. Owns(ds, c) /\ ds[c].slot = l.shared
    BY <1>1, <1>2, <1>4, <1>18 DEF Owns
  <2>3. \A k : OwnedAt(ds, k) <=> OwnedAt(cs, k) \/ k = l.shared
    BY <1>1, <1>2, <1>10, <2>2 DEF OwnedAt
  <2>4. \A d, e \in Caller : Owns(ds, d) /\ Owns(ds, e) /\ ds[d].slot = ds[e].slot => d = e
    <3>1. \A d \in Caller \ {c} : Owns(ds, d) => ds[d].slot # l.shared
      BY <1>2, <1>8, <1>10 DEF OwnedAt
    <3>2. QED
      BY <1>2, <1>6, <1>10, <2>2, <3>1
  <2>5. \A k \in T : OneOf(FreeAt(m, k), OwnedAt(ds, k), m.shared = k, k \in m.lost)
    <3>1. \A k \in T : k # 0
      BY <1>6, <2>1
    <3>2. QED
      BY <1>6, <1>9, <2>1, <2>3, <3>1 DEF OneOf
  <2>6. \A k : FreeAt(m, k) \/ OwnedAt(ds, k) => k \in T
    BY <1>7, <1>8, <1>9, <2>1, <2>3
  <2>7. m.shared \in T \cup {0} /\ m.lost \subseteq T
    BY <1>6, <2>1
  <2>8. Spread(m, ds, T)
    BY <1>16, <2>4, <2>5, <2>6, <2>7, SpreadIf
  <2>9. m.count = 0 /\ Active(ds) = {}
    BY <1>5, <2>1
  <2>10. Waits(m, ds)
    BY <1>1, <1>5, <1>12, <1>14, <1>15, <1>16, <2>9 DEF Waits
  <2>11. QED
    BY <1>2, <1>4, <1>8, <1>11, <2>8, <2>10 DEF Leased
<1>19. QED
  BY <1>3, <1>17, <1>18

(* What the loss of a connection does to a caller. *)
IsCut(x, y, slots, to) ==
    /\ y.slot = x.slot /\ y.op = x.op /\ y.retried = x.retried /\ y.reopened = x.reopened
    /\ y.guarded = (x.guarded /\ x.slot \notin slots)
    /\ y.st = IF x.slot \notin slots THEN x.st
              ELSE IF x.st = "sent" THEN to ELSE IF x.st = "resetting" THEN "over" ELSE x.st

(* A slot whose client was being reset is lost with its connection. *)
LEMMA CutLeased ==
    ASSUME NEW l, NEW cs, NEW S \in SUBSET (Nat \ {0}), Leased(l, cs, S),
           NEW slots, NEW to \in {"error", "throw"}
    PROVE  /\ Leased(LosesSlots(l, cs, slots), CutOff(cs, slots, to), S)
           /\ \A c \in Caller : IsCut(cs[c], CutOff(cs, slots, to)[c], slots, to)
<1>1. /\ l \in Queue /\ cs \in [Caller -> Call] /\ Spread(l, cs, S) /\ Waits(l, cs) /\ Ops(cs)
      /\ Plain \cap Session = {} /\ Plain \subseteq Caller /\ Session \subseteq Caller
  BY SentinelAssumption DEF Leased, Caller
<1>2. PICK ds : ds = CutOff(cs, slots, to)
  OBVIOUS
<1>3. PICK gone : gone = {cs[c].slot : c \in {d \in Caller : cs[d].st = "resetting" /\ cs[d].slot \in slots}}
  OBVIOUS
<1>4. PICK m : m = [l EXCEPT !.lost = l.lost \cup gone]
  OBVIOUS
<1>5. LosesSlots(l, cs, slots) = m
  BY <1>3, <1>4 DEF LosesSlots
<1>6. ASSUME NEW c \in Caller
      PROVE  ds[c] \in Call /\ IsCut(cs[c], ds[c], slots, to)
  <2>1. cs[c] \in Call
    BY <1>1
  <2>2. PICK g : g = (cs[c].guarded /\ cs[c].slot \notin slots)
    OBVIOUS
  <2>3. g \in BOOLEAN
    BY <2>1, <2>2 DEF Call
  <2>4. PICK x : x = [cs[c] EXCEPT !.guarded = g]
    OBVIOUS
  <2>5. /\ x \in Call /\ x.slot = cs[c].slot /\ x.op = cs[c].op /\ x.retried = cs[c].retried
        /\ x.reopened = cs[c].reopened /\ x.guarded = g /\ x.st = cs[c].st
    BY <2>1, <2>3, <2>4 DEF Call
  <2>6. ds[c] = IF cs[c].slot \notin slots THEN cs[c]
                ELSE IF cs[c].st = "sent" THEN [x EXCEPT !.st = to]
                ELSE IF cs[c].st = "resetting" THEN [x EXCEPT !.st = "over", !.how = "failed"]
                ELSE x
    BY <1>2, <2>2, <2>4 DEF CutOff
  <2>7. CASE cs[c].slot \notin slots
    BY <2>1, <2>6, <2>7 DEF IsCut, Call
  <2>8. CASE cs[c].slot \in slots
    <3>1. x.guarded = (cs[c].guarded /\ cs[c].slot \notin slots)
      BY ONLY <2>2, <2>5
    <3>2. CASE cs[c].st = "sent"
      <4>1. ds[c] = [x EXCEPT !.st = to]
        BY ONLY <2>6, <2>8, <3>2
      <4>2. QED
        BY <2>5, <2>8, <3>1, <3>2, <4>1 DEF IsCut, Call
    <3>3. CASE cs[c].st = "resetting"
      <4>1. ds[c] = [x EXCEPT !.st = "over", !.how = "failed"]
        BY <2>6, <2>8, <3>3
      <4>2. QED
        BY <2>5, <2>8, <3>1, <3>3, <4>1 DEF IsCut, Call
    <3>4. CASE cs[c].st \notin {"sent", "resetting"}
      <4>1. ds[c] = x
        BY <2>6, <2>8, <3>4
      <4>2. QED
        BY <2>5, <2>8, <3>1, <3>4, <4>1 DEF IsCut
    <3>5. QED
      BY <3>2, <3>3, <3>4
  <2>9. QED
    BY <2>7, <2>8
<1>7. ds \in [Caller -> Call]
  BY <1>2, <1>6 DEF CutOff
<1>8. /\ NoRepeat(l.free) /\ l.lost \subseteq S /\ l.shared \in S \cup {0} /\ 0 \notin S
      /\ \A k \in S : OneOf(FreeAt(l, k), OwnedAt(cs, k), l.shared = k, k \in l.lost)
      /\ \A d, e \in Caller : Owns(cs, d) /\ Owns(cs, e) /\ cs[d].slot = cs[e].slot => d = e
  BY <1>1 DEF Spread
<1>9. \A k : FreeAt(l, k) \/ OwnedAt(cs, k) => k \in S
  BY <1>1, SpreadSays
<1>10. \A k : k \in gone <=> \E c \in Caller : cs[c].st = "resetting" /\ cs[c].slot \in slots /\ cs[c].slot = k
  BY <1>3
<1>11. \A k : k \in gone => OwnedAt(cs, k)
  BY <1>10 DEF OwnedAt, Owns
<1>12. gone \in SUBSET Nat /\ gone \subseteq S
  BY <1>8, <1>9, <1>11
<1>13. m \in Queue
  <2>1. l.lost \cup gone \in SUBSET Nat
    BY <1>1, <1>12 DEF Queue
  <2>2. QED
    BY <1>1, <1>4, <2>1 DEF Queue
<1>14. /\ m.free = l.free /\ m.queue = l.queue /\ m.count = l.count
       /\ m.shared = l.shared /\ m.lost = l.lost \cup gone
  BY <1>1, <1>4 DEF Queue
<1>15. \A c \in Caller : /\ Owns(ds, c) <=> Owns(cs, c) /\ ~(cs[c].st = "resetting" /\ cs[c].slot \in slots)
                         /\ ds[c].slot = cs[c].slot
  BY <1>6 DEF Owns, IsCut
<1>16. \A k : OwnedAt(ds, k) <=> OwnedAt(cs, k) /\ k \notin gone
  <2>1. ASSUME NEW k, OwnedAt(ds, k) PROVE OwnedAt(cs, k) /\ k \notin gone
    <3>1. PICK c \in Caller : Owns(ds, c) /\ ds[c].slot = k
      BY <2>1 DEF OwnedAt
    <3>2. Owns(cs, c) /\ cs[c].slot = k /\ ~(cs[c].st = "resetting" /\ cs[c].slot \in slots)
      BY <1>15, <3>1
    <3>3. ASSUME k \in gone PROVE FALSE
      <4>1. PICK d \in Caller : cs[d].st = "resetting" /\ cs[d].slot \in slots /\ cs[d].slot = k
        BY <1>10, <3>3
      <4>2. d = c
        BY <1>8, <3>2, <4>1 DEF Owns
      <4>3. QED
        BY <3>2, <4>1, <4>2
    <3>4. QED
      BY <3>2, <3>3 DEF OwnedAt
  <2>2. ASSUME NEW k, OwnedAt(cs, k), k \notin gone PROVE OwnedAt(ds, k)
    BY <1>10, <1>15, <2>2 DEF OwnedAt
  <2>3. QED
    BY <2>1, <2>2
<1>17. Spread(m, ds, S)
  <2>1. \A k : FreeAt(m, k) <=> FreeAt(l, k)
    BY <1>14 DEF FreeAt
  <2>2. \A k \in S : OneOf(FreeAt(m, k), OwnedAt(ds, k), m.shared = k, k \in m.lost)
    BY <1>8, <1>11, <1>14, <1>16, <2>1 DEF OneOf
  <2>3. \A k : FreeAt(m, k) \/ OwnedAt(ds, k) => k \in S
    BY <1>9, <1>16, <2>1
  <2>4. NoRepeat(m.free) /\ m.shared \in S \cup {0} /\ m.lost \subseteq S
    BY <1>8, <1>12, <1>14
  <2>5. \A d, e \in Caller : Owns(ds, d) /\ Owns(ds, e) /\ ds[d].slot = ds[e].slot => d = e
    BY <1>8, <1>15
  <2>6. QED
    BY <1>13, <2>2, <2>3, <2>4, <2>5, SpreadIf
<1>18. \A c \in Caller : /\ ds[c].st = "waiting" <=> cs[c].st = "waiting"
                         /\ ds[c].st \in {"idle", "over", "resetting"} <=>
                                cs[c].st \in {"idle", "over", "resetting"}
  BY <1>6 DEF IsCut
<1>19. Waits(m, ds)
  <2>1. \A c \in Plain : c \in Active(ds) <=> c \in Active(cs)
    BY <1>1, <1>18 DEF Active
  <2>2. Active(ds) = Active(cs)
    BY <2>1 DEF Active
  <2>3. \A c \in Active(ds) : ds[c].slot = cs[c].slot /\ (ds[c].st = "waiting" <=> cs[c].st = "waiting")
    BY <1>1, <1>15, <1>18 DEF Active
  <2>4. \A y : Queued(m, y) <=> Queued(l, y)
    BY <1>14 DEF Queued
  <2>5. \A c \in Session : ds[c].st = "waiting" <=> cs[c].st = "waiting"
    BY <1>1, <1>18
  <2>6. NoRepeat(m.queue) /\ m.count = l.count /\ m.shared = l.shared
    BY <1>1, <1>14 DEF Waits
  <2>7. QED
    BY <1>1, <2>2, <2>3, <2>4, <2>5, <2>6 DEF Waits
<1>20. Ops(ds)
  BY <1>1, <1>6, <1>18 DEF Ops, IsCut
<1>21. Leased(m, ds, S)
  BY <1>7, <1>13, <1>17, <1>19, <1>20 DEF Leased
<1>22. QED
  BY <1>2, <1>5, <1>6, <1>21

(* What the end of the loop does to a caller that awaits it. *)
GoesOn(x, y) == y = x \/ (x.st = "await" /\ \E st \in {"run", "throw"} : y = [x EXCEPT !.st = st])

(* The slots stay where they are. *)
LEMMA ResumedLeased ==
    ASSUME NEW l, NEW cs, NEW S, Leased(l, cs, S), NEW s
    PROVE  /\ Leased(l, Resumed(cs, s), S)
           /\ \A c \in Caller : GoesOn(cs[c], Resumed(cs, s)[c])
<1>1. PICK ds : ds = Resumed(cs, s)
  OBVIOUS
<1>2. cs \in [Caller -> Call]
  BY DEF Leased
<1>3. CASE s.loop # "idle"
  BY <1>3 DEF Resumed, GoesOn
<1>4. CASE s.loop = "idle"
  <2>1. PICK st : st = IF s.outcome = "rejected" THEN "throw" ELSE "run"
    OBVIOUS
  <2>2. st \in {"run", "throw"}
    BY <2>1
  <2>3. ds = [c \in Caller |-> IF cs[c].st = "await" THEN [cs[c] EXCEPT !.st = st] ELSE cs[c]]
    BY <1>1, <1>4, <2>1 DEF Resumed
  <2>4. \A c \in Caller : GoesOn(cs[c], ds[c])
    BY <2>2, <2>3 DEF GoesOn
  <2>5. \A c \in Caller : /\ ds[c] \in Call /\ ds[c].slot = cs[c].slot /\ ds[c].op = cs[c].op
                          /\ Class(ds[c].st) = Class(cs[c].st)
    BY <1>2, <2>2, <2>3 DEF Call, Class
  <2>6. ds \in [Caller -> Call]
    BY <2>3, <2>5
  <2>7. Alike(cs, ds)
    BY <2>5 DEF Alike
  <2>8. Leased(l, ds, S)
    BY <2>5, <2>6, <2>7, AlikeLeased
  <2>9. QED
    BY <1>1, <2>4, <2>8
<1>5. QED
  BY <1>3, <1>4

-----------------------------------------------------------------------------
(* The watches.                                                            *)

(* Nothing changed that the watch of a session depends on. *)
Calm(x, y) ==
    /\ Pending(y) => Pending(x) /\ y.slot = x.slot /\ y.guarded = x.guarded
    /\ Covered(y) /\ y.st = "sent" => Covered(x) /\ x.st = "sent" /\ y.guarded = x.guarded

(* A session at work has a slot of the pool, and where it has one nobody   *)
(* else is.                                                                *)
LEMMA PendingOwns ==
    ASSUME NEW l, NEW cs, NEW S, Leased(l, cs, S), NEW c \in Session, Class(cs[c].st) = "busy"
    PROVE  /\ Owns(cs, c) /\ cs[c].slot \in S
           /\ \A d \in Caller : Owns(cs, d) /\ cs[d].slot = cs[c].slot => d = c
<1>1. Owns(cs, c) /\ c \in Caller
  BY DEF Class, Owns, Caller
<1>2. QED
  BY <1>1 DEF Leased, Spread

(* Callers that keep calm over a client that keeps its masters. *)
LEMMA CalmWatched ==
    ASSUME NEW s, NEW t, NEW l, NEW cs, NEW ds, Sound(s), Leased(l, cs, 1..s.pool),
           Watched(s, cs), Gentle(s, t), \A c \in Session : Calm(cs[c], ds[c])
    PROVE  Watched(t, ds)
<1>1. ASSUME NEW c \in Session, Pending(ds[c]) PROVE Known(t, ds[c])
  <2>1. Pending(cs[c]) /\ ds[c].slot = cs[c].slot /\ ds[c].guarded = cs[c].guarded
    BY <1>1 DEF Calm
  <2>2. Known(s, cs[c])
    BY <2>1 DEF Watched
  <2>3. CASE s.masters = <<>>
    BY <2>2, <2>3 DEF Known, Gentle
  <2>4. CASE s.masters # <<>>
    <3>1. Class(cs[c].st) = "busy"
      BY <2>1 DEF Pending, Class
    <3>2. cs[c].slot \in 1..s.pool
      <4>1. PICK S : S = 1..s.pool
        OBVIOUS
      <4>2. Leased(l, cs, S) /\ c \in Session
        BY <4>1
      <4>3. cs[c].slot \in S
        BY ONLY <3>1, <4>2, PendingOwns
      <4>4. QED
        BY <4>1, <4>3
    <3>3. cs[c].slot \in 1..Len(s.masters)
      BY <2>4, <3>2 DEF Sound, Full, Size
    <3>4. t.masters # <<>> /\ t.masters[cs[c].slot].watch = s.masters[cs[c].slot].watch
      BY <2>4, <3>3 DEF Gentle
    <3>5. QED
      BY <2>1, <2>2, <2>4, <3>4 DEF Known
  <2>5. QED
    BY <2>3, <2>4
<1>2. \A c \in Session : Covered(ds[c]) /\ ds[c].st = "sent" => ds[c].guarded
  BY DEF Calm, Watched
<1>3. QED
  BY <1>1, <1>2 DEF Watched

(* Callers of a client that is shut. *)
LEMMA ShutWatched ==
    ASSUME NEW s, NEW t, NEW cs, NEW ds, Watched(s, cs), t.masters = <<>>, Shut(t),
           \A c \in Session : Covered(ds[c]) /\ ds[c].st = "sent" =>
                Covered(cs[c]) /\ cs[c].st = "sent" /\ ds[c].guarded = cs[c].guarded
    PROVE  Watched(t, ds)
BY DEF Watched, Known

(* Callers whose connections are cut. *)
LEMMA CutWatched ==
    ASSUME NEW s, NEW t, NEW l, NEW cs, NEW ds, Sound(s), Leased(l, cs, 1..s.pool),
           Watched(s, cs), NEW slots, NEW to \in {"error", "throw"},
           \A c \in Session : IsCut(cs[c], ds[c], slots, to),
           s.masters = <<>> => t.masters = <<>> /\ (Shut(s) => Shut(t)),
           s.masters # <<>> =>
                /\ t.masters # <<>>
                /\ \A i \in 1..s.pool :
                        IF i \in slots
                        THEN s.masters[i].watch # "none" => t.masters[i].watch = "dirty"
                        ELSE t.masters[i].watch = s.masters[i].watch
    PROVE  Watched(t, ds)
<1>1. ASSUME NEW c \in Session, Pending(ds[c]) PROVE Known(t, ds[c])
  <2>1. /\ Pending(cs[c]) /\ ds[c].slot = cs[c].slot
        /\ ds[c].guarded = (cs[c].guarded /\ cs[c].slot \notin slots)
    BY <1>1 DEF IsCut, Pending, Covered
  <2>2. Known(s, cs[c])
    BY <2>1 DEF Watched
  <2>3. CASE s.masters = <<>>
    BY <2>2, <2>3 DEF Known
  <2>4. CASE s.masters # <<>>
    <3>1. Class(cs[c].st) = "busy"
      BY <2>1 DEF Pending, Class
    <3>2. cs[c].slot \in 1..s.pool
      <4>1. PICK S : S = 1..s.pool
        OBVIOUS
      <4>2. Leased(l, cs, S) /\ c \in Session
        BY <4>1
      <4>3. cs[c].slot \in S
        BY ONLY <3>1, <4>2, PendingOwns
      <4>4. QED
        BY <4>1, <4>3
    <3>3. CASE cs[c].slot \in slots
      <4>1. t.masters[cs[c].slot].watch = "dirty" /\ t.masters # <<>>
        BY <2>2, <2>4, <3>2, <3>3 DEF Known
      <4>2. QED
        BY <2>1, <4>1 DEF Known
    <3>4. CASE cs[c].slot \notin slots
      <4>1. t.masters[cs[c].slot].watch = s.masters[cs[c].slot].watch /\ t.masters # <<>>
        BY <2>4, <3>2, <3>4
      <4>2. ~ds[c].guarded => ~cs[c].guarded
        BY <2>1, <3>4
      <4>3. QED
        BY <2>1, <2>2, <2>4, <4>1, <4>2 DEF Known
    <3>5. QED
      BY <3>3, <3>4
  <2>5. QED
    BY <2>3, <2>4
<1>2. ASSUME NEW c \in Session, Covered(ds[c]), ds[c].st = "sent" PROVE ds[c].guarded
  <2>1. Covered(cs[c]) /\ cs[c].st = "sent" /\ cs[c].slot \notin slots
    BY <1>2 DEF IsCut, Covered
  <2>2. cs[c].guarded
    BY <2>1 DEF Watched
  <2>3. QED
    BY <2>1, <2>2 DEF IsCut
<1>3. QED
  BY <1>1, <1>2 DEF Watched

(* Who is given a slot, or goes on after the loop, keeps calm. *)
LEMMA GivenCalm ==
    ASSUME NEW l, NEW cs, NEW S, Leased(l, cs, S), NEW c \in Session
    PROVE  /\ \A y, slot : Given(cs[c], y, slot) => Calm(cs[c], y)
           /\ \A y : GoesOn(cs[c], y) => Calm(cs[c], y)
<1>1. cs[c] \in Call /\ (cs[c].st = "waiting" => cs[c].op = "watch")
  BY DEF Leased, Ops, Caller
<1>2. ASSUME NEW y, NEW slot, Given(cs[c], y, slot) PROVE Calm(cs[c], y)
  <2>1. CASE y = cs[c]
    BY <2>1 DEF Calm
  <2>2. CASE cs[c].st = "waiting" /\ y = [cs[c] EXCEPT !.st = "run", !.slot = slot]
    <3>1. y.op = "watch"
      BY <1>1, <2>2 DEF Call
    <3>2. QED
      BY <3>1 DEF Calm, Pending, Covered
  <2>3. QED
    BY <1>2, <2>1, <2>2 DEF Given
<1>3. ASSUME NEW y, GoesOn(cs[c], y) PROVE Calm(cs[c], y)
  <2>1. CASE y = cs[c]
    BY <2>1 DEF Calm
  <2>2. CASE cs[c].st = "await" /\ \E st \in {"run", "throw"} : y = [cs[c] EXCEPT !.st = st]
    <3>1. PICK st \in {"run", "throw"} : y = [cs[c] EXCEPT !.st = st]
      BY <2>2
    <3>2. /\ y.st = st /\ y.op = cs[c].op /\ y.retried = cs[c].retried /\ y.slot = cs[c].slot
          /\ y.reopened = cs[c].reopened /\ y.guarded = cs[c].guarded
      BY <1>1, <3>1 DEF Call
    <3>3. QED
      BY <2>2, <3>1, <3>2 DEF Calm, Pending, Covered
  <2>3. QED
    BY <1>3, <2>1, <2>2 DEF GoesOn
<1>4. QED
  BY <1>2, <1>3

-----------------------------------------------------------------------------
(* The steps.                                                              *)

(* What a step has to show. *)
LEMMA StepKeeps ==
    ASSUME Inv, Sound(sen'), sen'.pool = sen.pool, world' \in World,
           Leased(lease', caller', 1..sen.pool), Watched(sen', caller')
    PROVE  Inv'
BY DEF Inv

(* The slots of the pool. *)
LEMMA PoolSlots ==
    ASSUME Inv
    PROVE  1..sen.pool \in SUBSET (Nat \ {0})
BY DEF Inv, Sound, Client

(* A step of the client alone. *)
LEMMA ClientStep ==
    ASSUME Inv, Sound(sen'), Gentle(sen, sen'), world' \in World,
           UNCHANGED <<caller, lease>>
    PROVE  Inv'
<1>1. PICK s, t, l, cs : s = sen /\ t = sen' /\ l = lease /\ cs = caller
  OBVIOUS
<1>2. Sound(s) /\ Leased(l, cs, 1..s.pool) /\ Watched(s, cs) /\ Gentle(s, t) /\ t.pool = s.pool
  BY <1>1 DEF Inv, Gentle
<1>3. \A c \in Session : Calm(cs[c], cs[c])
  BY DEF Calm
<1>4. Watched(t, cs)
  BY ONLY <1>2, <1>3, CalmWatched
<1>5. QED
  BY <1>1, <1>2, <1>4, StepKeeps

(* A step of the client, after which those who await its loop go on. *)
LEMMA ResumingStep ==
    ASSUME Inv, Sound(sen'), Gentle(sen, sen'), world' \in World,
           NEW x, caller' = Resumed(caller, x), UNCHANGED lease
    PROVE  Inv'
<1>1. PICK s, t, l, cs, ds : s = sen /\ t = sen' /\ l = lease /\ cs = caller /\ ds = Resumed(cs, x)
  OBVIOUS
<1>2. Sound(s) /\ Leased(l, cs, 1..s.pool) /\ Watched(s, cs) /\ Gentle(s, t) /\ t.pool = s.pool
  BY <1>1 DEF Inv, Gentle
<1>3. Leased(l, ds, 1..s.pool) /\ \A c \in Caller : GoesOn(cs[c], ds[c])
  <2>1. PICK S : S = 1..s.pool
    OBVIOUS
  <2>2. Leased(l, cs, S)
    BY <1>2, <2>1
  <2>3. Leased(l, Resumed(cs, x), S) /\ \A c \in Caller : GoesOn(cs[c], Resumed(cs, x)[c])
    BY ONLY <2>2, ResumedLeased
  <2>4. QED
    BY <1>1, <2>1, <2>3
<1>4. \A c \in Session : Calm(cs[c], ds[c])
  BY <1>2, <1>3, GivenCalm DEF Caller
<1>5. Watched(t, ds)
  BY ONLY <1>2, <1>4, CalmWatched
<1>6. QED
  BY <1>1, <1>2, <1>3, <1>5, StepKeeps

(* releaseClientLease: the slot of a caller that is done is free, lent     *)
(* again or kept for its reset.                                            *)
LEMMA ReleaseKeeps ==
    ASSUME Inv, NEW c \in Caller, Class(caller[c].st) = "busy", NEW how \in {"ok", "failed"},
           Release(c, how)
    PROVE  /\ Leased(lease', caller', 1..sen.pool)
           /\ \A d \in Session : Calm(caller[d], caller'[d])
<1>1. PICK l, cs, S, slot : l = lease /\ cs = caller /\ S = 1..sen.pool /\ slot = cs[c].slot
  OBVIOUS
<1>2. Leased(l, cs, S) /\ S \in SUBSET (Nat \ {0})
  BY <1>1, PoolSlots DEF Inv
<1>3. /\ l \in Queue /\ cs \in [Caller -> Call] /\ Class(cs[c].st) = "busy" /\ cs[c] \in Call
      /\ Plain \cap Session = {} /\ Caller = Plain \cup Session
  BY <1>1, <1>2, SentinelAssumption DEF Leased, Caller
<1>4. PICK x, y : /\ x = [cs[c] EXCEPT !.st = "over", !.how = how]
                  /\ y = [cs[c] EXCEPT !.st = "resetting", !.how = how]
  OBVIOUS
<1>5. /\ x \in Call /\ x.st = "over" /\ x.slot = cs[c].slot /\ x.op = cs[c].op
      /\ y \in Call /\ y.st = "resetting" /\ y.slot = cs[c].slot /\ y.op = cs[c].op
  BY <1>3, <1>4 DEF Call
<1>6. PICK over, resetting : /\ over = [cs EXCEPT ![c] = x] /\ resetting = [cs EXCEPT ![c] = y]
  OBVIOUS
<1>7. Sets(cs, over, c, x) /\ Sets(cs, resetting, c, y)
  BY <1>6 DEF Sets
<1>8. /\ over = [cs EXCEPT ![c].st = "over", ![c].how = how]
      /\ resetting = [cs EXCEPT ![c].st = "resetting", ![c].how = how]
  BY <1>3, <1>4, <1>6
<1>9. PICK m : m = IF c \in Session THEN l
                   ELSE [l EXCEPT !.count = l.count - 1,
                                  !.shared = IF GivesBack(c) THEN 0 ELSE l.shared]
  OBVIOUS
<1>10. \/ ~GivesBack(c) /\ lease' = m /\ caller' = over
       \/ GivesBack(c) /\ lease' = m /\ caller' = resetting
       \/ GivesBack(c) /\ lease' = Push(m, over, slot).l /\ caller' = Push(m, over, slot).cs
  BY ONLY Release(c, how), <1>1, <1>8, <1>9 DEF Release
<1>11. ASSUME NEW d \in Session
       PROVE  Calm(cs[d], over[d]) /\ Calm(cs[d], resetting[d])
  <2>1. d # c => over[d] = cs[d] /\ resetting[d] = cs[d]
    BY <1>3, <1>6
  <2>2. over[c] = x /\ resetting[c] = y
    BY <1>3, <1>6
  <2>3. Calm(cs[c], x) /\ Calm(cs[c], y)
    BY <1>5 DEF Calm, Pending
  <2>4. QED
    BY <2>1, <2>2, <2>3 DEF Calm
<1>12. ASSUME NEW T \in SUBSET (Nat \ {0}), Leased(m, over, T), T = S \ {slot}, slot \in S
       PROVE  /\ Leased(Push(m, over, slot).l, Push(m, over, slot).cs, S)
              /\ \A d \in Session : Calm(cs[d], Push(m, over, slot).cs[d])
  <2>1. slot \in Nat \ {0} /\ slot \notin T /\ T \cup {slot} = S
    BY <1>2, <1>12
  <2>2. /\ Leased(Push(m, over, slot).l, Push(m, over, slot).cs, T \cup {slot})
        /\ \A d \in Caller : Given(over[d], Push(m, over, slot).cs[d], slot)
    BY <1>12, <2>1, PushLeased
  <2>3. PICK ds : ds = Push(m, over, slot).cs
    OBVIOUS
  <2>4. \A d \in Session : Calm(over[d], ds[d])
    BY <1>3, <1>12, <2>2, <2>3, GivenCalm
  <2>5. \A d \in Session : Calm(cs[d], ds[d])
    BY <1>11, <2>4 DEF Calm
  <2>6. QED
    BY <2>1, <2>2, <2>3, <2>5
<1>13. CASE c \in Session
  <2>1. m = l /\ GivesBack(c)
    BY <1>9, <1>13 DEF GivesBack
  <2>2. Owns(cs, c)
    BY <1>3, <1>13 DEF Class, Owns
  <2>3. Leased(l, resetting, S)
    BY <1>2, <1>3, <1>5, <1>7, <1>13, SessionResets
  <2>4. Leased(l, over, S \ {slot}) /\ slot \in S
    BY <1>1, <1>2, <1>5, <1>7, <2>2, OwnerLeaves
  <2>5. PICK T : T = S \ {slot}
    OBVIOUS
  <2>6. T \in SUBSET (Nat \ {0})
    BY <1>2, <2>5
  <2>7. /\ Leased(Push(m, over, slot).l, Push(m, over, slot).cs, S)
        /\ \A d \in Session : Calm(cs[d], Push(m, over, slot).cs[d])
    BY <1>12, <2>1, <2>4, <2>5, <2>6
  <2>8. QED
    BY <1>1, <1>10, <1>11, <2>1, <2>3, <2>7
<1>14. CASE c \in Plain
  <2>1. c \notin Session /\ (GivesBack(c) <=> l.count = 1)
    BY <1>1, <1>3, <1>14 DEF GivesBack
  <2>2. m = [l EXCEPT !.count = l.count - 1, !.shared = IF GivesBack(c) THEN 0 ELSE l.shared]
    BY <1>9, <2>1
  <2>3. l.count - 1 \in Nat
    <3>1. c \in Active(cs)
      BY <1>3, <1>14 DEF Active, Class
    <3>2. IsFiniteSet(Active(cs)) /\ l.count = Cardinality(Active(cs)) /\ l.count \in Nat
      BY <1>2, <1>3 DEF Leased, Waits, Queue
    <3>3. l.count # 0
      BY <3>1, <3>2, FS_EmptySet
    <3>4. QED
      BY <3>2, <3>3
  <2>4. PICK sh : sh = IF GivesBack(c) THEN 0 ELSE l.shared
    OBVIOUS
  <2>5. sh \in Nat
    BY <1>3, <2>4 DEF Queue
  <2>6. /\ m \in Queue /\ m.count = l.count - 1 /\ m.shared = sh
        /\ m.free = l.free /\ m.queue = l.queue /\ m.lost = l.lost
    BY <1>3, <2>2, <2>3, <2>4, <2>5 DEF Queue
  <2>7. CASE ~GivesBack(c)
    <3>1. LeavesShared(l, m, x, cs[c].slot, S, S)
      BY <1>5, <2>1, <2>4, <2>6, <2>7 DEF LeavesShared
    <3>2. Leased(m, over, S)
      BY <1>2, <1>3, <1>5, <1>7, <1>14, <2>6, <3>1, PlainLeaves
    <3>3. QED
      BY <1>1, <1>10, <1>11, <2>7, <3>2
  <2>8. CASE GivesBack(c)
    <3>1. PICK T : T = S \ {slot}
      OBVIOUS
    <3>2. LeavesShared(l, m, x, cs[c].slot, S, T) /\ LeavesShared(l, m, y, cs[c].slot, S, S)
      BY <1>1, <1>5, <2>1, <2>4, <2>6, <2>8, <3>1 DEF LeavesShared
    <3>3. Leased(m, over, T) /\ slot \in S
      BY <1>1, <1>2, <1>3, <1>5, <1>7, <1>14, <2>6, <3>2, PlainLeaves
    <3>4. Leased(m, resetting, S)
      BY <1>2, <1>3, <1>5, <1>7, <1>14, <2>6, <3>2, PlainLeaves
    <3>5. T \in SUBSET (Nat \ {0})
      BY <1>2, <3>1
    <3>6. /\ Leased(Push(m, over, slot).l, Push(m, over, slot).cs, S)
          /\ \A d \in Session : Calm(cs[d], Push(m, over, slot).cs[d])
      BY <1>12, <3>1, <3>3, <3>5
    <3>7. QED
      BY <1>1, <1>10, <1>11, <2>8, <3>4, <3>6
  <2>9. QED
    BY <2>7, <2>8
<1>15. QED
  BY <1>3, <1>13, <1>14

(* No news is news of the same deployment. *)
LEMMA NoNews ==
    ASSUME world \in World
    PROVE  [world EXCEPT !.news = FALSE] \in World
BY DEF World

(* The steps of the loop that leave the master clients as they are. *)
LEMMA AskKeeps ==
    ASSUME Inv, Ask
    PROVE  Inv'
<1>1. PICK s, t : s = sen /\ t = sen'
  OBVIOUS
<1>2. /\ Sound(s) /\ s \in Client /\ s.loop = "asking" /\ world' \in World
      /\ world \in World
  BY <1>1 DEF Inv, Ask, Sound
<1>3. caller' = Resumed(caller, t) /\ UNCHANGED lease
  BY <1>1 DEF Ask
<1>4. CASE t = LoopFails(s)
  <2>1. Sound(t) /\ Gentle(s, t)
    BY <1>2, <1>4, LoopFailsKeeps
  <2>2. QED
    BY <1>1, <1>2, <1>3, <2>1, ResumingStep
<1>5. CASE \E g \in Guard, m \in Node \cup {None}, k \in SUBSET Guard :
              t = [s EXCEPT !.loop = "answered",
                            !.answer = [by |-> g, master |-> m, knows |-> k]]
  <2>1. PICK g \in Guard, m \in Node \cup {None}, k \in SUBSET Guard :
              t = [s EXCEPT !.loop = "answered",
                            !.answer = [by |-> g, master |-> m, knows |-> k]]
    BY <1>5
  <2>2. PICK a : a = [by |-> g, master |-> m, knows |-> k]
    OBVIOUS
  <2>3. a \in Answer
    BY <2>2 DEF Answer
  <2>4. t = [s EXCEPT !.loop = "answered", !.answer = a]
    BY <2>1, <2>2
  <2>5. t \in Client
    BY <1>2, <2>3, <2>4 DEF Client, Stage
  <2>6. /\ SameButLoop(s, t) /\ t.ready = s.ready /\ t.loop = "answered" /\ t.awaits = s.awaits
    BY <1>2, <2>4 DEF Client, SameButLoop
  <2>7. Full(t) /\ Ended(t) /\ Served(t) /\ Awaiting(t)
    BY <1>2, <2>6 DEF Sound, Full, Size, Ended, Quiet, Served, Awaiting, SameButLoop
  <2>8. Gentle(s, t)
    BY <1>2, <2>6, GentleIfSame DEF SameButLoop, Shut
  <2>9. QED
    BY <1>1, <1>2, <1>3, <2>5, <2>7, <2>8, ResumingStep DEF Sound
<1>6. /\ s.roots \subseteq Guard /\ world.master \in Node
      /\ world.guards \in SUBSET Guard /\ world.guards \cap world.up \in SUBSET Guard
  BY <1>2 DEF Client, World
<1>7. CASE s.roots \cap world.up = {}
  BY <1>1, <1>4, <1>7 DEF Ask
<1>8. CASE s.roots \cap world.up # {}
  <2>1. PICK g \in s.roots \cap world.up,
             k \in {world.guards, world.guards \cap world.up} :
          \E m \in {world.master} \cup (IF world.master \in world.up THEN {} ELSE {None}) :
              t = [s EXCEPT !.loop = "answered",
                            !.answer = [by |-> g, master |-> m, knows |-> k]]
    BY <1>1, <1>8 DEF Ask
  <2>2. PICK m \in {world.master} \cup (IF world.master \in world.up THEN {} ELSE {None}) :
              t = [s EXCEPT !.loop = "answered",
                            !.answer = [by |-> g, master |-> m, knows |-> k]]
    BY <2>1
  <2>3. g \in Guard /\ k \in SUBSET Guard /\ m \in Node \cup {None}
    BY ONLY <1>6, <2>1, <2>2
  <2>4. QED
    BY <1>5, <2>2, <2>3
<1>9. QED
  BY <1>7, <1>8

(* Everything the round waited for is open. *)
LEMMA OpenedKeeps ==
    ASSUME Inv, Opened
    PROVE  Inv'
<1>1. PICK s, t, e : s = sen /\ t = sen' /\ e = EndRound(s)
  OBVIOUS
<1>2. /\ Sound(s) /\ s.loop = "opening" /\ s.awaits = NothingAwaited /\ world' \in World
      /\ caller' = Resumed(caller, e) /\ UNCHANGED lease
  BY <1>1 DEF Inv, Opened, Sound
<1>3. Sound(e) /\ Gentle(s, e) /\ e.open /\ ~e.draining
  BY <1>1, <1>2, EndRoundKeeps
<1>4. PICK v : v = (e.timer \/ (e.loop = "idle" /\ e.initial /\ e.ready))
  OBVIOUS
<1>5. v \in BOOLEAN /\ t = [e EXCEPT !.timer = v]
  BY <1>1, <1>3, <1>4 DEF Opened
<1>6. t \in Client
  BY <1>3, <1>5 DEF Sound, Client
<1>7. /\ t.pool = e.pool /\ t.open = e.open /\ t.destroying = e.destroying /\ t.again = e.again
      /\ t.teardown = e.teardown /\ t.draining = e.draining /\ t.masters = e.masters
      /\ t.ctrl = e.ctrl /\ t.ready = e.ready /\ t.awaits = e.awaits /\ t.loop = e.loop
      /\ t.outcome = e.outcome
  BY <1>3, <1>5 DEF Sound, Client
<1>8. Full(t) /\ Ended(t) /\ Served(t) /\ Awaiting(t)
  BY <1>3, <1>7 DEF Sound, Full, Size, Ended, Quiet, Served, Awaiting, Live
<1>9. Gentle(s, t)
  BY <1>3, <1>7 DEF Gentle, Shut
<1>10. QED
  BY <1>1, <1>2, <1>6, <1>8, <1>9, ResumingStep DEF Sound

(* The pause is over. *)
LEMMA WakeKeeps ==
    ASSUME Inv, Wake
    PROVE  Inv'
<1>1. PICK s, t : s = sen /\ t = sen'
  OBVIOUS
<1>2. /\ Sound(s) /\ s \in Client /\ s.loop = "sleeping" /\ world' \in World
      /\ caller' = Resumed(caller, t) /\ UNCHANGED lease /\ t = LoopTop(s)
  BY <1>1 DEF Inv, Wake, Sound
<1>3. /\ t \in Client /\ SameButLoop(s, t) /\ t.ready = s.ready /\ t.awaits = s.awaits
      /\ s.destroying => t.loop = "idle"
      /\ ~s.destroying => t.loop = "asking"
  BY <1>2, LoopTopFields
<1>4. Full(t) /\ Ended(t) /\ Served(t) /\ Awaiting(t)
  BY <1>2, <1>3 DEF Sound, Full, Size, Ended, Quiet, Served, Awaiting, SameButLoop
<1>5. Gentle(s, t)
  BY <1>2, <1>3, GentleIfSame DEF SameButLoop, Shut
<1>6. QED
  BY <1>1, <1>2, <1>3, <1>4, <1>5, ResumingStep DEF Sound

(* A message, or the scan, asks for a reset. *)
LEMMA AsksKeeps ==
    ASSUME Inv, ControlMessage \/ Scan
    PROVE  Inv'
<1>1. PICK s, t : s = sen /\ t = sen'
  OBVIOUS
<1>2. /\ Sound(s) /\ t = Reset(s) /\ UNCHANGED <<caller, lease>>
      /\ world' \in World
  BY <1>1, NoNews DEF Inv, ControlMessage, Scan
<1>3. Sound(t) /\ Gentle(s, t)
  BY <1>2, ResetKeeps
<1>4. QED
  BY <1>1, <1>2, <1>3, ClientStep

(* A client of the pool is connected. *)
LEMMA MasterConnectsKeeps ==
    ASSUME Inv, NEW i \in 1..sen.pool, MasterConnects(i)
    PROVE  Inv'
<1>1. PICK s, t : s = sen /\ t = sen'
  OBVIOUS
<1>2. /\ Sound(s) /\ s \in Client /\ world' \in World /\ UNCHANGED <<caller, lease>>
      /\ i \in 1..Len(s.masters) /\ s.masters \in Seq(Master) /\ s.awaits \in Awaits
      /\ t = [s EXCEPT !.masters[i].st = "ready", !.awaits.slots = @ \ {i}]
  BY <1>1 DEF Inv, MasterConnects, Sound, Size, Client
<1>3. PICK m, a : /\ m = [s.masters EXCEPT ![i].st = "ready"]
                  /\ a = [s.awaits EXCEPT !.slots = s.awaits.slots \ {i}]
  OBVIOUS
<1>4. /\ m \in Seq(Master) /\ Len(m) = Len(s.masters)
      /\ \A j \in 1..Len(s.masters) : m[j].node = s.masters[j].node /\ m[j].watch = s.masters[j].watch
  <2>1. PICK q : q = s.masters
    OBVIOUS
  <2>2. q \in Seq(Master) /\ i \in 1..Len(q)
    BY <1>2, <2>1
  <2>3. SetsState(q, m, i, "ready") /\ "ready" \in {"connecting", "ready", "down"}
    BY <1>3, <2>1 DEF SetsState
  <2>4. /\ m \in Seq(Master) /\ Len(m) = Len(q)
        /\ \A j \in 1..Len(q) : m[j].node = q[j].node /\ m[j].watch = q[j].watch
    BY ONLY <2>2, <2>3, OneState
  <2>5. QED
    BY <2>1, <2>4
<1>5. a \in Awaits /\ a.ctrl = s.awaits.ctrl /\ a.proxy = s.awaits.proxy /\ a.slots \subseteq s.awaits.slots
  BY <1>2, <1>3 DEF Awaits
<1>6. t = [s EXCEPT !.masters = m, !.awaits = a]
  BY <1>2, <1>3
<1>7. t \in Client /\ t.masters = m /\ t.awaits = a
  BY <1>2, <1>4, <1>5, <1>6, ZenonT(60) DEF Client
<1>8. SameButMasters(s, t)
  BY <1>2, <1>4, <1>5, <1>6, <1>7 DEF SameButMasters, Client
<1>9. Sound(t) /\ (t.masters = <<>> <=> s.masters = <<>>)
  BY <1>2, <1>7, <1>8, MastersKeep
<1>10. Gentle(s, t)
  BY <1>4, <1>7, <1>8, <1>9 DEF Gentle, SameButMasters, Shut
<1>11. QED
  BY <1>1, <1>2, <1>9, <1>10, ClientStep

(* It could not be: a round that waits for it fails. *)
LEMMA MasterFailsKeeps ==
    ASSUME Inv, NEW i \in 1..sen.pool, MasterFails(i)
    PROVE  Inv'
<1>1. PICK s, t, r : s = sen /\ t = sen' /\ r = [sen EXCEPT !.masters[i].st = "down"]
  OBVIOUS
<1>2. /\ Sound(s) /\ s \in Client /\ world' \in World /\ UNCHANGED lease
      /\ caller' = Resumed(caller, t)
      /\ i \in 1..Len(s.masters) /\ s.masters \in Seq(Master)
      /\ t = IF i \in r.awaits.slots THEN LoopFails(r) ELSE r
  BY <1>1 DEF Inv, MasterFails, Sound, Size, Client
<1>3. PICK m : m = [s.masters EXCEPT ![i].st = "down"]
  OBVIOUS
<1>4. /\ m \in Seq(Master) /\ Len(m) = Len(s.masters)
      /\ \A j \in 1..Len(s.masters) : m[j].node = s.masters[j].node /\ m[j].watch = s.masters[j].watch
  <2>1. PICK q : q = s.masters
    OBVIOUS
  <2>2. q \in Seq(Master) /\ i \in 1..Len(q)
    BY <1>2, <2>1
  <2>3. SetsState(q, m, i, "down") /\ "down" \in {"connecting", "ready", "down"}
    BY <1>3, <2>1 DEF SetsState
  <2>4. /\ m \in Seq(Master) /\ Len(m) = Len(q)
        /\ \A j \in 1..Len(q) : m[j].node = q[j].node /\ m[j].watch = q[j].watch
    BY ONLY <2>2, <2>3, OneState
  <2>5. QED
    BY <2>1, <2>4
<1>5. SetsMasters(s, r, m)
  BY <1>1, <1>3 DEF SetsMasters
<1>6. /\ Sound(r) /\ r.masters = m /\ r.pool = s.pool /\ r.awaits = s.awaits
      /\ r.loop = s.loop /\ r.destroying = s.destroying /\ r.open = s.open
      /\ (r.masters = <<>> <=> s.masters = <<>>)
  BY <1>2, <1>4, <1>5, SetsMastersKeeps
<1>7. Gentle(s, r)
  BY <1>4, <1>6 DEF Gentle, Shut
<1>8. CASE i \in r.awaits.slots
  <2>1. r.loop # "idle"
    BY <1>6, <1>8 DEF Sound, Awaiting
  <2>2. Sound(t) /\ Gentle(r, t)
    BY <1>2, <1>6, <1>8, <2>1, LoopFailsKeeps
  <2>3. Gentle(s, t)
    BY <1>7, <2>2 DEF Gentle
  <2>4. QED
    BY <1>1, <1>2, <2>2, <2>3, ResumingStep
<1>9. CASE i \notin r.awaits.slots
  BY <1>1, <1>2, <1>6, <1>7, <1>9, ResumingStep
<1>10. QED
  BY <1>8, <1>9
(* The control connection is up, or the proxy is, or it is asked for. *)
LEMMA ConnectsKeeps ==
    ASSUME Inv, CtrlConnects \/ ProxyConnects \/ Subscribe
    PROVE  Inv'
<1>1. PICK s, t : s = sen /\ t = sen'
  OBVIOUS
<1>2. /\ Sound(s) /\ s \in Client /\ s.awaits \in Awaits /\ s.ctrl \in Ctrl
      /\ world' \in World /\ UNCHANGED <<caller, lease>>
  BY <1>1 DEF Inv, CtrlConnects, ProxyConnects, Subscribe, Sound, Client
<1>3. \E a \in Awaits, k \in Ctrl, p \in {"none", "connecting", "up"} :
         /\ t = [s EXCEPT !.awaits = a, !.ctrl = k, !.proxy = p]
         /\ (a.ctrl => s.awaits.ctrl) /\ (a.proxy => s.awaits.proxy) /\ a.slots = s.awaits.slots
         /\ k.st # s.ctrl.st => s.ctrl.st = "connecting" /\ k.st = "subscribed"
  <2>1. CASE CtrlConnects
    <3>1. PICK a, k : a = [s.awaits EXCEPT !.ctrl = FALSE] /\ k = [s.ctrl EXCEPT !.st = "subscribed"]
      OBVIOUS
    <3>2. a \in Awaits /\ ~a.ctrl /\ a.proxy = s.awaits.proxy /\ a.slots = s.awaits.slots
      BY <1>2, <3>1 DEF Awaits
    <3>3. k \in Ctrl /\ k.st = "subscribed" /\ s.ctrl.st = "connecting"
      BY <1>1, <1>2, <2>1, <3>1 DEF Ctrl, CtrlConnects
    <3>4. t = [s EXCEPT !.awaits = a, !.ctrl = k, !.proxy = s.proxy]
      BY <1>1, <1>2, <2>1, <3>1 DEF CtrlConnects, Client
    <3>5. s.proxy \in {"none", "connecting", "up"}
      BY <1>2 DEF Client
    <3>6. QED
      BY <3>2, <3>3, <3>4, <3>5
  <2>2. CASE ProxyConnects
    <3>1. PICK a : a = [s.awaits EXCEPT !.proxy = FALSE]
      OBVIOUS
    <3>2. a \in Awaits /\ ~a.proxy /\ a.ctrl = s.awaits.ctrl /\ a.slots = s.awaits.slots
      BY <1>2, <3>1 DEF Awaits
    <3>3. t = [s EXCEPT !.awaits = a, !.ctrl = s.ctrl, !.proxy = "up"]
      BY <1>1, <1>2, <2>2, <3>1 DEF ProxyConnects, Client
    <3>4. QED
      BY <1>2, <3>2, <3>3
  <2>3. CASE Subscribe
    <3>1. t = [s EXCEPT !.awaits = s.awaits, !.ctrl = s.ctrl, !.proxy = "connecting"]
      BY <1>1, <1>2, <2>3 DEF Subscribe, Client
    <3>2. QED
      BY <1>2, <3>1
  <2>4. QED
    BY <2>1, <2>2, <2>3
<1>4. PICK a \in Awaits, k \in Ctrl, p \in {"none", "connecting", "up"} :
         /\ t = [s EXCEPT !.awaits = a, !.ctrl = k, !.proxy = p]
         /\ (a.ctrl => s.awaits.ctrl) /\ (a.proxy => s.awaits.proxy) /\ a.slots = s.awaits.slots
         /\ k.st # s.ctrl.st => s.ctrl.st = "connecting" /\ k.st = "subscribed"
  BY <1>3
<1>5. t \in Client /\ t.awaits = a /\ t.ctrl = k
  BY <1>2, <1>4 DEF Client
<1>6. /\ t.pool = s.pool /\ t.open = s.open /\ t.destroying = s.destroying /\ t.again = s.again
      /\ t.teardown = s.teardown /\ t.draining = s.draining /\ t.masters = s.masters
      /\ t.ready = s.ready /\ t.loop = s.loop /\ t.timer = s.timer /\ t.outcome = s.outcome
  BY <1>2, <1>4 DEF Client
<1>7. Full(t) /\ Ended(t) /\ Served(t) /\ Awaiting(t)
  <2>1. Full(t) /\ Awaiting(t)
    BY <1>2, <1>4, <1>5, <1>6 DEF Sound, Full, Size, Awaiting
  <2>2. Ended(t)
    BY <1>2, <1>4, <1>5, <1>6 DEF Sound, Ended, Quiet
  <2>3. Live(s) => Live(t)
    BY <1>4, <1>5 DEF Live
  <2>4. Served(t)
    BY <1>2, <1>6, <2>3 DEF Sound, Served
  <2>5. QED
    BY <2>1, <2>2, <2>4
<1>8. Gentle(s, t)
  BY <1>6, GentleIfSame DEF Shut
<1>9. QED
  BY <1>1, <1>2, <1>5, <1>7, <1>8, ClientStep DEF Sound

(* The control connection is lost: a round that waits for it fails. *)
LEMMA CtrlFailsKeeps ==
    ASSUME Inv, CtrlFails
    PROVE  Inv'
<1>1. PICK s, t, r : s = sen /\ t = sen' /\ r = GuardFailed(sen)
  OBVIOUS
<1>2. /\ Sound(s) /\ Live(s) /\ world' \in World /\ UNCHANGED lease
      /\ caller' = Resumed(caller, t)
      /\ t = IF r.awaits.ctrl THEN LoopFails(r) ELSE r
  BY <1>1, NoNews DEF Inv, CtrlFails, Live
<1>3. /\ Sound(r) /\ Gentle(s, r) /\ r.awaits = s.awaits
      /\ s.loop # "idle" => r.loop = s.loop
  BY <1>1, <1>2, GuardFailedKeeps
<1>4. CASE r.awaits.ctrl
  <2>1. r.loop # "idle"
    BY <1>2, <1>3, <1>4 DEF Sound, Awaiting
  <2>2. Sound(t) /\ Gentle(r, t)
    BY <1>2, <1>3, <1>4, <2>1, LoopFailsKeeps
  <2>3. Gentle(s, t)
    BY <1>3, <2>2 DEF Gentle
  <2>4. QED
    BY <1>1, <1>2, <2>2, <2>3, ResumingStep
<1>5. CASE ~r.awaits.ctrl
  BY <1>1, <1>2, <1>3, <1>5, ResumingStep
<1>6. QED
  BY <1>4, <1>5

(* A step after which the client is shut. *)
LEMMA ShutStep ==
    ASSUME Inv, Sound(sen'), sen'.pool = sen.pool, sen'.masters = <<>>, Shut(sen'),
           world' \in World,
           \/ UNCHANGED <<caller, lease>>
           \/ \E slots : /\ caller' = CutOff(caller, slots, "throw")
                         /\ lease' = LosesSlots(lease, caller, slots)
    PROVE  Inv'
<1>1. PICK s, t, l, cs, S : s = sen /\ t = sen' /\ l = lease /\ cs = caller /\ S = 1..sen.pool
  OBVIOUS
<1>2. /\ Leased(l, cs, S) /\ Watched(s, cs) /\ t.masters = <<>> /\ Shut(t)
      /\ S \in SUBSET (Nat \ {0})
  BY <1>1, PoolSlots DEF Inv
<1>3. CASE UNCHANGED <<caller, lease>>
  <2>1. Watched(t, cs)
    BY <1>2, ShutWatched
  <2>2. QED
    BY <1>1, <1>2, <1>3, <2>1, StepKeeps
<1>4. ASSUME NEW slots, caller' = CutOff(caller, slots, "throw"),
             lease' = LosesSlots(lease, caller, slots)
      PROVE  Inv'
  <2>1. PICK ds, m : ds = CutOff(cs, slots, "throw") /\ m = LosesSlots(l, cs, slots)
    OBVIOUS
  <2>2. Leased(m, ds, S) /\ \A c \in Caller : IsCut(cs[c], ds[c], slots, "throw")
    BY <1>2, <2>1, CutLeased
  <2>3. ASSUME NEW c \in Session, Covered(ds[c]), ds[c].st = "sent"
        PROVE  Covered(cs[c]) /\ cs[c].st = "sent" /\ ds[c].guarded = cs[c].guarded
    <3>1. IsCut(cs[c], ds[c], slots, "throw") /\ cs[c].guarded \in BOOLEAN
      BY <1>2, <2>2 DEF Caller, Leased, Call
    <3>2. cs[c].slot \notin slots
      BY <2>3, <3>1 DEF IsCut
    <3>3. QED
      BY <2>3, <3>1, <3>2 DEF IsCut, Covered
  <2>4. Watched(t, ds)
    BY <1>2, <2>3, ShutWatched
  <2>5. QED
    BY <1>1, <1>4, <2>1, <2>2, <2>4, StepKeeps
<1>5. QED
  BY <1>3, <1>4

(* close() and destroy() end the client, or wait for the loop. *)
LEMMA CloseKeeps ==
    ASSUME Inv, NEW kind \in {"close", "destroy"}, Close(kind)
    PROVE  Inv'
<1>1. PICK s, t, r : s = sen /\ t = sen' /\ r = Teardown(sen, kind)
  OBVIOUS
<1>2. Sound(s) /\ s \in Client /\ world' \in World
  BY <1>1 DEF Inv, Close, Sound
<1>3. /\ Sound(r) /\ Gentle(s, r) /\ r.pool = s.pool /\ r.loop = s.loop /\ r.destroying
      /\ r.draining = s.draining
  BY <1>1, <1>2, TeardownKeeps
<1>4. CASE Dismantled(r) /\ s.loop = "idle"
  <2>1. t = Dismantle(r)
    BY <1>1, <1>4 DEF Dismantled
  <2>2. Sound(t) /\ t.pool = s.pool /\ t.masters = <<>> /\ Shut(t)
    BY <1>3, <1>4, <2>1, DismantleKeeps
  <2>3. \/ UNCHANGED <<caller, lease>>
        \/ \E slots : /\ caller' = CutOff(caller, slots, "throw")
                      /\ lease' = LosesSlots(lease, caller, slots)
    BY <1>4 DEF Dismantled
  <2>4. QED
    BY <1>1, <1>2, <2>2, <2>3, ShutStep
<1>5. CASE /\ s.draining /\ t = Closed(r)
           /\ caller' = CutOff(caller, 1..r.pool, "throw")
           /\ lease' = LosesSlots(lease, caller, 1..r.pool)
  <2>1. Quiet(r) /\ Awaiting(r) /\ r \in Client
    BY <1>3, <1>5 DEF Sound, Ended
  <2>2. Sound(t) /\ t.pool = s.pool /\ t.masters = <<>> /\ Shut(t)
    BY <1>3, <1>5, <2>1, ClosedKeeps
  <2>3. QED
    BY <1>1, <1>2, <1>5, <2>2, ShutStep
<1>6. CASE t = r /\ UNCHANGED <<caller, lease>>
  BY <1>1, <1>2, <1>3, <1>6, ClientStep
<1>7. QED
  BY <1>1, <1>4, <1>5, <1>6 DEF Close, Preempts

(* What waited for the loop, or for the drain. *)
LEMMA EndsKeeps ==
    ASSUME Inv, TeardownProceeds \/ Drained
    PROVE  Inv'
<1>1. PICK s, t : s = sen /\ t = sen'
  OBVIOUS
<1>2. Sound(s) /\ s \in Client /\ world' \in World
  BY <1>1 DEF Inv, TeardownProceeds, Drained, Sound
<1>3. CASE TeardownProceeds
  <2>1. s.loop = "idle" /\ s.destroying /\ t = Dismantle(s)
    BY <1>1, <1>2, <1>3 DEF TeardownProceeds, Awaited, Dismantled, Sound, Ended
  <2>2. Sound(t) /\ t.pool = s.pool /\ t.masters = <<>> /\ Shut(t)
    BY <1>2, <2>1, DismantleKeeps
  <2>3. \/ UNCHANGED <<caller, lease>>
        \/ \E slots : /\ caller' = CutOff(caller, slots, "throw")
                      /\ lease' = LosesSlots(lease, caller, slots)
    BY <1>3 DEF TeardownProceeds, Dismantled
  <2>4. QED
    BY <1>1, <1>2, <2>2, <2>3, ShutStep
<1>4. CASE Drained
  <2>1. s.draining /\ t = Closed(s) /\ UNCHANGED <<caller, lease>>
    BY <1>1, <1>4 DEF Drained
  <2>2. Quiet(s) /\ Awaiting(s)
    BY <1>2, <2>1 DEF Sound, Ended
  <2>3. Sound(t) /\ t.pool = s.pool /\ t.masters = <<>> /\ Shut(t)
    BY <1>2, <2>1, <2>2, ClosedKeeps
  <2>4. QED
    BY <1>1, <1>2, <2>1, <2>3, ShutStep
<1>5. QED
  BY <1>3, <1>4
(* connect(): no session has a WATCH of this life of the client. *)
LEMMA ConnectKeeps ==
    ASSUME Inv, Connect
    PROVE  Inv'
<1>1. PICK s, t, r, l, cs, ds, S :
            /\ s = sen /\ t = sen' /\ r = StartLoop(sen, TRUE) /\ l = lease /\ cs = caller
            /\ ds = caller' /\ S = 1..sen.pool
  OBVIOUS
<1>2. /\ Sound(s) /\ s \in Client /\ ~s.open /\ world' \in World /\ Leased(l, cs, S)
      /\ lease' = l /\ t = [r EXCEPT !.open = TRUE, !.everOpen = TRUE]
      /\ ds = [c \in Caller |-> [cs[c] EXCEPT !.reopened = TRUE]]
  BY <1>1 DEF Inv, Connect, Sound
<1>3. Quiet(s)
  BY <1>2 DEF Sound, Ended
<1>4. /\ r \in Client /\ SameButLoop(s, r) /\ r.ready = s.ready /\ r.awaits = s.awaits
      /\ s.destroying => r.loop = "idle"
      /\ ~s.destroying => r.loop = "asking"
  BY <1>1, <1>2, StartLoopFields
<1>5. t \in Client
  BY <1>2, <1>4 DEF Client
<1>6. /\ t.pool = s.pool /\ t.open /\ t.destroying = s.destroying
      /\ t.teardown = s.teardown /\ t.draining = s.draining /\ t.masters = s.masters
      /\ t.ctrl = s.ctrl /\ t.ready = s.ready /\ t.awaits = s.awaits /\ t.loop = r.loop
      /\ t.timer = s.timer
  BY <1>2, <1>4 DEF Client, SameButLoop
<1>7. Full(t) /\ Ended(t) /\ Served(t) /\ Awaiting(t)
  <2>1. Full(t) /\ Awaiting(t)
    BY <1>2, <1>3, <1>4, <1>6 DEF Sound, Full, Size, Awaiting, Quiet
  <2>2. Ended(t)
    BY <1>2, <1>3, <1>4, <1>6 DEF Sound, Ended, Quiet
  <2>3. Served(t)
    BY <1>3, <1>4, <1>6 DEF Served, Quiet
  <2>4. QED
    BY <2>1, <2>2, <2>3
<1>8. cs \in [Caller -> Call]
  BY <1>2 DEF Leased
<1>9. ASSUME NEW c \in Caller
      PROVE  /\ ds[c] \in Call /\ ds[c].st = cs[c].st /\ ds[c].slot = cs[c].slot
             /\ ds[c].op = cs[c].op /\ ds[c].reopened
  <2>1. ds[c] = [cs[c] EXCEPT !.reopened = TRUE] /\ cs[c] \in Call
    BY <1>2, <1>8
  <2>2. QED
    BY <2>1 DEF Call
<1>10. ds \in [Caller -> Call]
  BY <1>2, <1>9
<1>11. Alike(cs, ds)
  BY <1>9 DEF Alike
<1>12. Leased(l, ds, S)
  BY <1>2, <1>9, <1>10, <1>11, AlikeLeased
<1>13. Watched(t, ds)
  BY <1>9 DEF Watched, Pending, Covered, Caller
<1>14. QED
  BY <1>1, <1>2, <1>5, <1>6, <1>7, <1>12, <1>13, StepKeeps DEF Sound

(* Callers after a cut that went on with the end of the loop. *)
LEMMA CutStep ==
    ASSUME Inv, Sound(sen'), sen'.pool = sen.pool, world' \in World,
           NEW slots, NEW x,
           caller' = Resumed(CutOff(caller, slots, "error"), x),
           lease' = LosesSlots(lease, caller, slots),
           Watched(sen', CutOff(caller, slots, "error"))
    PROVE  Inv'
<1>1. PICK s, t, l, m, cs, ds, es, S :
            /\ s = sen /\ t = sen' /\ l = lease /\ m = lease' /\ cs = caller
            /\ ds = CutOff(caller, slots, "error") /\ es = caller' /\ S = 1..sen.pool
  OBVIOUS
<1>2. /\ Leased(l, cs, S) /\ S \in SUBSET (Nat \ {0}) /\ es = Resumed(ds, x)
      /\ ds = CutOff(cs, slots, "error") /\ m = LosesSlots(l, cs, slots)
      /\ Sound(t) /\ Watched(t, ds) /\ S = 1..t.pool
  BY <1>1, PoolSlots DEF Inv
<1>3. Leased(m, ds, S)
  BY ONLY <1>2, CutLeased
<1>4. Leased(m, es, S) /\ \A c \in Caller : GoesOn(ds[c], es[c])
  BY ONLY <1>2, <1>3, ResumedLeased
<1>5. \A c \in Session : Calm(ds[c], es[c])
  BY <1>3, <1>4, GivenCalm DEF Caller
<1>6. Gentle(t, t)
  BY DEF Gentle
<1>7. Watched(t, es)
  BY <1>2, <1>3, <1>5, <1>6, CalmWatched
<1>8. QED
  BY <1>1, <1>4, <1>7, StepKeeps

(* The pool of a new master takes the place of the old one. *)
LEMMA AnsweredKeeps ==
    ASSUME Inv, Answered
    PROVE  Inv'
<1>1. PICK s, t, l, cs, slots, S :
            /\ s = sen /\ t = sen' /\ l = lease /\ cs = caller /\ S = 1..sen.pool
            /\ slots = IF t.loop = "opening" /\ t.awaits.slots # {} THEN 1..s.pool ELSE {}
  OBVIOUS
<1>2. /\ Sound(s) /\ s.loop = "answered" /\ t = Transform(s) /\ world' \in World
      /\ Leased(l, cs, S) /\ Watched(s, cs) /\ S \in SUBSET (Nat \ {0})
  BY <1>1, NoNews, PoolSlots DEF Inv, Answered
<1>3. /\ caller' = Resumed(CutOff(caller, slots, "error"), t)
      /\ lease' = LosesSlots(lease, caller, slots)
  BY <1>1 DEF Answered
<1>4. /\ Sound(t) /\ t.pool = s.pool
      /\ Renews(t) => Renewed(s, t)
      /\ ~Renews(t) => Gentle(s, t)
  BY <1>2, TransformKeeps
<1>5. PICK ds : ds = CutOff(cs, slots, "error")
  OBVIOUS
<1>6. "error" \in {"error", "throw"}
  OBVIOUS
<1>7. \A c \in Caller : IsCut(cs[c], ds[c], slots, "error")
  BY ONLY <1>2, <1>5, <1>6, CutLeased
<1>8. \A c \in Session : IsCut(cs[c], ds[c], slots, "error")
  BY <1>7 DEF Caller
<1>9. Leased(l, cs, 1..s.pool)
  BY <1>1, <1>2
<1>10. s.masters # <<>> => Len(s.masters) = s.pool
  BY <1>2 DEF Sound, Full, Size
<1>11. Watched(t, ds)
  <2>1. CASE Renews(t)
    <3>1. slots = 1..s.pool
      BY <1>1, <2>1 DEF Renews
    <3>2. CASE s.masters = <<>>
      <4>1. \A c \in Session : ~Pending(cs[c])
        BY <1>2, <3>2 DEF Watched, Known, Shut
      <4>2. ASSUME NEW c \in Session PROVE ~Pending(ds[c])
        BY <1>8, <4>1 DEF IsCut, Pending, Covered
      <4>3. ASSUME NEW c \in Session, Covered(ds[c]), ds[c].st = "sent" PROVE ds[c].guarded
        <5>1. IsCut(cs[c], ds[c], slots, "error")
          BY <1>8
        <5>2. cs[c].slot \notin slots
          BY <4>3, <5>1 DEF IsCut
        <5>3. Covered(cs[c]) /\ cs[c].st = "sent"
          BY <4>3, <5>1, <5>2 DEF IsCut, Covered
        <5>4. cs[c].guarded
          BY <1>2, <5>3 DEF Watched
        <5>5. QED
          BY <5>1, <5>2, <5>4 DEF IsCut
      <4>4. QED
        BY <4>2, <4>3 DEF Watched
    <3>3. CASE s.masters # <<>>
      <4>1. t.masters # <<>>
        BY <1>4, <2>1 DEF Renewed
      <4>2. ASSUME NEW i \in 1..s.pool
            PROVE  IF i \in slots
                   THEN s.masters[i].watch # "none" => t.masters[i].watch = "dirty"
                   ELSE t.masters[i].watch = s.masters[i].watch
        <5>1. i \in slots /\ i <= Len(s.masters)
          BY <1>10, <3>1, <3>3
        <5>2. QED
          BY <1>4, <2>1, <5>1 DEF Renewed
      <4>3. QED
        BY ONLY <1>2, <1>6, <1>8, <1>9, <3>3, <4>1, <4>2, CutWatched, ZenonT(60)
    <3>4. QED
      BY <3>2, <3>3
  <2>2. CASE ~Renews(t)
    <3>1. Gentle(s, t) /\ slots = {}
      BY <1>1, <1>4, <2>2 DEF Renews
    <3>2. s.masters = <<>> => t.masters = <<>> /\ (Shut(s) => Shut(t))
      BY <3>1 DEF Gentle
    <3>3. s.masters # <<>> => t.masters # <<>>
      BY <3>1 DEF Gentle
    <3>4. ASSUME s.masters # <<>>, NEW i \in 1..s.pool
          PROVE  IF i \in slots
                 THEN s.masters[i].watch # "none" => t.masters[i].watch = "dirty"
                 ELSE t.masters[i].watch = s.masters[i].watch
      BY <1>10, <3>1, <3>4 DEF Gentle
    <3>5. QED
      BY ONLY <1>2, <1>6, <1>8, <1>9, <3>2, <3>3, <3>4, CutWatched, ZenonT(60)
  <2>3. QED
    BY <2>1, <2>2
<1>12. QED
  BY <1>1, <1>2, <1>3, <1>4, <1>5, <1>11, CutStep

(* Connections of the pool are lost. *)
LEMMA CutKeeps ==
    ASSUME Inv, world' \in World, NEW slots, Cut(slots)
    PROVE  Inv'
<1>1. PICK s, t, l, cs, S, q :
            /\ s = sen /\ t = sen' /\ l = lease /\ cs = caller /\ S = 1..sen.pool
            /\ q = sen.masters
  OBVIOUS
<1>2. /\ Sound(s) /\ s \in Client /\ q \in Seq(Master) /\ Leased(l, cs, S) /\ Watched(s, cs)
      /\ S \in SUBSET (Nat \ {0}) /\ q = s.masters
  BY <1>1, PoolSlots DEF Inv, Sound, Client
<1>3. PICK m : m = [i \in 1..Len(q) |-> IF i \in slots THEN Lost(q[i]) ELSE q[i]]
  OBVIOUS
<1>4. ASSUME NEW i \in 1..Len(q)
      PROVE  /\ m[i] \in Master /\ m[i].node = q[i].node
             /\ m[i].watch = IF i \in slots /\ q[i].watch # "none" THEN "dirty" ELSE q[i].watch
  <2>1. q[i] \in Master /\ m[i] = IF i \in slots THEN Lost(q[i]) ELSE q[i]
    BY <1>2, <1>3
  <2>2. PICK w : w = IF q[i].watch = "none" THEN "none" ELSE "dirty"
    OBVIOUS
  <2>3. Lost(q[i]) = [q[i] EXCEPT !.st = "down", !.watch = w]
    BY <2>2 DEF Lost
  <2>4. QED
    BY <2>1, <2>2, <2>3 DEF Master
<1>5. m \in Seq(Master) /\ Len(m) = Len(q)
  <2>1. Len(q) \in Nat
    BY <1>2
  <2>2. m \in [1..Len(q) -> Master]
    BY <1>3, <1>4
  <2>3. QED
    BY <2>1, <2>2
<1>6. SetsMasters(s, t, m)
  BY <1>1, <1>3 DEF Cut, SetsMasters, Size
<1>7. /\ Sound(t) /\ t.masters = m /\ t.pool = s.pool /\ t.loop = s.loop
      /\ t.destroying = s.destroying /\ t.open = s.open
      /\ (t.masters = <<>> <=> s.masters = <<>>)
  BY <1>2, <1>4, <1>5, <1>6, SetsMastersKeeps
<1>8. PICK ds : ds = CutOff(cs, slots, "error")
  OBVIOUS
<1>9. "error" \in {"error", "throw"}
  OBVIOUS
<1>10. Leased(LosesSlots(l, cs, slots), ds, S) /\ \A c \in Caller : IsCut(cs[c], ds[c], slots, "error")
  BY ONLY <1>2, <1>8, <1>9, CutLeased
<1>11. Leased(l, cs, 1..s.pool) /\ \A c \in Session : IsCut(cs[c], ds[c], slots, "error")
  BY <1>1, <1>2, <1>10 DEF Caller
<1>12. s.masters = <<>> => t.masters = <<>> /\ (Shut(s) => Shut(t))
  BY <1>7 DEF Shut
<1>13. ASSUME s.masters # <<>>, NEW i \in 1..s.pool
       PROVE  IF i \in slots
              THEN s.masters[i].watch # "none" => t.masters[i].watch = "dirty"
              ELSE t.masters[i].watch = s.masters[i].watch
  <2>1. i \in 1..Len(q)
    BY <1>2, <1>13 DEF Sound, Full, Size
  <2>2. QED
    BY <1>2, <1>4, <1>7, <2>1
<1>14. Watched(t, ds)
  BY ONLY <1>2, <1>7, <1>9, <1>11, <1>12, <1>13, CutWatched
<1>15. caller' = ds /\ lease' = LosesSlots(l, cs, slots)
  BY <1>1, <1>8 DEF Cut
<1>16. QED
  BY <1>1, <1>7, <1>10, <1>14, <1>15, StepKeeps

(* What happens to the deployment. *)
LEMMA DeploymentKeeps ==
    ASSUME Inv,
           \/ Drop
           \/ \E n \in Node : NodeDown(n) \/ Failover(n)
           \/ \E g \in Guard : GuardDown(g)
           \/ \E p \in Node \cup Guard : ComesUp(p)
    PROVE  Inv'
<1>1. world \in World /\ Sound(sen)
  BY DEF Inv
<1>2. CASE Drop
  <2>1. PICK i : Cut({i})
    BY <1>2 DEF Drop
  <2>2. QED
    BY <1>1, <1>2, <2>1, CutKeeps DEF Drop
<1>3. ASSUME NEW n \in Node, NodeDown(n) PROVE Inv'
  <2>1. world' \in World
    BY <1>1, <1>3 DEF NodeDown, World
  <2>2. Cut(On(n))
    BY <1>3 DEF NodeDown
  <2>3. QED
    BY <2>1, <2>2, CutKeeps
<1>4. ASSUME UNCHANGED <<sen, caller, lease>>, world' \in World PROVE Inv'
  BY <1>4 DEF Inv
<1>5. ASSUME NEW n \in Node, Failover(n) PROVE Inv'
  <2>1. PICK v : v = (world.news \/ sen.ctrl.st = "subscribed")
    OBVIOUS
  <2>2. v \in BOOLEAN
    BY <1>1, <2>1 DEF World
  <2>3. world' = [world EXCEPT !.master = n, !.news = v]
    BY <1>5, <2>1 DEF Failover
  <2>4. world' \in World
    BY <1>1, <2>2, <2>3 DEF World
  <2>5. QED
    BY <1>4, <1>5, <2>4 DEF Failover
<1>6. ASSUME NEW g \in Guard, GuardDown(g) PROVE Inv'
  <2>1. world' \in World
    BY <1>1, <1>6 DEF GuardDown, World
  <2>2. QED
    BY <1>4, <1>6, <2>1 DEF GuardDown
<1>7. ASSUME NEW p \in Node \cup Guard, ComesUp(p) PROVE Inv'
  <2>1. world' \in World
    BY <1>1, <1>7 DEF ComesUp, World
  <2>2. QED
    BY <1>4, <1>7, <2>1 DEF ComesUp
<1>8. QED
  BY <1>2, <1>3, <1>5, <1>6, <1>7
-----------------------------------------------------------------------------
(* The steps of a caller.                                                  *)

(* What one caller does at its own slot does not touch another's watch.    *)
LEMMA OwnWatched ==
    ASSUME NEW s, NEW t, NEW l, NEW cs, NEW ds, Sound(s), Leased(l, cs, 1..s.pool),
           Watched(s, cs), NEW c \in Caller, Owns(cs, c),
           s.masters # <<>>, t.masters # <<>>,
           \A i \in 1..s.pool : i # cs[c].slot => t.masters[i].watch = s.masters[i].watch,
           \A d \in Session : d # c => Calm(cs[d], ds[d]),
           c \in Session => /\ Pending(ds[c]) => Known(t, ds[c])
                            /\ Covered(ds[c]) /\ ds[c].st = "sent" => ds[c].guarded
    PROVE  Watched(t, ds)
<1>1. PICK S : S = 1..s.pool
  OBVIOUS
<1>2. Leased(l, cs, S)
  BY <1>1
<1>3. ASSUME NEW d \in Session, d # c, Pending(ds[d]) PROVE Known(t, ds[d])
  <2>1. Pending(cs[d]) /\ ds[d].slot = cs[d].slot /\ ds[d].guarded = cs[d].guarded
    BY <1>3 DEF Calm
  <2>2. Known(s, cs[d])
    BY <2>1 DEF Watched
  <2>3. Class(cs[d].st) = "busy" /\ d \in Session /\ d \in Caller
    BY <2>1 DEF Pending, Class, Caller
  <2>4. /\ Owns(cs, d) /\ cs[d].slot \in S
        /\ \A e \in Caller : Owns(cs, e) /\ cs[e].slot = cs[d].slot => e = d
    BY ONLY <1>2, <2>3, PendingOwns
  <2>5. cs[d].slot # cs[c].slot
    BY <1>3, <2>4
  <2>6. t.masters[cs[d].slot].watch = s.masters[cs[d].slot].watch
    BY <1>1, <2>4, <2>5
  <2>7. QED
    BY <2>1, <2>2, <2>6 DEF Known
<1>4. \A d \in Session : d # c /\ Covered(ds[d]) /\ ds[d].st = "sent" => ds[d].guarded
  BY DEF Calm, Watched
<1>5. QED
  BY <1>3, <1>4 DEF Watched

(* One caller takes a turn, and looks to the leases as before. *)
LEMMA TurnLeased ==
    ASSUME NEW l, NEW cs, NEW S, Leased(l, cs, S), NEW c \in Caller, NEW x \in Call,
           x.slot = cs[c].slot, Class(x.st) = Class(cs[c].st), x.st # "waiting",
           x.op = cs[c].op \/ c \in Session, NEW ds, Sets(cs, ds, c, x)
    PROVE  Leased(l, ds, S) /\ \A d \in Caller : ds[d] = IF d = c THEN x ELSE cs[d]
<1>1. cs \in [Caller -> Call] /\ ds = [cs EXCEPT ![c] = x]
  BY DEF Leased, Sets
<1>2. \A d \in Caller : ds[d] = IF d = c THEN x ELSE cs[d]
  BY <1>1
<1>3. ds \in [Caller -> Call]
  BY <1>1
<1>4. Alike(cs, ds)
  BY <1>2 DEF Alike
<1>5. \A d \in Caller : ds[d].op = cs[d].op \/ (d \in Session /\ ds[d].st # "waiting")
  BY <1>2
<1>6. Leased(l, ds, S)
  BY ONLY Leased(l, cs, S), <1>3, <1>4, <1>5, AlikeLeased
<1>7. QED
  BY <1>2, <1>6

(* A turn of a caller over a client that keeps its masters. *)
LEMMA TurnKeeps ==
    ASSUME Inv, Sound(sen'), Gentle(sen, sen'), world' \in World, UNCHANGED lease,
           NEW c \in Caller, NEW x \in Call, Sets(caller, caller', c, x),
           x.slot = caller[c].slot, Class(x.st) = Class(caller[c].st), x.st # "waiting",
           x.op = caller[c].op, Calm(caller[c], x)
    PROVE  Inv'
<1>1. PICK s, t, l, cs, ds, S :
            /\ s = sen /\ t = sen' /\ l = lease /\ cs = caller /\ ds = caller'
            /\ S = 1..sen.pool
  OBVIOUS
<1>2. /\ Sound(s) /\ Gentle(s, t) /\ Leased(l, cs, S) /\ Watched(s, cs)
      /\ Sets(cs, ds, c, x) /\ x.slot = cs[c].slot /\ Class(x.st) = Class(cs[c].st)
      /\ x.op = cs[c].op /\ Calm(cs[c], x)
  BY <1>1 DEF Inv
<1>3. Leased(l, ds, S) /\ \A d \in Caller : ds[d] = IF d = c THEN x ELSE cs[d]
  BY <1>2, TurnLeased
<1>4. \A d \in Session : Calm(cs[d], ds[d])
  BY <1>2, <1>3 DEF Calm, Caller
<1>5. Leased(l, cs, 1..s.pool)
  BY <1>1, <1>2
<1>6. Watched(t, ds)
  BY ONLY <1>2, <1>4, <1>5, CalmWatched
<1>7. QED
  BY <1>1, <1>2, <1>3, <1>6, StepKeeps DEF Gentle

(* The end of an operation; after a WATCH the transaction begins under it. *)
LEMMA SettleKeeps ==
    ASSUME Inv, NEW c \in Caller, Class(caller[c].st) = "busy", NEW how \in {"ok", "failed"},
           Settle(c, how)
    PROVE  /\ Leased(lease', caller', 1..sen.pool)
           /\ \A d \in Session : d # c => Calm(caller[d], caller'[d])
           /\ c \in Session =>
                \/ Calm(caller[c], caller'[c])
                \/ /\ caller[c].op = "watch" /\ how = "ok" /\ caller'[c].st = "run"
                   /\ caller'[c].slot = caller[c].slot /\ caller'[c].guarded
<1>1. PICK l, cs, S : l = lease /\ cs = caller /\ S = 1..sen.pool
  OBVIOUS
<1>2. Leased(l, cs, S) /\ cs \in [Caller -> Call] /\ cs[c] \in Call /\ Class(cs[c].st) = "busy"
  BY <1>1 DEF Inv, Leased
<1>3. CASE caller[c].op = "watch" /\ how = "ok"
  <2>1. PICK x : x = [cs[c] EXCEPT !.op = "exec", !.st = "run", !.tries = 0, !.guarded = TRUE,
                                   !.retried = FALSE, !.reopened = FALSE]
    OBVIOUS
  <2>2. x \in Call /\ x.slot = cs[c].slot /\ x.st = "run" /\ x.guarded
    BY <1>2, <2>1 DEF Call
  <2>3. PICK ds : ds = [cs EXCEPT ![c] = x]
    OBVIOUS
  <2>4. caller' = ds /\ lease' = l
    BY <1>1, <1>2, <1>3, <2>1, <2>3 DEF Settle
  <2>5. Sets(cs, ds, c, x)
    BY <2>3 DEF Sets
  <2>6. Class(x.st) = Class(cs[c].st) /\ x.st # "waiting"
    BY <1>2, <2>2 DEF Class
  <2>7. c \in Session
    BY <1>1, <1>2, <1>3 DEF Leased, Ops, Caller
  <2>8. Leased(l, ds, S) /\ \A d \in Caller : ds[d] = IF d = c THEN x ELSE cs[d]
    BY ONLY <1>2, <2>2, <2>5, <2>6, <2>7, c \in Caller, TurnLeased
  <2>9. ASSUME NEW d \in Session, d # c PROVE Calm(cs[d], ds[d])
    BY <2>8, <2>9 DEF Calm, Caller
  <2>10. QED
    BY <1>1, <1>3, <2>2, <2>4, <2>8, <2>9
<1>4. CASE ~(caller[c].op = "watch" /\ how = "ok")
  <2>1. Release(c, how)
    BY <1>4 DEF Settle
  <2>2. QED
    BY <2>1, ReleaseKeeps
<1>5. QED
  BY <1>3, <1>4

(* An operation ends, and the client has not changed. *)
LEMMA SettledStep ==
    ASSUME Inv, UNCHANGED <<sen, world>>, Leased(lease', caller', 1..sen.pool),
           \A d \in Session : Calm(caller[d], caller'[d])
    PROVE  Inv'
<1>1. PICK s, l, cs, ds : s = sen /\ l = lease /\ cs = caller /\ ds = caller'
  OBVIOUS
<1>2. /\ Sound(s) /\ Leased(l, cs, 1..s.pool) /\ Watched(s, cs)
      /\ \A d \in Session : Calm(cs[d], ds[d])
  BY <1>1 DEF Inv
<1>3. Gentle(s, s)
  BY DEF Gentle
<1>4. Watched(s, ds)
  BY ONLY <1>2, <1>3, CalmWatched
<1>5. QED
  BY <1>1, <1>4, StepKeeps DEF Inv

(* What fails, and what a closing client still answers. *)
LEMMA ThrowKeeps ==
    ASSUME Inv, NEW c \in Caller, Throw(c) \/ DrainedReply(c)
    PROVE  Inv'
<1>1. Class(caller[c].st) = "busy" /\ UNCHANGED <<sen, world>>
  BY DEF Throw, DrainedReply, Class
<1>2. CASE Throw(c)
  <2>1. Settle(c, "failed") /\ "failed" \in {"ok", "failed"}
    BY <1>2 DEF Throw
  <2>2. /\ Leased(lease', caller', 1..sen.pool)
        /\ \A d \in Session : Calm(caller[d], caller'[d])
    BY <1>1, <2>1, SettleKeeps
  <2>3. QED
    BY <1>1, <2>2, SettledStep
<1>3. CASE DrainedReply(c)
  <2>1. Release(c, "ok") /\ "ok" \in {"ok", "failed"}
    BY <1>3 DEF DrainedReply
  <2>2. /\ Leased(lease', caller', 1..sen.pool)
        /\ \A d \in Session : Calm(caller[d], caller'[d])
    BY <1>1, <2>1, ReleaseKeeps
  <2>3. QED
    BY <1>1, <2>2, SettledStep
<1>4. QED
  BY <1>2, <1>3

(* A READONLY error, and what the catch of execute() makes of it. *)
LEMMA RetryKeeps ==
    ASSUME Inv, NEW c \in Caller, ReadOnly(c) \/ Retry(c)
    PROVE  Inv'
<1>1. PICK s, t, cs : s = sen /\ t = sen' /\ cs = caller
  OBVIOUS
<1>2. /\ Sound(s) /\ cs \in [Caller -> Call] /\ cs[c] \in Call /\ world' \in World
      /\ cs[c].st \in {"sent", "error"} /\ UNCHANGED lease
  BY <1>1 DEF Inv, Leased, ReadOnly, Retry
<1>3. Gentle(s, s)
  BY DEF Gentle
<1>4. CASE t = s /\ \E st \in {"error", "throw"} : caller' = [caller EXCEPT ![c].st = st]
  <2>1. PICK st \in {"error", "throw"} : caller' = [caller EXCEPT ![c].st = st]
    BY <1>4
  <2>2. PICK x : x = [cs[c] EXCEPT !.st = st]
    OBVIOUS
  <2>3. x \in Call /\ x.slot = cs[c].slot /\ x.op = cs[c].op /\ x.st = st
    BY <1>2, <2>2 DEF Call
  <2>4. Sets(caller, caller', c, x)
    BY <1>1, <1>2, <2>1, <2>2 DEF Sets
  <2>5. Class(x.st) = Class(cs[c].st) /\ Calm(cs[c], x) /\ x.st # "waiting"
    BY <1>2, <2>3 DEF Class, Calm, Pending
  <2>6. QED
    BY <1>1, <1>2, <1>3, <1>4, <2>3, <2>4, <2>5, TurnKeeps
<1>5. CASE /\ t = Reset(s)
           /\ \E st \in {"run", "await"} :
                caller' = [caller EXCEPT ![c].tries = caller[c].tries + 1, ![c].retried = TRUE,
                                         ![c].st = st]
  <2>1. PICK st \in {"run", "await"} :
                caller' = [caller EXCEPT ![c].tries = caller[c].tries + 1, ![c].retried = TRUE,
                                         ![c].st = st]
    BY <1>5
  <2>2. PICK x : x = [cs[c] EXCEPT !.tries = cs[c].tries + 1, !.retried = TRUE, !.st = st]
    OBVIOUS
  <2>3. x \in Call /\ x.slot = cs[c].slot /\ x.op = cs[c].op /\ x.st = st /\ x.retried
    <3>1. PICK n : n = cs[c].tries + 1
      OBVIOUS
    <3>2. n \in Nat
      BY <1>2, <3>1 DEF Call
    <3>3. x = [cs[c] EXCEPT !.tries = n, !.retried = TRUE, !.st = st]
      BY <2>2, <3>1
    <3>4. QED
      BY <1>2, <3>2, <3>3 DEF Call
  <2>4. Sets(caller, caller', c, x)
    BY <1>1, <1>2, <2>1, <2>2 DEF Sets
  <2>5. Class(x.st) = Class(cs[c].st) /\ Calm(cs[c], x) /\ x.st # "waiting"
    BY <1>2, <2>3 DEF Class, Calm, Pending, Covered
  <2>6. Sound(t) /\ Gentle(s, t)
    BY <1>2, <1>5, ResetKeeps
  <2>7. QED
    BY <1>1, <1>2, <2>3, <2>4, <2>5, <2>6, TurnKeeps
<1>6. CASE ReadOnly(c)
  BY <1>1, <1>4, <1>6 DEF ReadOnly
<1>7. CASE Retry(c)
  <2>1. CASE caller[c].tries + 1 > Max
    BY <1>1, <1>4, <1>7, <2>1 DEF Retry
  <2>2. CASE ~(caller[c].tries + 1 > Max)
    <3>1. PICK st : st = IF Reset(sen).loop = "idle" THEN "run" ELSE "await"
      OBVIOUS
    <3>2. st \in {"run", "await"}
      BY <3>1
    <3>3. /\ t = Reset(s)
          /\ caller' = [caller EXCEPT ![c].tries = caller[c].tries + 1, ![c].retried = TRUE,
                                      ![c].st = st]
      BY <1>1, <1>7, <2>2, <3>1 DEF Retry
    <3>4. QED
      BY <1>5, <3>2, <3>3
  <2>3. QED
    BY <2>1, <2>2
<1>8. QED
  BY <1>6, <1>7

SetsOwn(s, t, k, w) == t = [s EXCEPT !.masters[k].watch = w]

(* The watch of one client of the pool. *)
LEMMA OwnKeeps ==
    ASSUME NEW s, Sound(s), NEW k \in 1..Len(s.masters), NEW w \in {"none", "on", "dirty"},
           NEW t, SetsOwn(s, t, k, w)
    PROVE  /\ Sound(t) /\ t.pool = s.pool /\ s.masters # <<>> /\ t.masters # <<>>
           /\ t.masters[k].watch = w
           /\ \A i \in 1..s.pool : i # k => t.masters[i].watch = s.masters[i].watch
<1>1. PICK q, m : q = s.masters /\ m = [q EXCEPT ![k].watch = w]
  OBVIOUS
<1>2. s \in Client /\ q \in Seq(Master) /\ k \in 1..Len(q) /\ SetsWatch(q, m, k, w)
  BY <1>1 DEF Sound, Client, SetsWatch
<1>3. /\ m \in Seq(Master) /\ Len(m) = Len(q) /\ m[k].watch = w
      /\ \A j \in 1..Len(q) : m[j].node = q[j].node
      /\ \A j \in 1..Len(q) : j # k => m[j].watch = q[j].watch
  BY ONLY <1>2, w \in {"none", "on", "dirty"}, OneWatch
<1>4. SetsMasters(s, t, m)
  BY <1>1, <1>2 DEF SetsOwn, SetsMasters, Client
<1>5. Sound(t) /\ t.masters = m /\ t.pool = s.pool /\ (t.masters = <<>> <=> s.masters = <<>>)
  <2>1. /\ m \in Seq(Master) /\ Len(m) = Len(s.masters)
        /\ \A i \in 1..Len(s.masters) : m[i].node = s.masters[i].node
    BY <1>1, <1>3
  <2>2. QED
    BY ONLY Sound(s), <1>4, <2>1, SetsMastersKeeps
<1>6. q # <<>>
  BY <1>2
<1>7. Len(q) = s.pool
  BY <1>1, <1>6 DEF Sound, Full, Size
<1>8. QED
  BY <1>1, <1>3, <1>5, <1>6, <1>7

(* Who is served has a slot of the pool. *)
LEMMA BusySlot ==
    ASSUME Inv, NEW c \in Caller, Class(caller[c].st) = "busy"
    PROVE  caller[c].slot \in 1..sen.pool
<1>1. PICK l, cs, S : l = lease /\ cs = caller /\ S = 1..sen.pool
  OBVIOUS
<1>2. Leased(l, cs, S) /\ Class(cs[c].st) = "busy"
  BY <1>1 DEF Inv
<1>3. CASE c \in Session
  <2>1. cs[c].slot \in S
    BY ONLY <1>2, <1>3, PendingOwns
  <2>2. QED
    BY <1>1, <2>1
<1>4. CASE c \in Plain
  <2>1. c \in Active(cs) /\ cs[c].st # "waiting"
    BY <1>2, <1>4 DEF Class, Active
  <2>2. cs[c].slot = l.shared /\ l.shared # 0 /\ l.shared \in S \cup {0}
    BY <1>2, <2>1 DEF Leased, Waits, Spread
  <2>3. QED
    BY <1>1, <2>2
<1>5. QED
  BY <1>3, <1>4 DEF Caller

(* A turn of execute(), while the loop runs or to start it. *)
LEMMA AwaitKeeps ==
    ASSUME Inv, NEW c \in Caller, caller[c].st = "run", world' = world, UNCHANGED lease,
           sen' = sen \/ sen' = Reset(sen),
           NEW st \in {"await", "sent"}, caller' = [caller EXCEPT ![c].st = st],
           st = "sent" => caller[c].op # "exec"
    PROVE  Inv'
<1>1. PICK s, t, cs : s = sen /\ t = sen' /\ cs = caller
  OBVIOUS
<1>2. /\ Sound(s) /\ cs \in [Caller -> Call] /\ cs[c] \in Call /\ world' \in World
      /\ t = s \/ t = Reset(s)
  BY <1>1 DEF Inv, Leased
<1>3. PICK x : x = [cs[c] EXCEPT !.st = st]
  OBVIOUS
<1>4. x \in Call /\ x.slot = cs[c].slot /\ x.op = cs[c].op /\ x.st = st
      /\ x.retried = cs[c].retried /\ x.reopened = cs[c].reopened /\ x.guarded = cs[c].guarded
  BY <1>2, <1>3 DEF Call
<1>5. Sets(caller, caller', c, x)
  BY <1>1, <1>2, <1>3 DEF Sets
<1>6. Class(x.st) = Class(cs[c].st) /\ x.st # "waiting"
  BY <1>1, <1>4 DEF Class
<1>7. Calm(cs[c], x)
  BY <1>1, <1>4 DEF Calm, Pending, Covered
<1>8. Gentle(s, s)
  BY DEF Gentle
<1>9. Sound(t) /\ Gentle(s, t)
  BY <1>2, <1>8, ResetKeeps
<1>10. QED
  BY <1>1, <1>2, <1>4, <1>5, <1>6, <1>7, <1>9, TurnKeeps

(* An EXEC finds its client dirty and fails, or is sent under its WATCH.   *)
LEMMA ExecKeeps ==
    ASSUME Inv, NEW c \in Caller, caller[c].st = "run", caller[c].op = "exec",
           UNCHANGED <<world, lease>>, caller[c].slot <= Size(sen),
           sen' = [sen EXCEPT !.masters[caller[c].slot].watch = "none"],
           NEW st \in {"throw", "sent"}, caller' = [caller EXCEPT ![c].st = st],
           st = "sent" => sen.masters[caller[c].slot].watch # "dirty"
    PROVE  Inv'
<1>1. PICK s, t, l, cs, ds, k :
            /\ s = sen /\ t = sen' /\ l = lease /\ cs = caller /\ ds = caller'
            /\ k = caller[c].slot
  OBVIOUS
<1>2. Class(caller[c].st) = "busy"
  BY DEF Class
<1>3. k \in 1..s.pool
  BY <1>1, <1>2, BusySlot
<1>4. /\ Sound(s) /\ s \in Client /\ Leased(l, cs, 1..s.pool) /\ Watched(s, cs) /\ world' \in World
      /\ cs \in [Caller -> Call] /\ cs[c] \in Call /\ Class(cs[c].st) = "busy"
      /\ cs[c].slot = k /\ cs[c].st = "run" /\ cs[c].op = "exec"
  BY <1>1, <1>2 DEF Inv, Leased, Sound
<1>5. k \in 1..Len(s.masters)
  BY <1>1, <1>3, <1>4 DEF Size, Client
<1>6. c \in Session
  BY <1>4 DEF Leased, Ops, Caller
<1>7. SetsOwn(s, t, k, "none") /\ "none" \in {"none", "on", "dirty"}
  BY <1>1 DEF SetsOwn
<1>8. /\ Sound(t) /\ t.pool = s.pool /\ s.masters # <<>> /\ t.masters # <<>>
      /\ \A i \in 1..s.pool : i # cs[c].slot => t.masters[i].watch = s.masters[i].watch
  BY <1>4, <1>5, <1>7, OwnKeeps
<1>9. PICK x : x = [cs[c] EXCEPT !.st = st]
  OBVIOUS
<1>10. x \in Call /\ x.slot = cs[c].slot /\ x.op = cs[c].op /\ x.st = st
      /\ x.retried = cs[c].retried /\ x.reopened = cs[c].reopened /\ x.guarded = cs[c].guarded
  BY <1>4, <1>9 DEF Call
<1>11. Sets(cs, ds, c, x)
  BY <1>1, <1>4, <1>9 DEF Sets
<1>12. Class(x.st) = Class(cs[c].st) /\ x.st # "waiting"
  BY <1>4, <1>10 DEF Class
<1>13. PICK S : S = 1..s.pool
  OBVIOUS
<1>14. Leased(l, cs, S)
  BY <1>4, <1>13
<1>15. Leased(l, ds, S) /\ \A d \in Caller : ds[d] = IF d = c THEN x ELSE cs[d]
  BY <1>10, <1>11, <1>12, <1>14, TurnLeased
<1>16. Owns(cs, c)
  BY <1>4, <1>6 DEF Owns
<1>17. \A d \in Session : d # c => Calm(cs[d], ds[d])
  BY <1>15 DEF Calm, Caller
<1>18. Known(s, cs[c]) \/ ~Covered(cs[c])
  BY <1>4, <1>6 DEF Watched, Pending
<1>19. ASSUME Covered(ds[c]), ds[c].st = "sent" PROVE ds[c].guarded
  <2>1. Covered(cs[c])
    BY <1>10, <1>15, <1>19 DEF Covered
  <2>2. Known(s, cs[c])
    BY <1>18, <2>1
  <2>3. s.masters[k].watch # "dirty"
    BY <1>1, <1>10, <1>15, <1>19
  <2>4. cs[c].guarded
    BY <1>4, <1>8, <2>2, <2>3 DEF Known
  <2>5. QED
    BY <1>10, <1>15, <2>4
<1>20. ~Pending(ds[c])
  BY <1>10, <1>15 DEF Pending
<1>21. Watched(t, ds)
  BY ONLY <1>4, <1>8, <1>16, <1>17, <1>19, <1>20, c \in Caller, OwnWatched
<1>22. QED
  BY <1>1, <1>4, <1>8, <1>13, <1>15, <1>21, StepKeeps

(* One turn of execute(). *)
LEMMA ExecuteKeeps ==
    ASSUME Inv, NEW c \in Caller, Execute(c)
    PROVE  Inv'
<1>1. PICK slot, m : slot = caller[c].slot /\ m = sen.masters[slot]
  OBVIOUS
<1>2. caller[c].st = "run" /\ UNCHANGED world
  BY DEF Execute
<1>3. Class(caller[c].st) = "busy"
  BY <1>2 DEF Class
<1>4. CASE sen.loop = "idle" /\ slot > Size(sen) /\ Settle(c, "failed") /\ UNCHANGED sen
  <2>1. "failed" \in {"ok", "failed"}
    OBVIOUS
  <2>2. /\ Leased(lease', caller', 1..sen.pool)
        /\ \A d \in Session : Calm(caller[d], caller'[d])
    BY <1>3, <1>4, <2>1, SettleKeeps
  <2>3. QED
    BY <1>2, <1>4, <2>2, SettledStep
<1>5. CASE caller' = [caller EXCEPT ![c].st = "await"] /\ UNCHANGED <<sen, lease>>
  BY <1>2, <1>5, AwaitKeeps
<1>6. CASE sen' = Reset(sen) /\ caller' = [caller EXCEPT ![c].st = "await"] /\ UNCHANGED lease
  BY <1>2, <1>6, AwaitKeeps
<1>7. CASE /\ slot <= Size(sen) /\ caller[c].op = "exec"
           /\ sen' = [sen EXCEPT !.masters[slot].watch = "none"]
           /\ caller' = [caller EXCEPT ![c].st = "throw"] /\ UNCHANGED lease
  BY <1>1, <1>2, <1>7, ExecKeeps
<1>8. CASE /\ slot <= Size(sen) /\ ~(caller[c].op = "exec" /\ m.watch = "dirty")
           /\ sen' = IF caller[c].op = "exec" THEN [sen EXCEPT !.masters[slot].watch = "none"] ELSE sen
           /\ caller' = [caller EXCEPT ![c].st = "sent"] /\ UNCHANGED lease
  <2>1. CASE caller[c].op = "exec"
    BY <1>1, <1>2, <1>8, <2>1, ExecKeeps
  <2>2. CASE caller[c].op # "exec"
    BY <1>2, <1>8, <2>2, AwaitKeeps
  <2>3. QED
    BY <2>1, <2>2
<1>9. QED
  BY ONLY Execute(c), <1>1, <1>4, <1>5, <1>6, <1>7, <1>8 DEF Execute

(* The reply ends the operation; that of a WATCH is noted at its client.   *)
LEMMA ReplyKeeps ==
    ASSUME Inv, NEW c \in Caller, Reply(c)
    PROVE  Inv'
<1>1. PICK s, t, l, cs, ds, k :
            /\ s = sen /\ t = sen' /\ l = lease /\ cs = caller /\ ds = caller'
            /\ k = caller[c].slot
  OBVIOUS
<1>2. caller[c].st = "sent" /\ "ok" \in {"ok", "failed"} /\ Settle(c, "ok") /\ UNCHANGED world
  BY DEF Reply
<1>3. Class(caller[c].st) = "busy"
  BY <1>2 DEF Class
<1>4. /\ Leased(lease', caller', 1..sen.pool)
      /\ \A d \in Session : d # c => Calm(caller[d], caller'[d])
      /\ c \in Session =>
            \/ Calm(caller[c], caller'[c])
            \/ /\ caller[c].op = "watch" /\ caller'[c].st = "run"
               /\ caller'[c].slot = caller[c].slot /\ caller'[c].guarded
  BY <1>2, <1>3, SettleKeeps
<1>5. CASE caller[c].op # "watch"
  <2>1. sen' = sen
    BY <1>5 DEF Reply
  <2>2. \A d \in Session : Calm(caller[d], caller'[d])
    BY <1>4, <1>5
  <2>3. QED
    BY <1>2, <1>4, <2>1, <2>2, SettledStep
<1>6. CASE caller[c].op = "watch"
  <2>1. /\ Sound(s) /\ s \in Client /\ Leased(l, cs, 1..s.pool) /\ Watched(s, cs)
        /\ world' \in World /\ cs[c].slot = k /\ Class(cs[c].st) = "busy" /\ cs[c].st = "sent"
        /\ cs[c].op = "watch"
    BY <1>1, <1>2, <1>3, <1>6 DEF Inv, Sound
  <2>2. k \in 1..s.pool
    BY <1>1, <1>3, BusySlot
  <2>3. k \in 1..Len(s.masters)
    BY <1>1, <2>1, <2>2 DEF Size, Client, Reply
  <2>4. c \in Session /\ Owns(cs, c)
    BY <2>1 DEF Leased, Ops, Caller, Owns
  <2>5. /\ Sound(t) /\ t.pool = s.pool /\ s.masters # <<>> /\ t.masters # <<>>
        /\ t.masters[k].watch # "none"
        /\ \A i \in 1..s.pool : i # k => t.masters[i].watch = s.masters[i].watch
    <3>1. CASE s.masters[k].watch = "none"
      <4>1. SetsOwn(s, t, k, "on") /\ "on" \in {"none", "on", "dirty"}
        BY <1>1, <1>6, <3>1 DEF SetsOwn, Reply
      <4>2. /\ Sound(t) /\ t.pool = s.pool /\ s.masters # <<>> /\ t.masters # <<>>
            /\ t.masters[k].watch = "on"
            /\ \A i \in 1..s.pool : i # k => t.masters[i].watch = s.masters[i].watch
        BY <2>1, <2>3, <4>1, OwnKeeps
      <4>3. QED
        BY <4>2
    <3>2. CASE s.masters[k].watch # "none"
      <4>1. t = s
        BY <1>1, <3>2 DEF Reply
      <4>2. s.masters # <<>>
        BY <2>1, <2>3 DEF Client
      <4>3. QED
        BY <2>1, <3>2, <4>1, <4>2
    <3>3. QED
      BY <3>1, <3>2
  <2>6. ASSUME Pending(ds[c]) PROVE Known(t, ds[c])
    <3>1. ~Pending(cs[c])
      BY <2>1 DEF Pending
    <3>2. ds[c].slot = k /\ ds[c].guarded
      BY <1>1, <1>4, <2>4, <2>6, <3>1 DEF Calm
    <3>3. QED
      BY <2>5, <3>2 DEF Known
  <2>7. ASSUME Covered(ds[c]), ds[c].st = "sent" PROVE ds[c].guarded
    <3>1. ~Covered(cs[c])
      BY <2>1 DEF Covered
    <3>2. ~Calm(cs[c], ds[c])
      BY <2>7, <3>1 DEF Calm
    <3>3. QED
      BY <1>1, <1>4, <2>4, <3>2
  <2>8. \A d \in Session : d # c => Calm(cs[d], ds[d])
    BY <1>1, <1>4
  <2>9. \A i \in 1..s.pool : i # cs[c].slot => t.masters[i].watch = s.masters[i].watch
    BY <2>1, <2>5
  <2>10. Watched(t, ds)
    BY ONLY <2>1, <2>4, <2>5, <2>6, <2>7, <2>8, <2>9, c \in Caller, OwnWatched
  <2>11. QED
    BY <1>1, <1>4, <2>1, <2>5, <2>10, StepKeeps
<1>7. QED
  BY <1>5, <1>6

(* The reset is done and the slot goes to the next.                        *)
LEMMA ResetDoneKeeps ==
    ASSUME Inv, NEW c \in Caller, ResetDone(c)
    PROVE  Inv'
<1>1. PICK s, t, l, cs, S, k :
            /\ s = sen /\ t = sen' /\ l = lease /\ cs = caller
            /\ S = 1..sen.pool /\ k = caller[c].slot
  OBVIOUS
<1>2. /\ Sound(s) /\ s \in Client /\ Leased(l, cs, S) /\ Leased(l, cs, 1..s.pool) /\ Watched(s, cs)
      /\ world' \in World /\ S \in SUBSET (Nat \ {0})
      /\ cs \in [Caller -> Call] /\ cs[c] \in Call /\ cs[c].st = "resetting" /\ cs[c].slot = k
      /\ l \in Queue
  BY <1>1, PoolSlots DEF Inv, ResetDone, Sound, Leased
<1>3. Owns(cs, c)
  BY <1>2 DEF Owns
<1>4. PICK x : x = [cs[c] EXCEPT !.st = "over"]
  OBVIOUS
<1>5. x \in Call /\ x.st = "over" /\ x.slot = cs[c].slot /\ x.op = cs[c].op
  BY <1>2, <1>4 DEF Call
<1>6. PICK over : over = [cs EXCEPT ![c] = x]
  OBVIOUS
<1>7. Sets(cs, over, c, x) /\ over = [caller EXCEPT ![c].st = "over"]
      /\ over[c] = x /\ (\A d \in Caller : d # c => over[d] = cs[d])
  BY <1>1, <1>2, <1>4, <1>6 DEF Sets
<1>8. Leased(l, over, S \ {cs[c].slot}) /\ cs[c].slot \in S
  BY ONLY <1>2, <1>3, <1>5, <1>7, c \in Caller, OwnerLeaves
<1>9. PICK T : T = S \ {k}
  OBVIOUS
<1>10. /\ T \in SUBSET (Nat \ {0}) /\ Leased(l, over, T) /\ k \notin T /\ k \in Nat \ {0}
       /\ T \cup {k} = S
  BY <1>2, <1>8, <1>9
<1>11. PICK p : p = Push(l, over, k)
  OBVIOUS
<1>12. Leased(p.l, p.cs, T \cup {k}) /\ \A d \in Caller : Given(over[d], p.cs[d], k)
  BY <1>10, <1>11, PushLeased
<1>13. lease' = p.l /\ caller' = p.cs
  BY <1>1, <1>7, <1>11 DEF ResetDone
<1>14. \A d \in Session : Calm(over[d], p.cs[d])
  BY <1>10, <1>12, GivenCalm DEF Caller
<1>15. \A d \in Session : d # c => Calm(cs[d], p.cs[d])
  BY <1>7, <1>14 DEF Caller
<1>16. ~Pending(over[c]) /\ over[c].st # "sent"
  BY <1>5, <1>7 DEF Pending
<1>17. c \in Session => ~Pending(p.cs[c]) /\ ~(Covered(p.cs[c]) /\ p.cs[c].st = "sent")
  BY <1>14, <1>16 DEF Calm
<1>18. Sound(t) /\ t.pool = s.pool /\ Watched(t, p.cs)
  <2>1. CASE t = s
    <3>1. ~Pending(cs[c]) /\ cs[c].st # "sent"
      BY <1>2 DEF Pending
    <3>2. \A d \in Session : Calm(cs[d], p.cs[d])
      BY <1>15, <1>17, <3>1 DEF Calm
    <3>3. Gentle(s, s)
      BY DEF Gentle
    <3>4. Watched(s, p.cs)
      BY ONLY <1>2, <3>2, <3>3, CalmWatched
    <3>5. QED
      BY <1>2, <2>1, <3>4
  <2>2. CASE k <= Size(s) /\ t = [s EXCEPT !.masters[k].watch = "none"]
    <3>1. k \in 1..Len(s.masters)
      BY <1>2, <1>10, <2>2 DEF Size, Client
    <3>2. SetsOwn(s, t, k, "none") /\ "none" \in {"none", "on", "dirty"}
      BY <2>2 DEF SetsOwn
    <3>3. /\ Sound(t) /\ t.pool = s.pool /\ s.masters # <<>> /\ t.masters # <<>>
          /\ \A i \in 1..s.pool : i # k => t.masters[i].watch = s.masters[i].watch
      BY <1>2, <3>1, <3>2, OwnKeeps
    <3>4. PICK ds : ds = p.cs
      OBVIOUS
    <3>5. \A d \in Session : d # c => Calm(cs[d], ds[d])
      BY <1>15, <3>4
    <3>6. c \in Session => /\ Pending(ds[c]) => Known(t, ds[c])
                           /\ Covered(ds[c]) /\ ds[c].st = "sent" => ds[c].guarded
      BY <1>17, <3>4
    <3>7. \A i \in 1..s.pool : i # cs[c].slot => t.masters[i].watch = s.masters[i].watch
      BY <1>2, <3>3
    <3>8. Watched(t, ds)
      BY ONLY <1>2, <1>3, <3>3, <3>5, <3>6, <3>7, c \in Caller, OwnWatched
    <3>9. QED
      BY <3>3, <3>4, <3>8
  <2>3. QED
    BY <1>1, <2>1, <2>2 DEF ResetDone
<1>19. QED
  BY <1>1, <1>2, <1>10, <1>12, <1>13, <1>18, StepKeeps

(* A call that joins the leases changes no watch. *)
LEMMA JoinStep ==
    ASSUME Inv, UNCHANGED <<sen, world>>, NEW c \in Caller, caller[c].st = "idle",
           NEW x \in Call, x.st \in {"run", "waiting"}, x.op # "exec", Sets(caller, caller', c, x),
           Leased(lease', caller', 1..sen.pool)
    PROVE  Inv'
<1>1. caller' = [caller EXCEPT ![c] = x] /\ caller \in [Caller -> Call]
  BY DEF Sets, Inv, Leased
<1>2. ASSUME NEW d \in Session PROVE Calm(caller[d], caller'[d])
  <2>1. CASE d = c
    <3>1. caller'[d] = x
      BY <1>1, <2>1
    <3>2. QED
      BY <3>1 DEF Calm, Pending, Covered
  <2>2. CASE d # c
    <3>1. caller'[d] = caller[d]
      BY <1>1, <2>2 DEF Caller
    <3>2. QED
      BY <3>1 DEF Calm
  <2>3. QED
    BY <2>1, <2>2
<1>3. QED
  BY <1>2, SettledStep

(* A plain command. *)
LEMMA CommandKeeps ==
    ASSUME Inv, NEW c \in Plain, NEW op \in {"command", "block"}, Command(c, op)
    PROVE  Inv'
<1>1. PICK l, m, cs, ds, S :
            l = lease /\ m = lease' /\ cs = caller /\ ds = caller' /\ S = 1..sen.pool
  OBVIOUS
<1>2. /\ Leased(l, cs, S) /\ S \in SUBSET (Nat \ {0}) /\ l \in Queue /\ cs \in [Caller -> Call]
      /\ cs[c] \in Call /\ cs[c].st = "idle" /\ UNCHANGED <<sen, world>> /\ c \in Caller
  BY <1>1, PoolSlots DEF Inv, Leased, Command, Caller
<1>3. /\ l.free \in Seq(Nat) /\ l.count \in Nat /\ l.shared \in Nat
      /\ l.queue \in Seq(Session \cup {None})
  BY <1>2 DEF Queue
<1>4. l.count + 1 \in Nat
  BY <1>3
<1>5. \E x \in Call :
        /\ Sets(cs, ds, c, x) /\ x.op = op /\ m \in Queue /\ m.lost = l.lost
        /\ m.count = l.count + 1
        /\ Shares(l, m, x) \/ TakesShared(l, m, x) \/ WaitsShared(l, m, x)
  <2>1. CASE l.shared # 0
    <3>1. PICK x : x = [cs[c] EXCEPT !.op = op, !.st = "run", !.slot = l.shared]
      OBVIOUS
    <3>2. x \in Call /\ x.op = op /\ x.st = "run" /\ x.slot = l.shared
      BY <1>2, <1>3, <3>1 DEF Call
    <3>3. ds = [cs EXCEPT ![c] = x] /\ m = [l EXCEPT !.count = l.count + 1]
      BY <1>1, <1>2, <2>1, <3>1 DEF Command
    <3>4. /\ m \in Queue /\ m.lost = l.lost /\ m.count = l.count + 1 /\ m.free = l.free
          /\ m.shared = l.shared /\ m.queue = l.queue
      BY <1>2, <1>4, <3>3 DEF Queue
    <3>5. QED
      BY <2>1, <3>2, <3>3, <3>4 DEF Sets, Shares
  <2>2. CASE l.shared = 0 /\ l.count = 0 /\ l.free # <<>>
    <3>1. PICK h, f : h = Head(l.free) /\ f = Tail(l.free)
      OBVIOUS
    <3>2. h \in Nat /\ f \in Seq(Nat)
      BY <1>3, <2>2, <3>1
    <3>3. PICK x : x = [cs[c] EXCEPT !.op = op, !.st = "run", !.slot = h]
      OBVIOUS
    <3>4. x \in Call /\ x.op = op /\ x.st = "run" /\ x.slot = h
      BY <1>2, <3>2, <3>3 DEF Call
    <3>5. ds = [cs EXCEPT ![c] = x] /\ m = [l EXCEPT !.count = 1, !.shared = h, !.free = f]
      BY <1>1, <1>2, <2>2, <3>1, <3>3 DEF Command
    <3>6. /\ m \in Queue /\ m.lost = l.lost /\ m.count = l.count + 1 /\ m.free = f
          /\ m.shared = h /\ m.queue = l.queue
      <4>1. /\ m \in Queue /\ m.lost = l.lost /\ m.count = 1 /\ m.free = f
            /\ m.shared = h /\ m.queue = l.queue
        BY <1>2, <3>2, <3>5 DEF Queue
      <4>2. l.count + 1 = 1
        BY <2>2
      <4>3. QED
        BY <4>1, <4>2
    <3>7. QED
      BY <2>2, <3>1, <3>4, <3>5, <3>6 DEF Sets, TakesShared
  <2>3. CASE l.shared = 0 /\ ~(l.count = 0 /\ l.free # <<>>)
    <3>1. PICK x : x = [cs[c] EXCEPT !.op = op, !.st = "waiting"]
      OBVIOUS
    <3>2. x \in Call /\ x.op = op /\ x.st = "waiting"
      BY <1>2, <3>1 DEF Call
    <3>3. PICK q : q = IF l.count = 0 THEN Append(l.queue, None) ELSE l.queue
      OBVIOUS
    <3>4. q \in Seq(Session \cup {None})
      <4>1. PICK E : E = Session \cup {None}
        OBVIOUS
      <4>2. l.queue \in Seq(E) /\ None \in E
        BY <1>3, <4>1
      <4>3. QED
        BY <3>3, <4>1, <4>2
    <3>5. ds = [cs EXCEPT ![c] = x] /\ m = [l EXCEPT !.count = l.count + 1, !.queue = q]
      BY <1>1, <1>2, <2>3, <3>1, <3>3 DEF Command
    <3>6. /\ m \in Queue /\ m.lost = l.lost /\ m.count = l.count + 1 /\ m.free = l.free
          /\ m.shared = l.shared /\ m.queue = q
      BY <1>2, <1>4, <3>4, <3>5 DEF Queue
    <3>7. QED
      BY <2>3, <3>2, <3>3, <3>5, <3>6 DEF Sets, WaitsShared
  <2>4. QED
    BY <2>1, <2>2, <2>3
<1>6. PICK x \in Call :
        /\ Sets(cs, ds, c, x) /\ x.op = op /\ m \in Queue /\ m.lost = l.lost
        /\ m.count = l.count + 1
        /\ Shares(l, m, x) \/ TakesShared(l, m, x) \/ WaitsShared(l, m, x)
  BY <1>5
<1>7. Leased(m, ds, S)
  BY ONLY <1>2, <1>6, c \in Plain, op \in {"command", "block"}, x \in Call, PlainJoins
<1>8. x.st \in {"run", "waiting"} /\ x.op # "exec"
  BY <1>6 DEF Shares, TakesShared, WaitsShared
<1>9. QED
  BY <1>1, <1>2, <1>6, <1>7, <1>8, JoinStep

(* A session. *)
LEMMA UseKeeps ==
    ASSUME Inv, NEW c \in Session, Use(c)
    PROVE  Inv'
<1>1. PICK l, m, cs, ds, S :
            l = lease /\ m = lease' /\ cs = caller /\ ds = caller' /\ S = 1..sen.pool
  OBVIOUS
<1>2. /\ Leased(l, cs, S) /\ S \in SUBSET (Nat \ {0}) /\ l \in Queue /\ cs \in [Caller -> Call]
      /\ cs[c] \in Call /\ cs[c].st = "idle" /\ UNCHANGED <<sen, world>> /\ c \in Caller
  BY <1>1, PoolSlots DEF Inv, Leased, Use, Caller
<1>3. l.free \in Seq(Nat) /\ l.queue \in Seq(Session \cup {None})
  BY <1>2 DEF Queue
<1>4. \E x \in Call :
        /\ Sets(cs, ds, c, x) /\ x.op = "watch" /\ m \in Queue /\ m.lost = l.lost
        /\ m.count = l.count /\ m.shared = l.shared
        /\ TakesSlot(l, m, x) \/ WaitsSlot(l, m, x, c)
  <2>1. CASE l.free # <<>>
    <3>1. PICK h, f : h = Head(l.free) /\ f = Tail(l.free)
      OBVIOUS
    <3>2. h \in Nat /\ f \in Seq(Nat)
      BY <1>3, <2>1, <3>1
    <3>3. PICK x : x = [cs[c] EXCEPT !.op = "watch", !.st = "run", !.slot = h]
      OBVIOUS
    <3>4. x \in Call /\ x.op = "watch" /\ x.st = "run" /\ x.slot = h
      BY <1>2, <3>2, <3>3 DEF Call
    <3>5. ds = [cs EXCEPT ![c] = x] /\ m = [l EXCEPT !.free = f]
      BY <1>1, <1>2, <2>1, <3>1, <3>3 DEF Use
    <3>6. /\ m \in Queue /\ m.lost = l.lost /\ m.count = l.count /\ m.free = f
          /\ m.shared = l.shared /\ m.queue = l.queue
      BY <1>2, <3>2, <3>5 DEF Queue
    <3>7. QED
      BY <2>1, <3>1, <3>4, <3>5, <3>6 DEF Sets, TakesSlot
  <2>2. CASE l.free = <<>>
    <3>1. PICK x : x = [cs[c] EXCEPT !.op = "watch", !.st = "waiting"]
      OBVIOUS
    <3>2. x \in Call /\ x.op = "watch" /\ x.st = "waiting"
      BY <1>2, <3>1 DEF Call
    <3>3. PICK q : q = Append(l.queue, c)
      OBVIOUS
    <3>4. q \in Seq(Session \cup {None})
      <4>1. PICK E : E = Session \cup {None}
        OBVIOUS
      <4>2. l.queue \in Seq(E) /\ c \in E
        BY <1>3, <4>1
      <4>3. QED
        BY <3>3, <4>1, <4>2
    <3>5. ds = [cs EXCEPT ![c] = x] /\ m = [l EXCEPT !.queue = q]
      BY <1>1, <1>2, <2>2, <3>1, <3>3 DEF Use
    <3>6. /\ m \in Queue /\ m.lost = l.lost /\ m.count = l.count /\ m.free = l.free
          /\ m.shared = l.shared /\ m.queue = q
      BY <1>2, <3>4, <3>5 DEF Queue
    <3>7. QED
      BY <3>2, <3>3, <3>5, <3>6 DEF Sets, WaitsSlot
  <2>3. QED
    BY <2>1, <2>2
<1>5. PICK x \in Call :
        /\ Sets(cs, ds, c, x) /\ x.op = "watch" /\ m \in Queue /\ m.lost = l.lost
        /\ m.count = l.count /\ m.shared = l.shared
        /\ TakesSlot(l, m, x) \/ WaitsSlot(l, m, x, c)
  BY <1>4
<1>6. Leased(m, ds, S)
  BY ONLY <1>2, <1>5, c \in Session, x \in Call, SessionJoins
<1>7. x.st \in {"run", "waiting"} /\ x.op # "exec"
  BY <1>5 DEF TakesSlot, WaitsSlot
<1>8. QED
  BY <1>1, <1>2, <1>5, <1>6, <1>7, JoinStep

-----------------------------------------------------------------------------
(* The invariant.                                                          *)

(* At first no slot is lent and nobody has called. *)
LEMMA InitInv ==
    ASSUME Init
    PROVE  Inv
<1>1. PICK sc \in Scenario : InitWith(sc)
  BY DEF Init
<1>2. /\ sc.pool \in Nat \ {0} /\ sc.seeds \subseteq Guard /\ FirstMaster \in Node
      /\ sc.guards \subseteq Guard
      /\ Plain \cap Session = {}
  BY <1>1, SentinelAssumption
<1>3. world \in World
  BY <1>1, <1>2 DEF InitWith, World
<1>4. PICK a : a = NothingAwaited
  OBVIOUS
<1>5. a \in Awaits /\ ~a.ctrl /\ ~a.proxy /\ a.slots = {}
  BY <1>4 DEF NothingAwaited, Awaits
<1>6. PICK k, n : k = [st |-> "none", at |-> None] /\ n = NoAnswer
  OBVIOUS
<1>7. k \in Ctrl /\ n \in Answer /\ k.st = "none"
  BY <1>6, NoAnswerType DEF Ctrl
<1>8. <<>> \in Seq(Master)
  OBVIOUS
<1>9. sen = [pool |-> sc.pool, seeds |-> sc.seeds,
              open |-> FALSE, everOpen |-> FALSE, ready |-> FALSE, destroying |-> FALSE,
              loop |-> "idle", initial |-> FALSE, outcome |-> "none",
              count |-> 0, again |-> FALSE, answer |-> n,
              awaits |-> a, roots |-> sc.seeds, ctrl |-> k,
              masters |-> <<>>, proxy |-> "none", timer |-> FALSE,
              teardown |-> "none", draining |-> FALSE]
  BY <1>1, <1>4, <1>6 DEF InitWith
<1>10. sen \in Client
  BY <1>2, <1>5, <1>7, <1>8, <1>9 DEF Client, Stage
<1>11. Sound(sen)
  BY <1>5, <1>7, <1>9, <1>10 DEF Sound, Full, Ended, Quiet, Served, Awaiting
<1>12. PICK S : S = 1..sc.pool
  OBVIOUS
<1>13. PICK f : f = [i \in S |-> i]
  OBVIOUS
<1>14. f \in Seq(Nat) /\ Len(f) = sc.pool /\ \A i \in 1..Len(f) : f[i] = i
  BY <1>2, <1>12, <1>13
<1>15. lease = [free |-> f, queue |-> <<>>, count |-> 0, shared |-> 0, lost |-> {}]
  BY <1>1, <1>12, <1>13 DEF InitWith
<1>16. lease \in Queue
  BY <1>14, <1>15 DEF Queue
<1>17. ASSUME NEW c \in Caller
       PROVE  /\ caller[c] \in Call /\ caller[c].st \in {"idle", "over"} /\ caller[c].op = "none"
  <2>1. PICK st : st = IF c \in sc.callers THEN "idle" ELSE "over"
    OBVIOUS
  <2>2. caller[c] = [st |-> st, op |-> "none", slot |-> 0, tries |-> 0, how |-> "none",
                     guarded |-> FALSE, retried |-> FALSE, reopened |-> FALSE]
    BY <1>1, <2>1 DEF InitWith
  <2>3. st \in {"idle", "over"}
    BY <2>1
  <2>4. QED
    BY <2>2, <2>3 DEF Call
<1>18. caller \in [Caller -> Call]
  BY <1>1, <1>17 DEF InitWith
<1>19. \A c \in Caller : ~Owns(caller, c)
  BY <1>17 DEF Owns
<1>20. Active(caller) = {}
  BY <1>17 DEF Active, Caller
<1>21. Spread(lease, caller, S)
  <2>1. \A i \in 1..Len(f) : f[i] \in S
    BY <1>12, <1>14
  <2>2. \A k1 \in S : Holds(f, k1)
    BY <1>12, <1>14 DEF Holds
  <2>3. \A k1 : ~OwnedAt(caller, k1)
    BY <1>19 DEF OwnedAt
  <2>4. 0 \notin S
    BY <1>2, <1>12
  <2>5. NoRepeat(f)
    BY <1>14 DEF NoRepeat
  <2>6. \A k1 \in S : OneOf(FreeAt(lease, k1), OwnedAt(caller, k1), lease.shared = k1, k1 \in lease.lost)
    BY <1>15, <2>2, <2>3, <2>4 DEF FreeAt, OneOf
  <2>7. QED
    BY <1>15, <1>19, <2>1, <2>5, <2>6 DEF Spread
<1>22. Waits(lease, caller)
  <2>1. Len(<<>>) = 0
    OBVIOUS
  <2>2. \A x : ~Queued(lease, x)
    BY <1>15, <2>1 DEF Queued, Holds
  <2>3. NoRepeat(lease.queue)
    BY <1>15, <2>1 DEF NoRepeat
  <2>4. IsFiniteSet({}) /\ Cardinality({}) = 0
    BY FS_EmptySet
  <2>5. \A c \in Session : caller[c].st # "waiting"
    BY <1>17 DEF Caller
  <2>6. lease.shared = 0 /\ lease.count = 0
    BY <1>15
  <2>7. \A c \in Session : Queued(lease, c) <=> caller[c].st = "waiting"
    BY <2>2, <2>5
  <2>8. Queued(lease, None) <=> lease.shared = 0 /\ lease.count > 0
    BY <2>2, <2>6
  <2>9. IsFiniteSet(Active(caller)) /\ lease.count = Cardinality(Active(caller))
    BY <1>20, <2>4, <2>6
  <2>10. QED
    BY ONLY <1>20, <2>3, <2>7, <2>8, <2>9 DEF Waits
<1>23. Ops(caller)
  BY <1>17 DEF Ops, Caller
<1>24. Watched(sen, caller)
  BY <1>17 DEF Watched, Pending, Covered, Caller
<1>25. sen.pool = sc.pool
  BY <1>9
<1>26. QED
  BY <1>3, <1>11, <1>12, <1>16, <1>18, <1>21, <1>22, <1>23, <1>24, <1>25 DEF Inv, Leased

(* Every step keeps it. *)
LEMMA NextInv ==
    ASSUME Inv, [Next]_vars
    PROVE  Inv'
<1>1. CASE LoopNext
  <2>1. ASSUME NEW i \in 1..sen.pool, MasterConnects(i) \/ MasterFails(i) PROVE Inv'
    BY <2>1, MasterConnectsKeeps, MasterFailsKeeps
  <2>2. QED
    BY <1>1, <2>1, AskKeeps, AnsweredKeeps, OpenedKeeps, WakeKeeps, ConnectsKeeps, CtrlFailsKeeps,
       AsksKeeps, EndsKeeps DEF LoopNext
<1>2. ASSUME NEW c \in Caller, CallerNext(c) PROVE Inv'
  BY <1>2, ExecuteKeeps, ReplyKeeps, RetryKeeps, ThrowKeeps, ResetDoneKeeps DEF CallerNext
<1>3. ASSUME NEW c \in Plain, NEW op \in {"command", "block"}, Command(c, op) PROVE Inv'
  BY <1>3, CommandKeeps
<1>4. ASSUME NEW c \in Session, Use(c) PROVE Inv'
  BY <1>4, UseKeeps
<1>5. CASE Connect \/ Subscribe \/ Scan
  BY <1>5, ConnectKeeps, ConnectsKeeps, AsksKeeps
<1>6. ASSUME NEW kind \in {"close", "destroy"}, Close(kind) PROVE Inv'
  BY <1>6, CloseKeeps
<1>7. CASE \/ Drop
           \/ \E n \in Node : NodeDown(n) \/ Failover(n)
           \/ \E g \in Guard : GuardDown(g)
           \/ \E p \in Node \cup Guard : ComesUp(p)
  BY <1>7, DeploymentKeeps
<1>8. CASE UNCHANGED vars
  BY <1>8 DEF vars, Inv
<1>9. QED
  BY <1>1, <1>2, <1>3, <1>4, <1>5, <1>6, <1>7, <1>8 DEF Next

(* The inductive invariant of the sentinel client. *)
THEOREM SentinelInvariant == Spec => []Inv
<1>1. Init => Inv
  BY InitInv
<1>2. Inv /\ [Next]_vars => Inv'
  BY NextInv
<1>3. QED
  BY <1>1, <1>2, PTL DEF Spec

(* ClosedIsQuiet: a sentinel that ended stays quiet, whatever was in       *)
(* flight when close() or destroy() was called.                            *)
THEOREM EndedStaysQuiet == Spec => []ClosedIsQuiet
<1>1. Inv => ClosedIsQuiet
  BY DEF Inv, Sound, Ended, Quiet, ClosedIsQuiet
<1>2. QED
  BY <1>1, SentinelInvariant, PTL

(* ReadyMeansServed: through failed rounds, coalesced resets and lost      *)
(* control connections, readiness has a pool of one master and a control   *)
(* connection behind it.                                                   *)
THEOREM ReadyIsServed == Spec => []ReadyMeansServed
<1>1. Inv => ReadyMeansServed
  <2>1. SUFFICES ASSUME Inv, sen.ready, sen.loop = "idle", ~sen.destroying
                 PROVE  /\ Size(sen) = sen.pool
                        /\ \A i, j \in 1..Size(sen) : sen.masters[i].node = sen.masters[j].node
                        /\ sen.outcome = "rejected" \/ (~sen.again /\ sen.ctrl.st \in {"connecting", "subscribed"})
    BY DEF ReadyMeansServed
  <2>2. sen.masters # <<>>
    BY <2>1 DEF Inv, Sound, Served
  <2>3. QED
    BY <2>1, <2>2 DEF Inv, Sound, Full, Served, Live
<1>2. QED
  BY <1>1, SentinelInvariant, PTL

(* WatchHonoured: an EXEC that execute() sends the first time, on a client *)
(* that was not connected anew since the WATCH, runs under that WATCH.     *)
THEOREM WatchSurvivesFailover == Spec => []WatchHonoured
<1>1. Inv => WatchHonoured
  BY DEF Inv, Watched, Covered, WatchHonoured
<1>2. QED
  BY <1>1, SentinelInvariant, PTL

(* A set of at most one element.                                           *)
LEMMA AtMostOne ==
    ASSUME NEW T, \A x, y \in T : x = y
    PROVE  Cardinality(T) = IF T = {} THEN 0 ELSE 1
<1>1. CASE T = {}
  BY <1>1, FS_EmptySet
<1>2. CASE T # {}
  <2>1. PICK x : x \in T
    BY <1>2
  <2>2. T = {x}
    BY <2>1
  <2>3. Cardinality({x}) = 1
    BY FS_Singleton
  <2>4. QED
    BY <1>2, <2>2, <2>3
<1>3. QED
  BY <1>1, <1>2

(* LeaseExclusive: the wait queue, the shared lease and the resets lose no *)
(* slot of the pool and lend none twice.                                   *)
THEOREM SlotsExclusive == Spec => []LeaseExclusive
<1>1. ASSUME Inv, NEW slot \in 1..sen.pool
      PROVE  LET places == Cardinality(Holders(slot))
                + Cardinality({i \in DOMAIN lease.free : lease.free[i] = slot})
                + (IF lease.shared = slot THEN 1 ELSE 0)
                + (IF slot \in lease.lost THEN 1 ELSE 0)
                + Cardinality({c \in Plain : caller[c].slot = slot /\ caller[c].st = "resetting"})
             IN  places = 1
  <2>1. PICK l, cs, S : l = lease /\ cs = caller /\ S = 1..sen.pool
    OBVIOUS
  <2>2. Spread(l, cs, S) /\ l.free \in Seq(Nat) /\ slot \in S
    BY <1>1, <2>1 DEF Inv, Leased, Queue
  <2>3. PICK A, B, P : /\ A = Holders(slot)
                       /\ B = {i \in DOMAIN lease.free : lease.free[i] = slot}
                       /\ P = {c \in Plain : caller[c].slot = slot /\ caller[c].st = "resetting"}
    OBVIOUS
  <2>4. \A c : c \in A <=> c \in Session /\ cs[c].slot = slot /\ Owns(cs, c)
    BY <2>1, <2>3 DEF Holders, Owns
  <2>5. \A i : i \in B <=> i \in 1..Len(l.free) /\ l.free[i] = slot
    BY <2>1, <2>2, <2>3
  <2>6. \A c : c \in P <=> c \in Plain /\ cs[c].slot = slot /\ Owns(cs, c)
    <3>1. \A c \in Plain : Owns(cs, c) <=> cs[c].st = "resetting"
      BY SentinelAssumption DEF Owns
    <3>2. QED
      BY <2>1, <2>3, <3>1
  <2>7. \A c, d \in Caller : Owns(cs, c) /\ Owns(cs, d) /\ cs[c].slot = cs[d].slot => c = d
    BY <2>2 DEF Spread
  <2>8. \A x, y \in A : x = y
    BY <2>4, <2>7 DEF Caller
  <2>9. \A x, y \in P : x = y
    BY <2>6, <2>7 DEF Caller
  <2>10. \A x, y \in B : x = y
    BY <2>2, <2>5 DEF Spread, NoRepeat
  <2>11. A # {} => P = {}
    BY <2>4, <2>6, <2>7, SentinelAssumption DEF Caller
  <2>12. FreeAt(l, slot) <=> B # {}
    BY <2>5 DEF FreeAt, Holds
  <2>13. OwnedAt(cs, slot) <=> A # {} \/ P # {}
    BY <2>4, <2>6 DEF OwnedAt, Caller
  <2>14. OneOf(FreeAt(l, slot), OwnedAt(cs, slot), l.shared = slot, slot \in l.lost)
    BY <2>2 DEF Spread
  <2>15. /\ Cardinality(A) = IF A = {} THEN 0 ELSE 1
         /\ Cardinality(B) = IF B = {} THEN 0 ELSE 1
         /\ Cardinality(P) = IF P = {} THEN 0 ELSE 1
    BY ONLY <2>8, <2>9, <2>10, AtMostOne
  <2>16. PICK e, f : /\ e = (IF l.shared = slot THEN 1 ELSE 0)
                     /\ f = (IF slot \in l.lost THEN 1 ELSE 0)
    OBVIOUS
  <2>17. Cardinality(A) + Cardinality(B) + e + f + Cardinality(P) = 1
    <3>1. CASE B # {}
      BY <2>12, <2>13, <2>14, <2>15, <2>16, <3>1 DEF OneOf
    <3>2. CASE A # {} \/ P # {}
      BY <2>11, <2>12, <2>13, <2>14, <2>15, <2>16, <3>2 DEF OneOf
    <3>3. CASE l.shared = slot
      BY <2>12, <2>13, <2>14, <2>15, <2>16, <3>3 DEF OneOf
    <3>4. CASE slot \in l.lost
      BY <2>12, <2>13, <2>14, <2>15, <2>16, <3>4 DEF OneOf
    <3>5. QED
      BY <2>12, <2>13, <2>14, <3>1, <3>2, <3>3, <3>4 DEF OneOf
  <2>18. QED
    BY <2>1, <2>3, <2>16, <2>17
<1>2. Inv => LeaseExclusive
  BY <1>1 DEF LeaseExclusive
<1>3. QED
  BY <1>2, SentinelInvariant, PTL
==============================================================================
