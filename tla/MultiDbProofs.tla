---------------------------- MODULE MultiDbProofs ----------------------------
(***************************************************************************)
(* The multi-database client: what an open gate promises of the active     *)
(* member, what a switch leaves behind, and what becomes of a WATCH        *)
(* session and of the listeners it takes along.                            *)
(***************************************************************************)
EXTENDS MultiDb, TLAPS

Roles == {"ACTIVE", "PASSIVE", "DISCONNECTED"}
Circuit == [open : BOOLEAN, aged : BOOLEAN, probes : Nat]
Loop == [current : BOOLEAN, attempt : Nat]
Move == [from : Database, to : Database, latest : BOOLEAN]
Somewhere == Database \cup {None}
Order == [st : {"new", "sent", "queued", "lost", "done"}, at : Somewhere]
Session ==
    [st : {"idle", "watching", "watched", "unwatching", "multi", "exec"}, at : Somewhere,
     first : BOOLEAN, alive : BOOLEAN, session : BOOLEAN, unguarded : BOOLEAN]
Manager ==
    [dbs : SUBSET Database, active : Database, role : [Database -> Roles],
     circuit : [Database -> Circuit], weight : [Database -> {0, 1}],
     gate : {"open", "searching", "failed"}, inFlight : BOOLEAN, pinned : Somewhere,
     loops : SUBSET Loop, failures : [Database -> Nat], watched : Somewhere, dirty : BOOLEAN,
     everReady : BOOLEAN, torn : BOOLEAN, late : SUBSET Database,
     running : BOOLEAN, timers : SUBSET Database,
     conn : [Database -> {"closed", "down", "ready", "gone"}], cmd : [Command -> Order],
     held : Somewhere, sub : [Database -> BOOLEAN], moves : SUBSET Move,
     leaving : SUBSET Database, listens : BOOLEAN, overtaken : BOOLEAN,
     watch : [Database -> {"none", "live", "dirty"}], tx : Session]

(* The active member is in the set, the guard against a second failover is *)
(* that of the search, and what is not given up is checked.                *)
Served(s) ==
    /\ s.active \in s.dbs
    /\ s.inFlight <=> s.gate = "searching"
    /\ s.everReady /\ ~s.torn /\ s.gate # "failed" => s.running

Behind(s) ==
    /\ \A c \in Command : s.cmd[c].st = "queued" =>
            s.cmd[c].at = s.active /\ s.gate = "open" /\ s.conn[s.cmd[c].at] = "down"
    /\ \A d \in Database : d # s.active => s.failures[d] = 0
    /\ s.pinned \in {None, s.active}
    /\ \A c \in Command : s.cmd[c].st # "new" => s.cmd[c].at # None

(* Unless an UNSUBSCRIBE was overtaken, the listeners are with a member,   *)
(* subscribed there, and the last move brought them.                       *)
Subscribed(s) ==
    /\ s.listens /\ ~s.overtaken => s.held # None
    /\ s.held # None /\ ~s.overtaken => s.sub[s.held] /\ s.held \notin s.leaving
    /\ \A mv \in s.moves : mv.latest =>
            mv.to = s.active /\ mv.from # s.active /\ (~s.overtaken => s.held = mv.to)

Watches(s) ==
    /\ ~s.tx.unguarded
    /\ s.tx.st \in {"watching", "unwatching", "multi", "exec"} => s.tx.at # None
    /\ s.watched # None /\ ~s.dirty => s.watched = s.active
    /\ s.tx.session => s.watched # None
    /\ s.tx.session /\ s.tx.st # "exec" /\ ~s.dirty => s.watch[s.watched] # "none"
    /\ s.tx.st = "watching" =>
        /\ s.watched # None
        /\ ~s.dirty => s.tx.at = s.watched
        /\ s.tx.first => ~s.tx.session

Sound(s) ==
    s.everReady /\ ~s.torn /\ s.gate = "open" =>
        State(s.circuit[s.active]) = "CLOSED" \/ s.active \in s.late

Covered(s, ds) == s.everReady /\ ~s.torn /\ s.gate # "failed" => s.dbs \subseteq s.timers \cup ds

(* What every step of the manager keeps, of whichever of its methods it is *)
(* made.                                                                   *)
Inner(s) == s \in Manager /\ Served(s) /\ Behind(s) /\ Subscribed(s) /\ Watches(s)

(* What is in flight. *)
Tasks ==
    /\ round \in [Database -> {"idle", "round", "stale", "probe"}]
    /\ force \in Somewhere
    /\ est \in [Database -> {"none", "wait", "ok", "bad"}]
    /\ connecting \in BOOLEAN
    /\ adding \in SUBSET Database
    /\ ~connecting => \A d \in Database : est[d] = "none"

(* The inductive invariant. *)
Inv ==
    /\ Inner(mgr)
    /\ Tasks
    /\ ~connecting => Sound(mgr)
    /\ Covered(mgr, adding)

-----------------------------------------------------------------------------
(* The manager's methods. *)

(* A record that differs in its commands and its transaction only, and in  *)
(* the latter by whether its calls still have a connection.                *)
SameButWork(s, t) ==
    /\ t.dbs = s.dbs /\ t.active = s.active /\ t.circuit = s.circuit /\ t.gate = s.gate
    /\ t.inFlight = s.inFlight /\ t.pinned = s.pinned /\ t.failures = s.failures
    /\ t.watched = s.watched /\ t.dirty = s.dirty /\ t.everReady = s.everReady
    /\ t.torn = s.torn /\ t.late = s.late /\ t.running = s.running /\ t.timers = s.timers
    /\ t.conn = s.conn /\ t.held = s.held /\ t.sub = s.sub /\ t.moves = s.moves
    /\ t.leaving = s.leaving /\ t.listens = s.listens /\ t.overtaken = s.overtaken
    /\ t.watch = s.watch
    /\ t.tx.st = s.tx.st /\ t.tx.at = s.tx.at /\ t.tx.first = s.tx.first
    /\ t.tx.session = s.tx.session /\ t.tx.unguarded = s.tx.unguarded

(* Commands are at most given back to their callers. *)
GivesBack(s, t) ==
    \A c \in Command : \/ t.cmd[c] = s.cmd[c]
                       \/ t.cmd[c].st = "lost" /\ t.cmd[c].at # None

(* A member that is down gives back its backlog. *)
LEMMA RejectFields ==
    ASSUME NEW s \in Manager, NEW d \in Database
    PROVE  /\ RejectQueued(s, d) \in Manager
           /\ SameButWork(s, RejectQueued(s, d))
           /\ GivesBack(s, RejectQueued(s, d))
           /\ s.conn[d] # "ready" => \A c \in Command :
                ~(RejectQueued(s, d).cmd[c].st = "queued" /\ RejectQueued(s, d).cmd[c].at = d)
<1> DEFINE t == RejectQueued(s, d)
           m == [c \in Command |-> IF s.cmd[c] = [st |-> "queued", at |-> d]
                                   THEN [st |-> "lost", at |-> d] ELSE s.cmd[c]]
           x == [s.tx EXCEPT !.alive = @ /\ s.tx.at # d]
<1>1. CASE s.conn[d] = "ready"
  BY <1>1 DEF RejectQueued, SameButWork, GivesBack
<1>2. CASE s.conn[d] # "ready"
  <2>1. t = [s EXCEPT !.cmd = m, !.tx = x]
    BY <1>2 DEF RejectQueued, Manager
  <2>2. m \in [Command -> Order] /\ x \in Session
    BY DEF Manager, Order, Session, Somewhere
  <2>3. t \in Manager
    <3> HIDE DEF t, m, x
    <3>1. QED
      BY <2>1, <2>2 DEF Manager
  <2>4. SameButWork(s, t) /\ t.cmd = m
    BY <2>1 DEF Manager, Session, SameButWork
  <2>5. \A c \in Command : /\ m[c] = s.cmd[c] \/ (m[c].st = "lost" /\ m[c].at # None)
                           /\ ~(m[c].st = "queued" /\ m[c].at = d)
    BY MultiDbAssumption DEF Manager, Order
  <2>6. QED
    <3> HIDE DEF m
    <3>1. QED
      BY <2>3, <2>4, <2>5 DEF GivesBack
<1>3. QED
  BY <1>1, <1>2

(* What that leaves untouched. *)
LEMMA WorkFrame ==
    ASSUME NEW s, Inner(s), NEW t \in Manager, SameButWork(s, t), GivesBack(s, t)
    PROVE  /\ Inner(t)
           /\ Sound(s) => Sound(t)
           /\ \A ds : Covered(s, ds) => Covered(t, ds)
<1>1. Served(t) /\ Subscribed(t)
  BY DEF Inner, SameButWork, Served, Subscribed
<1>2. Behind(t)
  BY DEF Inner, SameButWork, GivesBack, Behind
<1>3. Watches(t)
  BY DEF Inner, SameButWork, Watches
<1>4. QED
  BY <1>1, <1>2, <1>3 DEF Inner, SameButWork, Sound, Covered

(* The switch away from the member that was active. *)
LEMMA RepointKeeps ==
    ASSUME NEW s, Inner(s), NEW target \in s.dbs, target # s.active
    PROVE  LET t == Repoint(s, target)
           IN  /\ Inner(t)
               /\ t.active = target /\ t.held = s.held /\ t.pinned \in {None, target}
               /\ t.circuit = s.circuit /\ t.gate = s.gate /\ t.inFlight = s.inFlight
               /\ t.everReady = s.everReady /\ t.torn = s.torn /\ t.late = s.late
               /\ t.timers = s.timers /\ t.dbs = s.dbs /\ t.running = s.running
               /\ \A mv \in t.moves : ~mv.latest
<1> DEFINE from == s.active
           orphan == Orphaned(s, target)
           pinned == IF s.pinned = target THEN s.pinned ELSE None
           role == [d \in Database |-> CASE d = target -> "ACTIVE"
                              [] d = from /\ s.role[d] = "ACTIVE" -> "PASSIVE"
                              [] OTHER -> s.role[d]]
           dirty == s.dirty \/ orphan
           watch == [d \in Database |-> IF orphan /\ d = s.watched /\ s.conn[d] = "ready"
                                        THEN "none" ELSE s.watch[d]]
           moves == {[mv EXCEPT !.latest = FALSE] : mv \in s.moves}
           r == [s EXCEPT !.pinned = pinned, !.active = target, !.role = role,
                          !.failures = NoFailures, !.dirty = dirty, !.watch = watch,
                          !.moves = moves]
           t == RejectQueued(r, from)
<1>1. s \in Manager /\ target \in Database /\ from \in Database
  BY DEF Inner, Manager
<1>2. t = Repoint(s, target)
  BY <1>1 DEF Repoint
<1>3. pinned \in Somewhere /\ pinned \in {None, target}
  BY <1>1 DEF Manager, Somewhere
<1>4. role \in [Database -> Roles]
  BY <1>1 DEF Manager, Roles
<1>5. watch \in [Database -> {"none", "live", "dirty"}] /\ NoFailures \in [Database -> Nat]
  BY <1>1 DEF Manager, NoFailures
<1>6. moves \in SUBSET Move /\ \A mv \in moves : ~mv.latest
  <2>1. \A mv \in Move : /\ [mv EXCEPT !.latest = FALSE] \in Move
                         /\ [mv EXCEPT !.latest = FALSE].latest = FALSE
    BY DEF Move
  <2>2. s.moves \in SUBSET Move
    BY <1>1 DEF Manager
  <2>3. QED
    BY ONLY <2>1, <2>2
<1>7. dirty \in BOOLEAN
  BY <1>1 DEF Manager, Orphaned
<1>8. r \in Manager
  <2> HIDE DEF pinned, role, watch, moves, dirty
  <2>1. QED
    BY <1>1, <1>3, <1>4, <1>5, <1>6, <1>7 DEF Manager
<1>9. /\ r.active = target /\ r.pinned = pinned /\ r.failures = NoFailures /\ r.dirty = dirty
      /\ r.watch = watch /\ r.moves = moves
      /\ r.dbs = s.dbs /\ r.circuit = s.circuit /\ r.gate = s.gate /\ r.inFlight = s.inFlight
      /\ r.watched = s.watched /\ r.everReady = s.everReady /\ r.torn = s.torn
      /\ r.late = s.late /\ r.running = s.running /\ r.timers = s.timers /\ r.conn = s.conn
      /\ r.cmd = s.cmd /\ r.held = s.held /\ r.sub = s.sub /\ r.tx = s.tx
      /\ r.leaving = s.leaving /\ r.listens = s.listens /\ r.overtaken = s.overtaken
  <2> HIDE DEF pinned, role, watch, moves, dirty
  <2>1. QED
    BY <1>1 DEF Manager
<1>10. /\ t \in Manager /\ SameButWork(r, t) /\ GivesBack(r, t)
       /\ r.conn[from] # "ready" => \A c \in Command : ~(t.cmd[c].st = "queued" /\ t.cmd[c].at = from)
  <2> HIDE DEF r, from
  <2>1. QED
    BY <1>1, <1>8, RejectFields
<1> HIDE DEF r, t
<1>11. Served(t)
  BY <1>9, <1>10 DEF Inner, Served, SameButWork
<1>12. Behind(t)
  <2>1. ASSUME NEW c \in Command, t.cmd[c].st = "queued" PROVE FALSE
    <3>1. t.cmd[c] = s.cmd[c]
      BY <1>9, <1>10, <2>1 DEF GivesBack
    <3>2. s.cmd[c].at = from /\ s.conn[from] = "down"
      BY <2>1, <3>1 DEF Inner, Behind
    <3>3. QED
      BY <1>9, <1>10, <2>1, <3>1, <3>2
  <2>2. \A c \in Command : t.cmd[c].st # "new" => t.cmd[c].at # None
    BY <1>9, <1>10 DEF Inner, Behind, GivesBack
  <2>3. \A d \in Database : t.failures[d] = 0
    BY <1>9, <1>10 DEF SameButWork, NoFailures
  <2>4. t.pinned \in {None, t.active}
    BY <1>3, <1>9, <1>10 DEF SameButWork
  <2>5. QED
    BY <2>1, <2>2, <2>3, <2>4 DEF Behind
<1>13. Subscribed(t)
  BY <1>6, <1>9, <1>10 DEF Inner, Subscribed, SameButWork
<1>14. Watches(t)
  <2>1. t.watched # None /\ ~t.dirty => /\ t.watched = target /\ ~s.dirty /\ ~orphan
    BY <1>9, <1>10 DEF SameButWork, Orphaned
  <2>2. ~orphan => watch = s.watch
    BY <1>1 DEF Manager
  <2> HIDE DEF orphan, watch
  <2>3. QED
    BY <1>9, <1>10, <2>1, <2>2 DEF Inner, Watches, SameButWork
<1>15. QED
  BY <1>2, <1>3, <1>6, <1>9, <1>10, <1>11, <1>12, <1>13, <1>14 DEF Inner, SameButWork

(* What becomes of the listeners, with the new fields of the record. *)
SetsListeners(s, t, h, sub, moves, leaving, listens, overtaken) ==
    t = [s EXCEPT !.held = h, !.sub = sub, !.moves = moves, !.leaving = leaving,
                  !.listens = listens, !.overtaken = overtaken]

ListensRight(s, h, sub, moves, leaving, listens, overtaken) ==
    /\ h \in Somewhere /\ sub \in [Database -> BOOLEAN] /\ moves \in SUBSET Move
    /\ leaving \in SUBSET Database /\ listens \in BOOLEAN /\ overtaken \in BOOLEAN
    /\ listens /\ ~overtaken => h # None
    /\ h # None /\ ~overtaken => sub[h] /\ h \notin leaving
    /\ \A mv \in moves : mv.latest =>
            mv.to = s.active /\ mv.from # s.active /\ (~overtaken => h = mv.to)

LEMMA ListenKeeps ==
    ASSUME NEW s, Inner(s), NEW t, NEW h, NEW sub, NEW moves, NEW leaving, NEW listens,
           NEW overtaken, SetsListeners(s, t, h, sub, moves, leaving, listens, overtaken),
           ListensRight(s, h, sub, moves, leaving, listens, overtaken)
    PROVE  /\ Inner(t)
           /\ Sound(s) => Sound(t)
           /\ \A ds : Covered(s, ds) => Covered(t, ds)
           /\ t.active = s.active /\ t.pinned = s.pinned
           /\ t.circuit = s.circuit /\ t.gate = s.gate /\ t.inFlight = s.inFlight
           /\ t.everReady = s.everReady /\ t.torn = s.torn /\ t.late = s.late
           /\ t.timers = s.timers /\ t.dbs = s.dbs /\ t.running = s.running
<1>1. s \in Manager
  BY DEF Inner
<1>2. t \in Manager
  BY <1>1, ZenonT(60) DEF SetsListeners, ListensRight, Manager
<1>3. /\ t.active = s.active /\ t.pinned = s.pinned
      /\ t.circuit = s.circuit /\ t.gate = s.gate /\ t.inFlight = s.inFlight
      /\ t.everReady = s.everReady /\ t.torn = s.torn /\ t.late = s.late
      /\ t.timers = s.timers /\ t.dbs = s.dbs /\ t.running = s.running
      /\ t.held = h /\ t.sub = sub /\ t.moves = moves
      /\ t.leaving = leaving /\ t.listens = listens /\ t.overtaken = overtaken
      /\ t.watched = s.watched /\ t.dirty = s.dirty /\ t.watch = s.watch /\ t.tx = s.tx
      /\ t.cmd = s.cmd /\ t.conn = s.conn /\ t.failures = s.failures
  BY <1>1 DEF SetsListeners, Manager
<1>4. Served(t) /\ Watches(t) /\ Behind(t)
  BY <1>3 DEF Inner, Served, Watches, Behind
<1>5. Subscribed(t)
  BY <1>3 DEF Subscribed, ListensRight
<1>6. (Sound(s) => Sound(t)) /\ \A ds : Covered(s, ds) => Covered(t, ds)
  BY <1>3 DEF Sound, Covered
<1>7. QED
  BY <1>2, <1>3, <1>4, <1>5, <1>6 DEF Inner

(* The fields of the listeners have their types. *)
LEMMA ListenTypes ==
    ASSUME NEW s \in Manager
    PROVE  /\ s.held \in Somewhere /\ s.sub \in [Database -> BOOLEAN]
           /\ s.moves \in SUBSET Move /\ s.leaving \in SUBSET Database
           /\ s.listens \in BOOLEAN /\ s.overtaken \in BOOLEAN
           /\ s.active \in Database /\ None \notin Database
BY MultiDbAssumption DEF Manager

(* The listeners follow. *)
LEMMA MoveKeeps ==
    ASSUME NEW s, Inner(s), NEW from \in Database, NEW to \in Database, from # to,
           s.active = to, \A mv \in s.moves : ~mv.latest
    PROVE  LET t == MovePubSub(s, from, to)
           IN  /\ Inner(t)
               /\ t.active = s.active /\ t.pinned = s.pinned
               /\ t.circuit = s.circuit /\ t.gate = s.gate /\ t.inFlight = s.inFlight
               /\ t.everReady = s.everReady /\ t.torn = s.torn /\ t.late = s.late
               /\ t.timers = s.timers /\ t.dbs = s.dbs /\ t.running = s.running
<1> DEFINE t == MovePubSub(s, from, to)
           mv == [from |-> from, to |-> to, latest |-> TRUE]
<1>1. /\ s \in Manager
      /\ s.held \in Somewhere /\ s.sub \in [Database -> BOOLEAN]
      /\ s.moves \in SUBSET Move /\ s.leaving \in SUBSET Database
      /\ s.listens \in BOOLEAN /\ s.overtaken \in BOOLEAN /\ None \notin Database
  BY ListenTypes DEF Inner
<1>2. CASE s.held # from
  BY <1>2 DEF MovePubSub
<1>3. CASE s.held = from /\ from \in s.leaving
  <2>1. s.overtaken
    BY <1>1, <1>3 DEF Inner, Subscribed
  <2>2. PICK h \in Somewhere, leaving \in SUBSET Database :
          h = None /\ leaving = s.leaving \ {from}
    BY <1>1 DEF Somewhere
  <2>3. t = [s EXCEPT !.held = None, !.leaving = s.leaving \ {from}]
    BY <1>1, <1>3 DEF MovePubSub, Manager
  <2> HIDE DEF t
  <2>4. SetsListeners(s, t, h, s.sub, s.moves, leaving, s.listens, s.overtaken)
    BY <1>1, <2>2, <2>3 DEF SetsListeners, Manager
  <2>5. ListensRight(s, h, s.sub, s.moves, leaving, s.listens, s.overtaken)
    BY <1>1, <2>1, <2>2 DEF ListensRight
  <2>6. QED
    BY ONLY <2>4, <2>5, Inner(s), ListenKeeps DEF t
<1>4. CASE s.held = from /\ from \notin s.leaving
  <2>1. PICK sub \in [Database -> BOOLEAN] : sub = [s.sub EXCEPT ![to] = TRUE]
    BY <1>1
  <2>2. PICK moves \in SUBSET Move : moves = s.moves \cup {mv}
    <3>1. mv \in Move
      BY DEF Move
    <3> HIDE DEF mv
    <3>2. QED
      BY <1>1, <3>1
  <2>3. PICK overtaken \in BOOLEAN : overtaken = (s.overtaken \/ to \in s.leaving)
    OBVIOUS
  <2>4. t = [s EXCEPT !.held = to, !.sub[to] = TRUE,
                      !.overtaken = @ \/ to \in s.leaving, !.moves = @ \cup {mv}]
    BY <1>4 DEF MovePubSub
  <2>5. \A m \in moves : m.latest => m.to = to /\ m.from # to
    BY <2>2
  <2> HIDE DEF t, mv
  <2>6. SetsListeners(s, t, to, sub, moves, s.leaving, s.listens, overtaken)
    BY <1>1, <2>1, <2>2, <2>3, <2>4 DEF SetsListeners, Manager
  <2>7. sub[to] /\ to \in Somewhere /\ to # None /\ (~overtaken => to \notin s.leaving)
    BY <1>1, <2>1, <2>3 DEF Somewhere
  <2>8. ListensRight(s, to, sub, moves, s.leaving, s.listens, overtaken)
    BY <1>1, <2>5, <2>7, s.active = to DEF ListensRight
  <2>9. QED
    BY ONLY <2>6, <2>8, Inner(s), ListenKeeps DEF t
<1>5. QED
  BY <1>2, <1>3, <1>4

(* A switch, to a member of the set. *)
LEMMA SwitchKeeps ==
    ASSUME NEW s, Inner(s), NEW target \in s.dbs
    PROVE  LET t == SwitchTo(s, target)
           IN  /\ Inner(t)
               /\ t.active = target /\ t.pinned \in {None, target}
               /\ t.circuit = s.circuit /\ t.gate = s.gate /\ t.inFlight = s.inFlight
               /\ t.everReady = s.everReady /\ t.torn = s.torn /\ t.late = s.late
               /\ t.timers = s.timers /\ t.dbs = s.dbs /\ t.running = s.running
<1>1. s \in Manager /\ target \in Database /\ s.active \in Database
  BY DEF Inner, Manager
<1>2. CASE target = s.active
  <2> DEFINE t == [s EXCEPT !.role = [s.role EXCEPT ![target] = "ACTIVE"]]
  <2>1. t = SwitchTo(s, target)
    BY <1>1, <1>2 DEF SwitchTo, Manager
  <2>2. [s.role EXCEPT ![target] = "ACTIVE"] \in [Database -> Roles]
    BY <1>1 DEF Manager, Roles
  <2>3. t \in Manager
    BY <1>1, <2>2 DEF Manager
  <2>4. /\ t.active = s.active /\ t.pinned = s.pinned
        /\ t.circuit = s.circuit /\ t.gate = s.gate /\ t.inFlight = s.inFlight
        /\ t.everReady = s.everReady /\ t.torn = s.torn /\ t.late = s.late
        /\ t.timers = s.timers /\ t.dbs = s.dbs /\ t.running = s.running
        /\ t.held = s.held /\ t.sub = s.sub /\ t.moves = s.moves
        /\ t.leaving = s.leaving /\ t.listens = s.listens /\ t.overtaken = s.overtaken
        /\ t.watched = s.watched /\ t.dirty = s.dirty /\ t.watch = s.watch /\ t.tx = s.tx
        /\ t.cmd = s.cmd /\ t.conn = s.conn /\ t.failures = s.failures
    BY <1>1 DEF Manager
  <2> HIDE DEF t
  <2>5. Served(t) /\ Behind(t) /\ Watches(t) /\ Subscribed(t)
    BY <2>4 DEF Inner, Served, Behind, Watches, Subscribed
  <2>6. s.pinned \in {None, target}
    BY <1>2 DEF Inner, Behind
  <2>7. QED
    BY <1>2, <2>1, <2>3, <2>4, <2>5, <2>6 DEF Inner
<1>3. CASE target # s.active
  <2> DEFINE r == Repoint(s, target)
             t == MovePubSub(r, s.active, target)
  <2>1. SwitchTo(s, target) = t
    BY <1>3 DEF SwitchTo
  <2>2. /\ Inner(r)
        /\ r.active = target /\ r.pinned \in {None, target}
        /\ r.circuit = s.circuit /\ r.gate = s.gate /\ r.inFlight = s.inFlight
        /\ r.everReady = s.everReady /\ r.torn = s.torn /\ r.late = s.late
        /\ r.timers = s.timers /\ r.dbs = s.dbs /\ r.running = s.running
        /\ \A mv \in r.moves : ~mv.latest
    BY <1>3, RepointKeeps
  <2> HIDE DEF r
  <2>3. /\ Inner(t)
        /\ t.active = r.active /\ t.pinned = r.pinned
        /\ t.circuit = r.circuit /\ t.gate = r.gate /\ t.inFlight = r.inFlight
        /\ t.everReady = r.everReady /\ t.torn = r.torn /\ t.late = r.late
        /\ t.timers = r.timers /\ t.dbs = r.dbs /\ t.running = r.running
    BY <1>1, <1>3, <2>2, MoveKeeps
  <2>4. QED
    BY ONLY <2>1, <2>2, <2>3
<1>4. QED
  BY <1>2, <1>3

(* The gate is shut, and a search begins. *)
LEMMA StartSearchKeeps ==
    ASSUME NEW s, Inner(s), ~s.torn, s.gate = "open",
           \A c \in Command : s.cmd[c].st # "queued"
    PROVE  /\ Inner(StartSearch(s))
           /\ Sound(StartSearch(s))
           /\ \A ds : Covered(s, ds) => Covered(StartSearch(s), ds)
           /\ StartSearch(s).circuit = s.circuit /\ StartSearch(s).active = s.active
<1> DEFINE loops == Searches(s.loops)
           t == StartSearch(s)
<1>1. s \in Manager
  BY DEF Inner
<1>2. loops \in SUBSET Loop
  <2>1. \A l \in Loop : [l EXCEPT !.current = FALSE] \in Loop
    BY DEF Loop
  <2>2. Searching \in Loop
    BY DEF Searching, Loop
  <2>3. s.loops \in SUBSET Loop
    BY <1>1 DEF Manager
  <2>4. QED
    BY ONLY <2>1, <2>2, <2>3 DEF Searches
<1>3. NoFailures \in [Database -> Nat] /\ \A d \in Database : NoFailures[d] = 0
  BY DEF NoFailures
<1>4. t = [s EXCEPT !.inFlight = TRUE, !.gate = "searching", !.failures = NoFailures, !.loops = loops]
  BY DEF StartSearch
<1> HIDE DEF loops, t
<1>5. t \in Manager
  BY <1>1, <1>2, <1>3, <1>4 DEF Manager
<1>6. /\ t.active = s.active /\ t.pinned = s.pinned
      /\ t.circuit = s.circuit /\ t.gate = "searching" /\ t.inFlight = TRUE
      /\ t.everReady = s.everReady /\ t.torn = s.torn /\ t.late = s.late
      /\ t.timers = s.timers /\ t.dbs = s.dbs /\ t.running = s.running
      /\ t.held = s.held /\ t.sub = s.sub /\ t.moves = s.moves
      /\ t.leaving = s.leaving /\ t.listens = s.listens /\ t.overtaken = s.overtaken
      /\ t.watched = s.watched /\ t.dirty = s.dirty /\ t.watch = s.watch /\ t.tx = s.tx
      /\ t.cmd = s.cmd /\ t.conn = s.conn /\ t.failures = NoFailures
  BY <1>1, <1>4 DEF Manager
<1>7. Served(t) /\ Watches(t) /\ Subscribed(t)
  BY <1>6 DEF Inner, Served, Watches, Subscribed
<1>8. Behind(t)
  BY <1>3, <1>6 DEF Inner, Behind
<1>9. Sound(t) /\ \A ds : Covered(s, ds) => Covered(t, ds)
  BY <1>6 DEF Sound, Covered
<1>10. QED
  BY <1>5, <1>6, <1>7, <1>8, <1>9 DEF Inner, t

(* What a circuit may become. *)
LEMMA CircuitTypes ==
    /\ Shut \in Circuit /\ State(Shut) = "CLOSED"
    /\ \A c \in Circuit, healthy \in BOOLEAN :
        /\ Opened(c) \in Circuit
        /\ Probed(c, healthy) \in Circuit
        /\ State(c) = "CLOSED" => Probed(c, healthy) = c
BY MultiDbAssumption DEF Circuit, Shut, State, Opened, Probed

(* A record with other circuits. *)
LEMMA CircuitKeeps ==
    ASSUME NEW s, Inner(s), NEW c \in [Database -> Circuit]
    PROVE  LET t == [s EXCEPT !.circuit = c]
           IN  /\ Inner(t)
               /\ t.circuit = c /\ t.active = s.active /\ t.gate = s.gate
               /\ t.inFlight = s.inFlight
               /\ t.everReady = s.everReady /\ t.torn = s.torn /\ t.late = s.late
               /\ t.timers = s.timers /\ t.dbs = s.dbs /\ t.running = s.running
               /\ t.conn = s.conn
<1> DEFINE t == [s EXCEPT !.circuit = c]
<1>1. s \in Manager
  BY DEF Inner
<1>2. t \in Manager
  BY <1>1 DEF Manager
<1>3. /\ t.active = s.active /\ t.pinned = s.pinned
      /\ t.circuit = c /\ t.gate = s.gate /\ t.inFlight = s.inFlight
      /\ t.everReady = s.everReady /\ t.torn = s.torn /\ t.late = s.late
      /\ t.timers = s.timers /\ t.dbs = s.dbs /\ t.running = s.running
      /\ t.held = s.held /\ t.sub = s.sub /\ t.moves = s.moves
      /\ t.leaving = s.leaving /\ t.listens = s.listens /\ t.overtaken = s.overtaken
      /\ t.watched = s.watched /\ t.dirty = s.dirty /\ t.watch = s.watch /\ t.tx = s.tx
      /\ t.cmd = s.cmd /\ t.conn = s.conn /\ t.failures = s.failures
  BY <1>1 DEF Manager
<1> HIDE DEF t
<1>4. Served(t) /\ Behind(t) /\ Watches(t) /\ Subscribed(t)
  BY <1>3 DEF Inner, Served, Behind, Watches, Subscribed
<1>5. QED
  BY <1>2, <1>3, <1>4 DEF Inner, t

(* One circuit opens, or is replaced. *)
LEMMA OneCircuit ==
    ASSUME NEW s, Inner(s), NEW d \in Database, NEW c \in Circuit
    PROVE  LET t == [s EXCEPT !.circuit[d] = c]
           IN  /\ Inner(t)
               /\ t.circuit[d] = c /\ \A e \in Database \ {d} : t.circuit[e] = s.circuit[e]
               /\ t.active = s.active /\ t.gate = s.gate /\ t.inFlight = s.inFlight
               /\ t.everReady = s.everReady /\ t.torn = s.torn /\ t.late = s.late
               /\ t.timers = s.timers /\ t.dbs = s.dbs /\ t.running = s.running
               /\ t.conn = s.conn
<1> DEFINE k == [s.circuit EXCEPT ![d] = c]
<1>1. s \in Manager /\ s.circuit \in [Database -> Circuit]
  BY DEF Inner, Manager
<1>2. [s EXCEPT !.circuit[d] = c] = [s EXCEPT !.circuit = k]
  BY <1>1 DEF Manager
<1>3. k \in [Database -> Circuit] /\ k[d] = c /\ \A e \in Database \ {d} : k[e] = s.circuit[e]
  BY <1>1
<1> HIDE DEF k
<1> DEFINE t == [s EXCEPT !.circuit = k]
<1>4. /\ Inner(t)
      /\ t.circuit = k /\ t.active = s.active /\ t.gate = s.gate /\ t.inFlight = s.inFlight
      /\ t.everReady = s.everReady /\ t.torn = s.torn /\ t.late = s.late
      /\ t.timers = s.timers /\ t.dbs = s.dbs /\ t.running = s.running
      /\ t.conn = s.conn
  BY <1>3, CircuitKeeps
<1>5. t = [s EXCEPT !.circuit[d] = c]
  BY <1>2
<1> HIDE DEF t
<1>6. QED
  BY ONLY <1>3, <1>4, <1>5

(* The active member failed: traffic moves to a healthy member, or a       *)
(* search begins; where neither happens, the gate is shut or the client    *)
(* closed.                                                                 *)
LEMMA FailureKeeps ==
    ASSUME NEW s, Inner(s), NEW t \in HandleActiveFailure(s)
    PROVE  /\ Inner(t) /\ Sound(t)
           /\ \A ds : Covered(s, ds) => Covered(t, ds)
<1>1. s \in Manager /\ s.active \in Database /\ s.gate \in {"open", "searching", "failed"}
  BY DEF Inner, Manager
<1>2. CASE s.inFlight \/ s.gate = "failed" \/ s.torn
  <2>1. t = s
    BY <1>2 DEF HandleActiveFailure
  <2>2. s.gate # "open" \/ s.torn
    BY <1>2 DEF Inner, Served
  <2>3. QED
    BY <2>1, <2>2 DEF Sound
<1>3. CASE ~(s.inFlight \/ s.gate = "failed" \/ s.torn)
  <2> DEFINE u == [s EXCEPT !.circuit[s.active] = Opened(@)]
             targets == Selectable(u, u.dbs)
             w == RejectQueued(u, s.active)
  <2>1. t \in IF targets # {} THEN {SwitchTo(u, d) : d \in targets} ELSE {StartSearch(w)}
    BY <1>3 DEF HandleActiveFailure
  <2>2. u = [s EXCEPT !.circuit[s.active] = Opened(s.circuit[s.active])]
    BY <1>1 DEF Manager
  <2>3. Opened(s.circuit[s.active]) \in Circuit
    BY <1>1, CircuitTypes DEF Manager
  <2>4. s.gate = "open" /\ ~s.torn /\ ~s.inFlight
    BY <1>1, <1>3 DEF Inner, Served
  <2> HIDE DEF u
  <2>5. /\ Inner(u)
        /\ u.active = s.active /\ u.gate = s.gate /\ u.inFlight = s.inFlight
        /\ u.everReady = s.everReady /\ u.torn = s.torn /\ u.late = s.late
        /\ u.timers = s.timers /\ u.dbs = s.dbs /\ u.running = s.running
        /\ u.conn = s.conn
    BY <1>1, <2>2, <2>3, OneCircuit
  <2>6. \A ds : Covered(s, ds) => Covered(u, ds)
    BY ONLY <2>5 DEF Covered
  <2>7. CASE targets # {}
    <3>1. PICK d \in targets : t = SwitchTo(u, d)
      BY <2>1, <2>7
    <3>2. d \in u.dbs /\ State(u.circuit[d]) = "CLOSED"
      BY <3>1 DEF Selectable, Healthy
    <3> HIDE DEF targets
    <3>3. /\ Inner(t)
          /\ t.active = d /\ t.circuit = u.circuit /\ t.gate = u.gate /\ t.inFlight = u.inFlight
          /\ t.everReady = u.everReady /\ t.torn = u.torn /\ t.late = u.late
          /\ t.timers = u.timers /\ t.dbs = u.dbs /\ t.running = u.running
      BY <2>5, <3>1, <3>2, SwitchKeeps
    <3>4. QED
      BY <2>6, <3>2, <3>3 DEF Sound, Covered
  <2>8. CASE targets = {}
    <3>1. t = StartSearch(w)
      BY <2>1, <2>8
    <3>2. /\ w \in Manager /\ SameButWork(u, w) /\ GivesBack(u, w)
          /\ u.conn[s.active] # "ready" => \A c \in Command : ~(w.cmd[c].st = "queued" /\ w.cmd[c].at = s.active)
      BY <1>1, <2>5, RejectFields DEF Inner
    <3> HIDE DEF w
    <3>3. Inner(w) /\ \A ds : Covered(u, ds) => Covered(w, ds)
      BY <2>5, <3>2, WorkFrame
    <3>4. \A c \in Command : w.cmd[c].st # "queued"
      BY <2>5, <3>2, <3>3 DEF Inner, Behind, SameButWork
    <3>5. w.gate = "open" /\ ~w.torn
      BY <2>4, <2>5, <3>2 DEF SameButWork
    <3>6. Inner(t) /\ Sound(t) /\ \A ds : Covered(w, ds) => Covered(t, ds)
      BY <3>1, <3>3, <3>4, <3>5, StartSearchKeeps
    <3>7. QED
      BY <2>6, <3>3, <3>6
  <2>9. QED
    BY <2>7, <2>8
<1>4. QED
  BY <1>2, <1>3

(* The outcome of a command reaches the detector. *)
LEMMA ResultKeeps ==
    ASSUME NEW s, Inner(s), NEW ok \in BOOLEAN, NEW source \in Database,
           NEW t \in OnCommandResult(s, ok, source)
    PROVE  /\ Inner(t)
           /\ Sound(s) => Sound(t)
           /\ \A ds : Covered(s, ds) => Covered(t, ds)
<1>1. CASE ok \/ s.gate # "open" \/ source # s.active
  BY <1>1 DEF OnCommandResult
<1>2. CASE ~(ok \/ s.gate # "open" \/ source # s.active)
  <2> DEFINE n == IF s.failures[source] < MinFailures THEN s.failures[source] + 1 ELSE s.failures[source]
             f == [s.failures EXCEPT ![source] = n]
             u == [s EXCEPT !.failures = f]
  <2>1. s \in Manager /\ s.failures \in [Database -> Nat]
    BY DEF Inner, Manager
  <2>2. u = [s EXCEPT !.failures[source] = IF @ < MinFailures THEN @ + 1 ELSE @]
    BY <2>1 DEF Manager
  <2>3. t \in {s, u} \cup HandleActiveFailure(u)
    BY <1>2, <2>2 DEF OnCommandResult
  <2>4. f \in [Database -> Nat] /\ \A d \in Database : d # source => f[d] = s.failures[d]
    BY <2>1
  <2> HIDE DEF u, f, n
  <2>5. u \in Manager
    BY <2>1, <2>4 DEF u, Manager
  <2>6. /\ u.active = s.active /\ u.pinned = s.pinned
        /\ u.circuit = s.circuit /\ u.gate = s.gate /\ u.inFlight = s.inFlight
        /\ u.everReady = s.everReady /\ u.torn = s.torn /\ u.late = s.late
        /\ u.timers = s.timers /\ u.dbs = s.dbs /\ u.running = s.running
        /\ u.held = s.held /\ u.sub = s.sub /\ u.moves = s.moves
        /\ u.leaving = s.leaving /\ u.listens = s.listens /\ u.overtaken = s.overtaken
        /\ u.watched = s.watched /\ u.dirty = s.dirty /\ u.watch = s.watch /\ u.tx = s.tx
        /\ u.cmd = s.cmd /\ u.conn = s.conn /\ u.failures = f
    BY <2>1 DEF u, Manager
  <2>7. Served(u) /\ Subscribed(u) /\ Watches(u)
    BY <2>6 DEF Inner, Served, Subscribed, Watches
  <2>8. Behind(u)
    BY <1>2, <2>4, <2>6 DEF Inner, Behind
  <2>9. Inner(u) /\ (Sound(s) => Sound(u)) /\ \A ds : Covered(s, ds) => Covered(u, ds)
    BY <2>5, <2>6, <2>7, <2>8 DEF Inner, Sound, Covered
  <2>10. CASE t \in HandleActiveFailure(u)
    BY <2>9, <2>10, FailureKeeps
  <2>11. QED
    BY <2>3, <2>9, <2>10
<1>3. QED
  BY <1>1, <1>2

(* A rescue lifts the gate; what it lifts it for is a switch. *)
LEMMA RescueKeeps ==
    ASSUME NEW s, Inner(s)
    PROVE  LET t == Rescue(s)
           IN  /\ Inner(t)
               /\ t.circuit = s.circuit /\ t.active = s.active
               /\ t.everReady = s.everReady /\ t.torn = s.torn /\ t.late = s.late
               /\ t.timers = s.timers /\ t.dbs = s.dbs /\ t.running = s.running
               /\ s.gate # "failed" => t.gate # "failed"
               /\ \A ds : Covered(s, ds) => Covered(t, ds)
<1>1. CASE s.gate # "searching"
  BY <1>1 DEF Rescue
<1>2. CASE s.gate = "searching"
  <2> DEFINE t == [s EXCEPT !.gate = "open", !.inFlight = FALSE]
  <2>1. t = Rescue(s) /\ s \in Manager
    BY <1>2 DEF Rescue, Inner
  <2>2. t \in Manager
    BY <2>1 DEF Manager
  <2>3. /\ t.active = s.active /\ t.pinned = s.pinned
        /\ t.circuit = s.circuit /\ t.gate = "open" /\ t.inFlight = FALSE
        /\ t.everReady = s.everReady /\ t.torn = s.torn /\ t.late = s.late
        /\ t.timers = s.timers /\ t.dbs = s.dbs /\ t.running = s.running
        /\ t.held = s.held /\ t.sub = s.sub /\ t.moves = s.moves
        /\ t.leaving = s.leaving /\ t.listens = s.listens /\ t.overtaken = s.overtaken
        /\ t.watched = s.watched /\ t.dirty = s.dirty /\ t.watch = s.watch /\ t.tx = s.tx
        /\ t.cmd = s.cmd /\ t.conn = s.conn /\ t.failures = s.failures
    BY <2>1 DEF Manager
  <2> HIDE DEF t
  <2>4. Served(t) /\ Behind(t) /\ Watches(t) /\ Subscribed(t)
    BY <1>2, <2>3 DEF Inner, Served, Behind, Watches, Subscribed
  <2>5. \A ds : Covered(s, ds) => Covered(t, ds)
    BY <1>2, <2>3 DEF Covered
  <2>6. QED
    BY ONLY <2>1, <2>2, <2>3, <2>4, <2>5 DEF Inner
<1>3. QED
  BY <1>1, <1>2

(* A connection is lost: for a while, as the member stays, or for good. *)
LEMMA SeveredKeeps ==
    ASSUME NEW s, Inner(s), NEW d \in Database, NEW conn \in {"down", "closed", "gone"},
           conn = "down" => s.conn[d] = "ready"
    PROVE  LET t == Severed(s, d, conn)
           IN  /\ Inner(t)
               /\ t.circuit = s.circuit /\ t.active = s.active /\ t.gate = s.gate
               /\ t.everReady = s.everReady /\ t.torn = s.torn /\ t.late = s.late
               /\ t.timers = s.timers /\ t.dbs = s.dbs /\ t.running = s.running
<1> DEFINE k == [s.conn EXCEPT ![d] = conn]
           sub == [s.sub EXCEPT ![d] = s.held = d]
           watch == [s.watch EXCEPT ![d] = IF @ = "live" THEN "dirty" ELSE @]
           Hit(c) == s.cmd[c].at = d /\ (s.cmd[c].st = "sent" \/ (s.cmd[c].st = "queued" /\ conn # "down"))
           m == [c \in Command |-> IF Hit(c) THEN [st |-> "lost", at |-> d] ELSE s.cmd[c]]
           x == [s.tx EXCEPT !.alive = @ /\ s.tx.at # d]
           leaving == s.leaving \ {d}
           t == [s EXCEPT !.conn = k, !.sub = sub, !.leaving = leaving, !.watch = watch,
                          !.cmd = m, !.tx = x]
<1>1. s \in Manager
  BY DEF Inner
<1>2. t = Severed(s, d, conn)
  BY <1>1 DEF Severed, Manager
<1>3. /\ k \in [Database -> {"closed", "down", "ready", "gone"}] /\ sub \in [Database -> BOOLEAN]
      /\ leaving \in SUBSET Database
  BY <1>1 DEF Manager
<1>4. watch \in [Database -> {"none", "live", "dirty"}]
      /\ \A e \in Database : watch[e] = "none" => s.watch[e] = "none"
  BY <1>1 DEF Manager
<1>5. m \in [Command -> Order] /\ x \in Session
  BY <1>1 DEF Manager, Order, Session, Somewhere
<1>6. /\ x.st = s.tx.st /\ x.at = s.tx.at /\ x.first = s.tx.first
      /\ x.session = s.tx.session /\ x.unguarded = s.tx.unguarded
  BY <1>1 DEF Manager, Session
<1>7. \A e \in Somewhere : e # None /\ s.sub[e] /\ e = s.held => sub[e]
  BY <1>1 DEF Manager, Somewhere
<1>8. \A c \in Command :
        /\ m[c].st = "queued" => m[c] = s.cmd[c] /\ k[m[c].at] = s.conn[m[c].at]
        /\ m[c].st # "new" /\ (s.cmd[c].st # "new" => s.cmd[c].at # None) => m[c].at # None
  <2>1. ASSUME NEW c \in Command, m[c].st = "queued"
        PROVE  m[c] = s.cmd[c] /\ k[m[c].at] = s.conn[m[c].at]
    <3>1. m[c] = s.cmd[c] /\ ~Hit(c) /\ s.cmd[c].st = "queued"
      BY <2>1
    <3>2. s.conn[s.cmd[c].at] = "down" /\ s.cmd[c].at = s.active
      BY <3>1 DEF Inner, Behind
    <3>3. s.cmd[c].at # d
      BY <3>1, <3>2
    <3>4. s.conn \in [Database -> {"closed", "down", "ready", "gone"}] /\ s.cmd[c].at \in Database
      BY <1>1, <3>2 DEF Manager
    <3>5. k[s.cmd[c].at] = s.conn[s.cmd[c].at]
      BY <3>3, <3>4
    <3>6. QED
      BY <3>1, <3>5
  <2>2. \A c \in Command : m[c].st # "new" /\ (s.cmd[c].st # "new" => s.cmd[c].at # None) => m[c].at # None
    BY MultiDbAssumption
  <2>3. QED
    BY <2>1, <2>2
<1> HIDE DEF k, sub, leaving, watch, m, x, t, Hit
<1>9. t \in Manager
  BY <1>1, <1>3, <1>4, <1>5 DEF t, Manager
<1>10. /\ t.active = s.active /\ t.pinned = s.pinned
       /\ t.circuit = s.circuit /\ t.gate = s.gate /\ t.inFlight = s.inFlight
       /\ t.everReady = s.everReady /\ t.torn = s.torn /\ t.late = s.late
       /\ t.timers = s.timers /\ t.dbs = s.dbs /\ t.running = s.running
       /\ t.held = s.held /\ t.sub = sub /\ t.moves = s.moves
       /\ t.leaving = leaving /\ t.listens = s.listens /\ t.overtaken = s.overtaken
       /\ t.watched = s.watched /\ t.dirty = s.dirty /\ t.watch = watch /\ t.tx = x
       /\ t.cmd = m /\ t.conn = k /\ t.failures = s.failures
  BY <1>1 DEF t, Manager
<1>11. Served(t)
  BY <1>10 DEF Inner, Served
<1>12. Subscribed(t)
  <2>1. s.held \in Somewhere
    BY <1>1 DEF Manager
  <2>2. QED
    BY <1>7, <1>10, <2>1 DEF Inner, Subscribed, leaving
<1>13. Behind(t)
  BY <1>8, <1>10 DEF Inner, Behind
<1>14. Watches(t)
  <2>1. s.watched \in Somewhere
    BY <1>1 DEF Manager
  <2>2. QED
    BY <1>4, <1>6, <1>10, <2>1 DEF Inner, Watches, Somewhere
<1>15. QED
  BY ONLY <1>2, <1>9, <1>10, <1>11, <1>12, <1>13, <1>14 DEF Inner

(* A member whose connection has ended for good. *)
LEMMA EndedKeeps ==
    ASSUME NEW s, Inner(s), NEW d \in Database
    PROVE  LET t == Ended(s, d)
           IN  /\ Inner(t)
               /\ \A e \in Database \ {d} : t.circuit[e] = s.circuit[e]
               /\ t.active = s.active /\ t.gate = s.gate
               /\ t.everReady = s.everReady /\ t.torn = s.torn /\ t.late = s.late
               /\ t.timers = s.timers /\ t.dbs = s.dbs /\ t.running = s.running
<1> DEFINE r == [s EXCEPT !.role[d] = "DISCONNECTED"]
           c == Opened(s.circuit[d])
           t == [r EXCEPT !.circuit[d] = c]
<1>1. s \in Manager
  BY DEF Inner
<1>2. t = Ended(s, d)
  BY <1>1 DEF Ended, Manager
<1>3. c \in Circuit
  BY <1>1, CircuitTypes DEF Manager
<1>4. r \in Manager
  BY <1>1 DEF Manager, Roles
<1>5. /\ r.active = s.active /\ r.pinned = s.pinned
      /\ r.circuit = s.circuit /\ r.gate = s.gate /\ r.inFlight = s.inFlight
      /\ r.everReady = s.everReady /\ r.torn = s.torn /\ r.late = s.late
      /\ r.timers = s.timers /\ r.dbs = s.dbs /\ r.running = s.running
      /\ r.held = s.held /\ r.sub = s.sub /\ r.moves = s.moves
      /\ r.leaving = s.leaving /\ r.listens = s.listens /\ r.overtaken = s.overtaken
      /\ r.watched = s.watched /\ r.dirty = s.dirty /\ r.watch = s.watch /\ r.tx = s.tx
      /\ r.cmd = s.cmd /\ r.conn = s.conn /\ r.failures = s.failures
  BY <1>1 DEF Manager
<1> HIDE DEF r, c, t
<1>6. Inner(r)
  BY <1>4, <1>5 DEF Inner, Served, Behind, Watches, Subscribed
<1>7. /\ Inner(t) /\ \A e \in Database \ {d} : t.circuit[e] = r.circuit[e]
      /\ t.active = r.active /\ t.gate = r.gate
      /\ t.everReady = r.everReady /\ t.torn = r.torn /\ t.late = r.late
      /\ t.timers = r.timers /\ t.dbs = r.dbs /\ t.running = r.running
  BY <1>3, <1>6, OneCircuit DEF t
<1>8. QED
  BY ONLY <1>2, <1>5, <1>7

(* A record with the same of everything the invariant speaks of, but for   *)
(* circuits and timers.                                                    *)
Alike(s, t) ==
    /\ t.dbs = s.dbs /\ t.active = s.active /\ t.gate = s.gate
    /\ t.inFlight = s.inFlight /\ t.pinned = s.pinned /\ t.failures = s.failures
    /\ t.watched = s.watched /\ t.dirty = s.dirty /\ t.everReady = s.everReady
    /\ t.torn = s.torn /\ t.running = s.running
    /\ t.conn = s.conn /\ t.held = s.held /\ t.sub = s.sub /\ t.moves = s.moves
    /\ t.leaving = s.leaving /\ t.listens = s.listens /\ t.overtaken = s.overtaken
    /\ t.watch = s.watch /\ t.cmd = s.cmd /\ t.tx = s.tx

(* Circuits and timers are nothing the invariant speaks of. *)
LEMMA AlikeKeeps ==
    ASSUME NEW s, Inner(s), NEW t \in Manager, Alike(s, t)
    PROVE  /\ Inner(t)
           /\ t.circuit = s.circuit /\ s.late \subseteq t.late /\ Sound(s) => Sound(t)
           /\ \A ds : s.timers \subseteq t.timers /\ Covered(s, ds) => Covered(t, ds)
<1>1. Served(t) /\ Behind(t) /\ Subscribed(t) /\ Watches(t)
  BY DEF Inner, Alike, Served, Behind, Subscribed, Watches
<1>2. QED
  BY <1>1 DEF Inner, Alike, Sound, Covered

(* A caller's command changes hands. *)
LEMMA OrderKeeps ==
    ASSUME NEW s, Inner(s), NEW c \in Command, NEW st \in {"sent", "queued", "lost", "done"},
           NEW d \in Database,
           st = "queued" => d = s.active /\ s.gate = "open" /\ s.conn[d] = "down"
    PROVE  LET t == [s EXCEPT !.cmd[c] = [st |-> st, at |-> d]]
           IN  Inner(t) /\ (Sound(s) => Sound(t)) /\ \A ds : Covered(s, ds) => Covered(t, ds)
<1> DEFINE m == [s.cmd EXCEPT ![c] = [st |-> st, at |-> d]]
           t == [s EXCEPT !.cmd = m]
<1>1. s \in Manager
  BY DEF Inner
<1>2. t = [s EXCEPT !.cmd[c] = [st |-> st, at |-> d]]
  BY <1>1 DEF Manager
<1>3. m \in [Command -> Order]
  BY <1>1 DEF Manager, Order, Somewhere
<1>4. \A e \in Command : \/ m[e] = s.cmd[e]
                         \/ m[e].st = st /\ m[e].at = d /\ d # None
  BY <1>1, MultiDbAssumption DEF Manager
<1> HIDE DEF m, t
<1>5. t \in Manager
  BY <1>1, <1>3 DEF t, Manager
<1>6. /\ t.active = s.active /\ t.pinned = s.pinned
      /\ t.circuit = s.circuit /\ t.gate = s.gate /\ t.inFlight = s.inFlight
      /\ t.everReady = s.everReady /\ t.torn = s.torn /\ t.late = s.late
      /\ t.timers = s.timers /\ t.dbs = s.dbs /\ t.running = s.running
      /\ t.held = s.held /\ t.sub = s.sub /\ t.moves = s.moves
      /\ t.leaving = s.leaving /\ t.listens = s.listens /\ t.overtaken = s.overtaken
      /\ t.watched = s.watched /\ t.dirty = s.dirty /\ t.watch = s.watch /\ t.tx = s.tx
      /\ t.cmd = m /\ t.conn = s.conn /\ t.failures = s.failures
  BY <1>1 DEF t, Manager
<1>7. Served(t) /\ Subscribed(t) /\ Watches(t)
  BY <1>6 DEF Inner, Served, Subscribed, Watches
<1>8. Behind(t)
  BY <1>4, <1>6 DEF Inner, Behind
<1>9. (Sound(s) => Sound(t)) /\ \A ds : Covered(s, ds) => Covered(t, ds)
  BY <1>6 DEF Sound, Covered
<1>10. QED
  BY ONLY <1>2, <1>5, <1>7, <1>8, <1>9 DEF Inner

(* The WATCH session and its transaction. *)
SetsSession(s, t, w, dirty, watch, x) ==
    t = [s EXCEPT !.watched = w, !.dirty = dirty, !.watch = watch, !.tx = x]

(* Of all the invariant speaks of, a session changes only its watches. *)
LEMMA SessionKeeps ==
    ASSUME NEW s, Inner(s), NEW w \in Somewhere, NEW dirty \in BOOLEAN,
           NEW watch \in [Database -> {"none", "live", "dirty"}], NEW x \in Session,
           NEW t, SetsSession(s, t, w, dirty, watch, x)
    PROVE  /\ Watches(t) => Inner(t)
           /\ Sound(s) => Sound(t)
           /\ \A ds : Covered(s, ds) => Covered(t, ds)
           /\ t.watched = w /\ t.dirty = dirty /\ t.watch = watch /\ t.tx = x
           /\ t.active = s.active
<1>1. s \in Manager
  BY DEF Inner
<1>2. t \in Manager
  BY <1>1, ZenonT(60) DEF SetsSession, Manager
<1>3. /\ t.active = s.active /\ t.pinned = s.pinned
      /\ t.circuit = s.circuit /\ t.gate = s.gate /\ t.inFlight = s.inFlight
      /\ t.everReady = s.everReady /\ t.torn = s.torn /\ t.late = s.late
      /\ t.timers = s.timers /\ t.dbs = s.dbs /\ t.running = s.running
      /\ t.held = s.held /\ t.sub = s.sub /\ t.moves = s.moves
      /\ t.leaving = s.leaving /\ t.listens = s.listens /\ t.overtaken = s.overtaken
      /\ t.watched = w /\ t.dirty = dirty /\ t.watch = watch /\ t.tx = x
      /\ t.cmd = s.cmd /\ t.conn = s.conn /\ t.failures = s.failures
  BY <1>1 DEF SetsSession, Manager
<1>4. Served(t) /\ Subscribed(t) /\ Behind(t)
  BY <1>3 DEF Inner, Served, Subscribed, Behind
<1>5. (Sound(s) => Sound(t)) /\ \A ds : Covered(s, ds) => Covered(t, ds)
  BY <1>3 DEF Sound, Covered
<1>6. QED
  BY <1>2, <1>3, <1>4, <1>5 DEF Inner

-----------------------------------------------------------------------------
(* The steps. *)

(* A step of the manager alone. *)
Stays(t) ==
    /\ Inner(t)
    /\ Sound(mgr) => Sound(t)
    /\ Covered(mgr, adding) => Covered(t, adding)

(* Where the manager stays sound and no task moves, the invariant stays. *)
LEMMA StepKeeps ==
    ASSUME Inv, Stays(mgr'), UNCHANGED tasks
    PROVE  Inv'
BY DEF Inv, Stays, tasks, Tasks

(* Dispatch *)
LEMMA DispatchStep ==
    ASSUME Inv, NEW c \in Command, Dispatch(c)
    PROVE  Inv'
<1>1. PICK st \in {"sent", "queued", "lost", "done"} :
        /\ mgr' = [mgr EXCEPT !.cmd[c] = [st |-> st, at |-> mgr.active]]
        /\ st = "queued" => mgr.gate = "open" /\ mgr.conn[mgr.active] = "down"
  BY DEF Dispatch
<1>2. Inner(mgr) /\ mgr.active \in Database
  BY DEF Inv, Inner, Manager
<1>3. PICK t : t = [mgr EXCEPT !.cmd[c] = [st |-> st, at |-> mgr.active]]
  OBVIOUS
<1>4. Stays(t)
  BY <1>1, <1>2, <1>3, OrderKeeps DEF Stays
<1>5. QED
  BY <1>1, <1>3, <1>4, StepKeeps DEF Dispatch

(* Settle *)
LEMMA SettleStep ==
    ASSUME Inv, NEW c \in Command, NEW ok \in BOOLEAN, Settle(c, ok)
    PROVE  Inv'
<1>1. PICK d : d = mgr.cmd[c].at
  OBVIOUS
<1>2. Inner(mgr) /\ d \in Database
  <2>1. Inner(mgr) /\ mgr.cmd[c] \in Order /\ mgr.cmd[c].st # "new"
    BY DEF Inv, Inner, Manager, Settle
  <2>2. QED
    BY <1>1, <2>1 DEF Inner, Behind, Order, Somewhere
<1>3. PICK s : s = [mgr EXCEPT !.cmd[c] = [st |-> "done", at |-> d]]
  OBVIOUS
<1>4. Stays(s)
  BY <1>2, <1>3, OrderKeeps DEF Stays
<1>5. mgr' \in OnCommandResult(s, ok, d)
  BY <1>1, <1>3 DEF Settle
<1>6. Stays(mgr')
  BY <1>2, <1>4, <1>5, ResultKeeps DEF Stays
<1>7. QED
  BY <1>6, StepKeeps DEF Settle, tasks

(* Subscribe *)
LEMMA SubscribeStep ==
    ASSUME Inv, Subscribe
    PROVE  Inv'
<1>1. /\ Inner(mgr) /\ mgr \in Manager /\ mgr.sub \in [Database -> BOOLEAN]
      /\ mgr.moves \in SUBSET Move /\ mgr.leaving \in SUBSET Database
      /\ mgr.active \in Database /\ None \notin Database
  BY ListenTypes DEF Inv, Inner
<1>2. PICK sub \in [Database -> BOOLEAN] : sub = [mgr.sub EXCEPT ![mgr.active] = TRUE]
  BY <1>1
<1>3. PICK yes \in BOOLEAN, no \in BOOLEAN, h \in Somewhere :
        yes = TRUE /\ no = FALSE /\ h = mgr.active
  BY <1>1 DEF Somewhere
<1>4. PICK t : t = mgr'
  OBVIOUS
<1>5. SetsListeners(mgr, t, h, sub, mgr.moves, mgr.leaving, yes, no)
  BY <1>1, <1>2, <1>3, <1>4 DEF Subscribe, SetsListeners, Manager
<1>6. h # None /\ sub[h] /\ h \notin mgr.leaving
  BY <1>1, <1>2, <1>3 DEF Subscribe
<1>7. \A mv \in mgr.moves : mv.latest => mv.to = mgr.active /\ mv.from # mgr.active /\ h = mv.to
  BY <1>1, <1>3 DEF Inner, Subscribed
<1>8. ListensRight(mgr, h, sub, mgr.moves, mgr.leaving, yes, no)
  BY <1>1, <1>3, <1>6, <1>7 DEF ListensRight
<1>9. Stays(t)
  BY ONLY <1>1, <1>5, <1>8, ListenKeeps DEF Stays
<1>10. QED
  BY <1>4, <1>9, StepKeeps DEF Subscribe

(* MoveDone.  The channels are taken back from a member the listeners are  *)
(* not with: the last move took them away from it.                         *)
LEMMA MoveDoneStep ==
    ASSUME Inv, NEW mv, MoveDone(mv)
    PROVE  Inv'
<1>1. /\ Inner(mgr) /\ mgr \in Manager /\ mgr.sub \in [Database -> BOOLEAN]
      /\ mgr.held \in Somewhere /\ mgr.moves \in SUBSET Move
      /\ mgr.leaving \in SUBSET Database /\ mgr.listens \in BOOLEAN
      /\ mgr.overtaken \in BOOLEAN
  BY ListenTypes DEF Inv, Inner
<1>2. mv \in mgr.moves /\ mv.from \in Database
  BY <1>1 DEF MoveDone, Move
<1>3. PICK moves : moves = mgr.moves \ {mv}
  OBVIOUS
<1>4. PICK t : t = mgr'
  OBVIOUS
<1>5. PICK over : over = [mgr EXCEPT !.moves = moves]
  OBVIOUS
<1>6. t = over \/ t = Resubscribed(over, mv)
  BY ONLY <1>3, <1>4, <1>5, MoveDone(mv) DEF MoveDone
<1>7. /\ moves \in SUBSET Move
      /\ \A m \in moves : m.latest =>
            m.to = mgr.active /\ m.from # mgr.active /\ (~mgr.overtaken => mgr.held = m.to)
  BY <1>1, <1>3 DEF Inner, Subscribed
<1>8. mgr.listens /\ ~mgr.overtaken => mgr.held # None
  BY <1>1 DEF Inner, Subscribed
<1>9. mgr.held # None /\ ~mgr.overtaken =>
        mgr.held \in Database /\ mgr.sub[mgr.held] /\ mgr.held \notin mgr.leaving
  BY <1>1 DEF Inner, Subscribed, Somewhere
<1>10. CASE t = over
  <2>1. SetsListeners(mgr, t, mgr.held, mgr.sub, moves, mgr.leaving, mgr.listens, mgr.overtaken)
    BY <1>1, <1>5, <1>10 DEF SetsListeners, Manager
  <2>2. ListensRight(mgr, mgr.held, mgr.sub, moves, mgr.leaving, mgr.listens, mgr.overtaken)
    BY <1>1, <1>7, <1>8, <1>9 DEF ListensRight
  <2>3. Stays(t)
    BY ONLY <1>1, <2>1, <2>2, ListenKeeps DEF Stays
  <2>4. QED
    BY <1>4, <2>3, StepKeeps DEF MoveDone, tasks
<1>11. CASE t # over
  <2>1. mv.latest /\ t = [over EXCEPT !.sub[mv.from] = FALSE, !.leaving = @ \cup {mv.from}]
    BY <1>6, <1>11 DEF Resubscribed
  <2>2. PICK sub, leaving : /\ sub = [mgr.sub EXCEPT ![mv.from] = FALSE]
                            /\ leaving = mgr.leaving \cup {mv.from}
    OBVIOUS
  <2>3. SetsListeners(mgr, t, mgr.held, sub, moves, leaving, mgr.listens, mgr.overtaken)
    BY <1>1, <1>5, <2>1, <2>2 DEF SetsListeners, Manager
  <2>4. mgr.held # None /\ ~mgr.overtaken => mgr.held # mv.from
    BY <1>1, <1>2, <2>1 DEF Inner, Subscribed
  <2>5. sub \in [Database -> BOOLEAN] /\ leaving \in SUBSET Database
    BY <1>1, <1>2, <2>2
  <2>6. mgr.held # None /\ ~mgr.overtaken => sub[mgr.held] /\ mgr.held \notin leaving
    BY <1>1, <1>9, <2>2, <2>4
  <2>7. ListensRight(mgr, mgr.held, sub, moves, leaving, mgr.listens, mgr.overtaken)
    BY <1>1, <1>7, <1>8, <2>5, <2>6 DEF ListensRight
  <2>8. Stays(t)
    BY ONLY <1>1, <2>3, <2>7, ListenKeeps DEF Stays
  <2>9. QED
    BY <1>4, <2>8, StepKeeps DEF MoveDone, tasks
<1>12. QED
  BY <1>10, <1>11

(* UnsubscribeReply.  It deletes what is listened to only at a member the  *)
(* listeners have come back to.                                            *)
LEMMA UnsubscribeReplyStep ==
    ASSUME Inv, NEW d \in Database, UnsubscribeReply(d)
    PROVE  Inv'
<1>1. /\ Inner(mgr) /\ mgr \in Manager /\ mgr.sub \in [Database -> BOOLEAN]
      /\ mgr.held \in Somewhere /\ mgr.moves \in SUBSET Move
      /\ mgr.leaving \in SUBSET Database /\ mgr.listens \in BOOLEAN
      /\ mgr.overtaken \in BOOLEAN
  BY ListenTypes DEF Inv, Inner
<1>2. PICK leaving \in SUBSET Database, h \in Somewhere :
        leaving = mgr.leaving \ {d} /\ h = IF mgr.held = d THEN None ELSE mgr.held
  BY <1>1 DEF Somewhere
<1>3. PICK t : t = mgr'
  OBVIOUS
<1>4. SetsListeners(mgr, t, h, mgr.sub, mgr.moves, leaving, mgr.listens, mgr.overtaken)
  BY <1>1, <1>2, <1>3 DEF UnsubscribeReply, SetsListeners, Manager
<1>5. h = mgr.held \/ (h = None /\ mgr.overtaken)
  BY <1>1, <1>2, MultiDbAssumption DEF UnsubscribeReply, Inner, Subscribed
<1>6. ListensRight(mgr, h, mgr.sub, mgr.moves, leaving, mgr.listens, mgr.overtaken)
  BY <1>1, <1>2, <1>5 DEF ListensRight, Inner, Subscribed
<1>7. Stays(t)
  BY ONLY <1>1, <1>4, <1>6, ListenKeeps DEF Stays
<1>8. QED
  BY <1>3, <1>7, StepKeeps DEF UnsubscribeReply, tasks

(* The types of the session. *)
LEMMA SessionTypes ==
    ASSUME Inv
    PROVE  /\ Inner(mgr) /\ mgr \in Manager /\ mgr.tx \in Session /\ mgr.watched \in Somewhere
           /\ mgr.dirty \in BOOLEAN /\ mgr.watch \in [Database -> {"none", "live", "dirty"}]
           /\ mgr.active \in Database /\ None \notin Database
           /\ mgr.tx.st \in {"watching", "unwatching", "multi", "exec"} => mgr.tx.at \in Database
           /\ mgr.tx.session \in BOOLEAN /\ mgr.tx.first \in BOOLEAN
<1>1. mgr \in Manager /\ mgr.tx \in Session
  BY DEF Inv, Inner, Manager
<1>2. mgr.tx.at \in Somewhere /\ mgr.tx.session \in BOOLEAN /\ mgr.tx.first \in BOOLEAN
  BY <1>1 DEF Session
<1>3. QED
  BY <1>1, <1>2, MultiDbAssumption DEF Inv, Inner, Manager, Watches, Somewhere

(* Watch *)
LEMMA WatchStep ==
    ASSUME Inv, Watch
    PROVE  Inv'
<1>1. /\ Inner(mgr) /\ mgr \in Manager /\ mgr.tx \in Session /\ mgr.watched \in Somewhere
      /\ mgr.dirty \in BOOLEAN /\ mgr.watch \in [Database -> {"none", "live", "dirty"}]
      /\ mgr.active \in Database /\ None \notin Database
  BY SessionTypes
<1>2. PICK w, x, first, alive :
        /\ w = IF mgr.watched = None THEN mgr.active ELSE mgr.watched
        /\ first = (mgr.watched = None)
        /\ alive = (mgr.conn[mgr.active] \in {"ready", "down"})
        /\ x = [mgr.tx EXCEPT !.st = "watching", !.at = mgr.active, !.first = first, !.alive = alive]
  OBVIOUS
<1>3. w \in Somewhere /\ first \in BOOLEAN /\ alive \in BOOLEAN /\ mgr.active \in Somewhere
  BY <1>1, <1>2 DEF Somewhere
<1>4. /\ x \in Session
      /\ x.st = "watching" /\ x.at = mgr.active /\ x.first = first
      /\ x.session = mgr.tx.session /\ x.unguarded = mgr.tx.unguarded
  BY <1>1, <1>2, <1>3 DEF Session
<1>5. PICK t : SetsSession(mgr, t, w, mgr.dirty, mgr.watch, x)
  BY DEF SetsSession
<1>6. t = mgr'
  BY <1>1, <1>2, <1>3, <1>5 DEF Watch, Manager, SetsSession
<1>7. /\ Watches(t) => Stays(t)
      /\ t.watched = w /\ t.dirty = mgr.dirty /\ t.watch = mgr.watch /\ t.tx = x
      /\ t.active = mgr.active
  BY <1>1, <1>3, <1>4, <1>5, SessionKeeps DEF Stays
<1>8. Watches(t)
  <2>1. mgr.tx.st # "exec"
    BY DEF Watch
  <2>2. Watches(mgr)
    BY <1>1 DEF Inner
  <2>3. CASE mgr.watched = None
    <3>1. w = mgr.active /\ ~mgr.tx.session /\ w # None
      BY <1>1, <1>2, <2>2, <2>3 DEF Watches
    <3>2. ~x.session /\ ~x.unguarded
      BY <1>4, <2>2, <3>1 DEF Watches
    <3>3. QED
      BY ONLY <1>1, <1>4, <1>7, <3>1, <3>2 DEF Watches
  <2>4. CASE mgr.watched # None
    <3>1. w = mgr.watched /\ ~first
      BY <1>2, <2>4
    <3>2. QED
      BY ONLY <1>1, <1>4, <1>7, <2>1, <2>2, <2>4, <3>1 DEF Watches
  <2>5. QED
    BY <2>3, <2>4
<1>9. QED
  BY <1>6, <1>7, <1>8, StepKeeps DEF Watch

(* WatchReply *)
LEMMA WatchReplyStep ==
    ASSUME Inv, NEW ok \in BOOLEAN, WatchReply(ok)
    PROVE  Inv'
<1>1. /\ Inner(mgr) /\ mgr \in Manager /\ mgr.tx \in Session /\ mgr.watched \in Somewhere
      /\ mgr.dirty \in BOOLEAN /\ mgr.watch \in [Database -> {"none", "live", "dirty"}]
      /\ mgr.active \in Database /\ None \notin Database
      /\ mgr.tx.st \in {"watching", "unwatching", "multi", "exec"} => mgr.tx.at \in Database
      /\ mgr.tx.session \in BOOLEAN /\ mgr.tx.first \in BOOLEAN
  BY SessionTypes
<1>2. mgr.tx.st = "watching" /\ Watches(mgr) /\ UNCHANGED tasks
  BY <1>1 DEF WatchReply, Inner, tasks
<1>3. PICK d : d = mgr.tx.at
  OBVIOUS
<1>4. d \in Database
  BY <1>1, <1>2, <1>3
<1>5. CASE ok
  <2>1. PICK watch, x : /\ watch = [mgr.watch EXCEPT ![d] = IF @ = "none" THEN "live" ELSE @]
                        /\ x = [mgr.tx EXCEPT !.st = "watched", !.session = TRUE]
    OBVIOUS
  <2>2. /\ watch \in [Database -> {"none", "live", "dirty"}] /\ watch[d] # "none"
        /\ \A e \in Database : mgr.watch[e] # "none" => watch[e] # "none"
    BY <1>1, <1>4, <2>1
  <2>3. /\ x \in Session /\ x.st = "watched" /\ x.session = TRUE
        /\ x.unguarded = mgr.tx.unguarded
    BY <1>1, <2>1 DEF Session
  <2>4. PICK t : SetsSession(mgr, t, mgr.watched, mgr.dirty, watch, x)
    BY DEF SetsSession
  <2>5. t = mgr'
    <3>1. mgr' = [mgr EXCEPT !.watch[d] = IF @ = "none" THEN "live" ELSE @,
                             !.tx.st = "watched", !.tx.session = TRUE]
      BY <1>3, <1>5 DEF WatchReply
    <3>2. mgr' = [mgr EXCEPT !.watch = watch, !.tx = x]
      BY <1>1, <2>1, <3>1 DEF Manager
    <3>3. QED
      BY <1>1, <2>4, <3>2 DEF Manager, SetsSession
  <2>6. /\ Watches(t) => Stays(t)
        /\ t.watched = mgr.watched /\ t.dirty = mgr.dirty /\ t.watch = watch /\ t.tx = x
        /\ t.active = mgr.active
    BY <1>1, <2>2, <2>3, <2>4, SessionKeeps DEF Stays
  <2>7. Watches(t)
    BY ONLY <1>2, <1>3, <2>2, <2>3, <2>6 DEF Watches
  <2>8. QED
    BY <1>2, <2>5, <2>6, <2>7, StepKeeps
<1>6. CASE ~ok
  <2>1. PICK x, w, dirty :
            /\ x = [mgr.tx EXCEPT !.st = IF mgr.tx.session THEN "watched" ELSE "idle"]
            /\ w = IF mgr.tx.first THEN None ELSE mgr.watched
            /\ dirty = IF mgr.tx.first THEN FALSE ELSE mgr.dirty
    OBVIOUS
  <2>2. w \in Somewhere /\ dirty \in BOOLEAN
    BY <1>1, <2>1 DEF Somewhere
  <2>3. /\ x \in Session /\ x.st \in {"watched", "idle"} /\ x.session = mgr.tx.session
        /\ x.unguarded = mgr.tx.unguarded
    BY <1>1, <2>1 DEF Session
  <2>4. PICK t : SetsSession(mgr, t, w, dirty, mgr.watch, x)
    BY DEF SetsSession
  <2>5. mgr' \in OnCommandResult(t, FALSE, d)
    <3>1. t = IF mgr.tx.first
              THEN Cleared([mgr EXCEPT !.tx.st = IF mgr.tx.session THEN "watched" ELSE "idle"])
              ELSE [mgr EXCEPT !.tx.st = IF mgr.tx.session THEN "watched" ELSE "idle"]
      BY <1>1, <2>1, <2>4 DEF Cleared, Manager, SetsSession
    <3>2. QED
      BY <1>3, <1>6, <3>1 DEF WatchReply
  <2>6. /\ Watches(t) => Stays(t)
        /\ t.watched = w /\ t.dirty = dirty /\ t.watch = mgr.watch /\ t.tx = x
        /\ t.active = mgr.active
    BY <1>1, <2>2, <2>3, <2>4, SessionKeeps DEF Stays
  <2>7. Watches(t)
    BY ONLY <1>1, <1>2, <2>1, <2>3, <2>6 DEF Watches
  <2>8. Stays(mgr')
    BY <1>4, <2>5, <2>6, <2>7, ResultKeeps DEF Stays
  <2>9. QED
    BY <1>2, <2>8, StepKeeps
<1>7. QED
  BY <1>5, <1>6

(* Unwatch *)
LEMMA UnwatchStep ==
    ASSUME Inv, Unwatch
    PROVE  Inv'
<1>1. /\ Inner(mgr) /\ mgr \in Manager /\ mgr.tx \in Session /\ mgr.watched \in Somewhere
      /\ mgr.dirty \in BOOLEAN /\ mgr.watch \in [Database -> {"none", "live", "dirty"}]
      /\ mgr.active \in Database /\ None \notin Database
  BY SessionTypes
<1>2. PICK x : x = [mgr.tx EXCEPT !.st = "unwatching", !.at = mgr.active]
  OBVIOUS
<1>3. /\ x \in Session /\ x.st = "unwatching" /\ x.at = mgr.active
      /\ x.session = mgr.tx.session /\ x.unguarded = mgr.tx.unguarded
  BY <1>1, <1>2 DEF Session, Somewhere
<1>4. PICK t : SetsSession(mgr, t, mgr.watched, mgr.dirty, mgr.watch, x)
  BY DEF SetsSession
<1>5. t = mgr'
  BY <1>1, <1>2, <1>4 DEF Unwatch, Manager, SetsSession
<1>6. /\ Watches(t) => Stays(t)
      /\ t.watched = mgr.watched /\ t.dirty = mgr.dirty /\ t.watch = mgr.watch /\ t.tx = x
      /\ t.active = mgr.active
  BY <1>1, <1>3, <1>4, SessionKeeps DEF Stays
<1>7. Watches(t)
  <2>1. mgr.tx.st = "watched" /\ Watches(mgr)
    BY <1>1 DEF Unwatch, Inner
  <2>2. QED
    BY ONLY <1>1, <1>3, <1>6, <2>1 DEF Watches
<1>8. QED
  BY <1>5, <1>6, <1>7, StepKeeps DEF Unwatch, tasks

(* UnwatchReply *)
LEMMA UnwatchReplyStep ==
    ASSUME Inv, NEW ok \in BOOLEAN, UnwatchReply(ok)
    PROVE  Inv'
<1>1. /\ Inner(mgr) /\ mgr \in Manager /\ mgr.tx \in Session /\ mgr.watched \in Somewhere
      /\ mgr.dirty \in BOOLEAN /\ mgr.watch \in [Database -> {"none", "live", "dirty"}]
      /\ mgr.active \in Database /\ None \notin Database
      /\ mgr.tx.st \in {"watching", "unwatching", "multi", "exec"} => mgr.tx.at \in Database
  BY SessionTypes
<1>2. mgr.tx.st = "unwatching" /\ Watches(mgr) /\ UNCHANGED tasks
  BY <1>1 DEF UnwatchReply, Inner, tasks
<1>3. PICK d, x, watch : /\ d = mgr.tx.at
                         /\ x = [mgr.tx EXCEPT !.st = "idle", !.session = FALSE]
                         /\ watch = IF ok THEN [mgr.watch EXCEPT ![d] = "none"] ELSE mgr.watch
  OBVIOUS
<1>4. d \in Database
  BY <1>1, <1>2, <1>3
<1>5. watch \in [Database -> {"none", "live", "dirty"}] /\ None \in Somewhere
  BY <1>1, <1>3 DEF Somewhere
<1>6. /\ x \in Session /\ x.st = "idle" /\ x.session = FALSE
      /\ x.unguarded = mgr.tx.unguarded
  BY <1>1, <1>3 DEF Session
<1>7. PICK t, no : no = FALSE /\ SetsSession(mgr, t, None, no, watch, x)
  BY DEF SetsSession
<1>8. IF ok THEN mgr' = t ELSE mgr' \in OnCommandResult(t, FALSE, d)
  <2>1. PICK over : over = [Cleared(mgr) EXCEPT !.tx.st = "idle", !.tx.session = FALSE]
    OBVIOUS
  <2>2. ~ok => t = over
    BY <1>1, <1>3, <1>7, <2>1 DEF Cleared, Manager, SetsSession
  <2>3. ok => t = [over EXCEPT !.watch[d] = "none"]
    BY <1>1, <1>3, <1>7, <2>1 DEF Cleared, Manager, SetsSession
  <2>4. IF ok THEN mgr' = [over EXCEPT !.watch[d] = "none"] ELSE mgr' \in OnCommandResult(over, FALSE, d)
    BY <1>3, <2>1 DEF UnwatchReply
  <2>5. QED
    BY <2>2, <2>3, <2>4
<1>9. /\ Watches(t) => Stays(t)
      /\ t.watched = None /\ t.dirty = no /\ t.watch = watch /\ t.tx = x
      /\ t.active = mgr.active
  <2>1. no \in BOOLEAN
    BY <1>7
  <2>2. QED
    BY <1>1, <1>5, <1>6, <1>7, <2>1, SessionKeeps DEF Stays
<1>10. Watches(t)
  BY ONLY <1>2, <1>6, <1>9 DEF Watches
<1>11. CASE ok
  BY <1>2, <1>8, <1>9, <1>10, <1>11, StepKeeps
<1>12. CASE ~ok
  <2>1. Stays(mgr')
    BY <1>4, <1>8, <1>9, <1>10, <1>12, ResultKeeps DEF Stays
  <2>2. QED
    BY <1>2, <2>1, StepKeeps
<1>13. QED
  BY <1>11, <1>12

(* Multi *)
LEMMA MultiStep ==
    ASSUME Inv, Multi
    PROVE  Inv'
<1>1. /\ Inner(mgr) /\ mgr \in Manager /\ mgr.tx \in Session /\ mgr.watched \in Somewhere
      /\ mgr.dirty \in BOOLEAN /\ mgr.watch \in [Database -> {"none", "live", "dirty"}]
      /\ mgr.active \in Database /\ None \notin Database
  BY SessionTypes
<1>2. PICK x : x = [mgr.tx EXCEPT !.st = "multi", !.at = mgr.active]
  OBVIOUS
<1>3. /\ x \in Session /\ x.st = "multi" /\ x.at = mgr.active
      /\ x.session = mgr.tx.session /\ x.unguarded = mgr.tx.unguarded
  BY <1>1, <1>2 DEF Session, Somewhere
<1>4. PICK t : SetsSession(mgr, t, mgr.watched, mgr.dirty, mgr.watch, x)
  BY DEF SetsSession
<1>5. t = mgr'
  BY <1>1, <1>2, <1>4 DEF Multi, Manager, SetsSession
<1>6. /\ Watches(t) => Stays(t)
      /\ t.watched = mgr.watched /\ t.dirty = mgr.dirty /\ t.watch = mgr.watch /\ t.tx = x
      /\ t.active = mgr.active
  BY <1>1, <1>3, <1>4, SessionKeeps DEF Stays
<1>7. Watches(t)
  <2>1. mgr.tx.st # "exec" /\ Watches(mgr)
    BY <1>1 DEF Multi, Inner
  <2>2. QED
    BY ONLY <1>1, <1>3, <1>6, <2>1 DEF Watches
<1>8. QED
  BY <1>5, <1>6, <1>7, StepKeeps DEF Multi

(* The session is over, and perhaps its WATCH. *)
LEMMA OverKeeps ==
    ASSUME Inv, NEW w \in Somewhere, NEW dirty \in BOOLEAN, NEW t, NEW x,
           (w = None /\ dirty = FALSE) \/ (w = mgr.watched /\ dirty = mgr.dirty),
           x = [mgr.tx EXCEPT !.st = "idle", !.session = FALSE],
           SetsSession(mgr, t, w, dirty, mgr.watch, x)
    PROVE  Stays(t)
<1>1. /\ Inner(mgr) /\ mgr \in Manager /\ mgr.tx \in Session
      /\ mgr.watch \in [Database -> {"none", "live", "dirty"}]
  BY SessionTypes
<1>3. x \in Session /\ x.st = "idle" /\ x.session = FALSE /\ x.unguarded = mgr.tx.unguarded
  BY <1>1 DEF Session
<1>4. /\ Watches(t) => Stays(t)
      /\ t.watched = w /\ t.dirty = dirty /\ t.watch = mgr.watch /\ t.tx = x
      /\ t.active = mgr.active
  BY <1>1, <1>3, SessionKeeps DEF Stays
<1>5. Watches(t)
  <2>1. Watches(mgr)
    BY <1>1 DEF Inner
  <2>2. QED
    BY <1>3, <1>4, <2>1 DEF Watches
<1>6. QED
  BY <1>4, <1>5

(* Exec *)
LEMMA ExecStep ==
    ASSUME Inv, Exec
    PROVE  Inv'
<1>1. /\ Inner(mgr) /\ mgr \in Manager /\ mgr.tx \in Session /\ mgr.watched \in Somewhere
      /\ mgr.dirty \in BOOLEAN /\ mgr.watch \in [Database -> {"none", "live", "dirty"}]
      /\ mgr.active \in Database /\ None \notin Database
  BY SessionTypes
<1>2. PICK x : x = [mgr.tx EXCEPT !.st = "idle", !.session = FALSE]
  OBVIOUS
<1>3. PICK over : over = [mgr EXCEPT !.tx.st = "idle", !.tx.session = FALSE]
  OBVIOUS
<1>4. SetsSession(mgr, over, mgr.watched, mgr.dirty, mgr.watch, x)
  BY <1>1, <1>2, <1>3 DEF Manager, SetsSession
<1>5. PICK no : no = FALSE
  OBVIOUS
<1>6. SetsSession(mgr, Cleared(over), None, no, mgr.watch, x)
  BY <1>1, <1>2, <1>3, <1>5 DEF Manager, SetsSession, Cleared
<1>7. CASE mgr' = over
  <2>1. Stays(over)
    BY <1>1, <1>2, <1>4, OverKeeps
  <2>2. QED
    BY <1>7, <2>1, StepKeeps DEF Exec, tasks
<1>8. CASE mgr' = Cleared(over)
  <2>1. None \in Somewhere /\ no \in BOOLEAN
    BY <1>5 DEF Somewhere
  <2>2. PICK t : t = Cleared(over)
    OBVIOUS
  <2>3. Stays(t)
    BY <1>2, <1>5, <1>6, <2>1, <2>2, OverKeeps
  <2>4. QED
    BY <1>8, <2>2, <2>3, StepKeeps DEF Exec, tasks
<1>9. CASE /\ mgr.gate = "open" /\ ~mgr.dirty /\ mgr.tx.at = mgr.active
           /\ mgr' # over
  <2>1. PICK alive, first, unguarded :
          /\ alive = (mgr.watch[mgr.active] # "dirty" /\ mgr.conn[mgr.active] = "ready")
          /\ first = (mgr.watched = mgr.active)
          /\ unguarded = (mgr.tx.unguarded \/ (mgr.tx.session /\ mgr.watch[mgr.active] = "none"
                                                 /\ mgr.conn[mgr.active] = "ready"))
    OBVIOUS
  <2>2. alive \in BOOLEAN /\ first \in BOOLEAN /\ unguarded \in BOOLEAN
    BY <2>1
  <2>3. PICK y, watch : /\ y = [mgr.tx EXCEPT !.st = "exec", !.alive = alive, !.first = first,
                                              !.unguarded = unguarded]
                        /\ watch = [mgr.watch EXCEPT ![mgr.active] = "none"]
    OBVIOUS
  <2>4. /\ y \in Session /\ y.st = "exec" /\ y.at = mgr.tx.at
        /\ y.session = mgr.tx.session /\ y.unguarded = unguarded
    BY <1>1, <2>2, <2>3 DEF Session
  <2>5. watch \in [Database -> {"none", "live", "dirty"}]
    BY <1>1, <2>3
  <2>6. PICK t : SetsSession(mgr, t, mgr.watched, mgr.dirty, watch, y)
    BY DEF SetsSession
  <2>7. t = mgr'
    <3> DEFINE d == mgr.tx.at
               z == [mgr.tx EXCEPT !.st = "exec",
                        !.alive = mgr.watch[d] # "dirty" /\ mgr.conn[d] = "ready",
                        !.first = mgr.watched = d,
                        !.unguarded = mgr.tx.unguarded \/ (mgr.tx.session /\ mgr.watch[d] = "none"
                                               /\ mgr.conn[d] = "ready")]
    <3>1. mgr' = [mgr EXCEPT !.watch[d] = "none", !.tx = z]
      BY <1>9 DEF Exec
    <3>2. z = y
      BY <1>1, <1>9, <2>1, <2>2, <2>3 DEF Session
    <3> HIDE DEF z
    <3>4. mgr' = [mgr EXCEPT !.watch = watch, !.tx = y]
      BY <1>1, <1>9, <2>3, <3>1, <3>2 DEF Manager
    <3>5. QED
      BY <1>1, <2>6, <3>4 DEF Manager, SetsSession
  <2>8. /\ Watches(t) => Stays(t)
        /\ t.watched = mgr.watched /\ t.dirty = mgr.dirty /\ t.watch = watch /\ t.tx = y
        /\ t.active = mgr.active
    BY <1>1, <2>4, <2>5, <2>6, SessionKeeps DEF Stays
  <2>9. Watches(t)
    <3>1. Watches(mgr) /\ mgr.tx.st = "multi"
      BY <1>1 DEF Inner, Exec
    <3>2. ~unguarded
      BY <1>9, <2>1, <3>1 DEF Watches
    <3>3. QED
      BY ONLY <1>1, <2>4, <2>8, <3>1, <3>2 DEF Watches
  <2>10. QED
    BY <2>7, <2>8, <2>9, StepKeeps DEF Exec, tasks
<1>10. mgr' = over \/ mgr' = Cleared(over)
       \/ (mgr.gate = "open" /\ ~mgr.dirty /\ mgr.tx.at = mgr.active)
  BY <1>3 DEF Exec
<1>11. QED
  BY <1>7, <1>8, <1>9, <1>10

(* ExecReply *)
LEMMA ExecReplyStep ==
    ASSUME Inv, NEW ok \in BOOLEAN, ExecReply(ok)
    PROVE  Inv'
<1>1. /\ Inner(mgr) /\ mgr \in Manager /\ mgr.tx \in Session /\ mgr.watched \in Somewhere
      /\ mgr.dirty \in BOOLEAN /\ mgr.tx.first \in BOOLEAN
      /\ mgr.tx.st \in {"watching", "unwatching", "multi", "exec"} => mgr.tx.at \in Database
  BY SessionTypes
<1>2. mgr.tx.at \in Database
  BY <1>1 DEF ExecReply
<1>3. PICK x, over : /\ x = [mgr.tx EXCEPT !.st = "idle", !.session = FALSE]
                     /\ over = [mgr EXCEPT !.tx.st = "idle", !.tx.session = FALSE]
  OBVIOUS
<1>4. PICK w, dirty, t : /\ w = IF mgr.tx.first THEN None ELSE mgr.watched
                         /\ dirty = IF mgr.tx.first THEN FALSE ELSE mgr.dirty
                         /\ t = IF mgr.tx.first THEN Cleared(over) ELSE over
  OBVIOUS
<1>5. w \in Somewhere /\ dirty \in BOOLEAN
  BY <1>1, <1>4 DEF Somewhere
<1>6. SetsSession(mgr, t, w, dirty, mgr.watch, x)
  BY <1>1, <1>3, <1>4 DEF Manager, SetsSession, Cleared
<1>7. Stays(t)
  BY <1>1, <1>3, <1>4, <1>5, <1>6, OverKeeps
<1>8. mgr' \in OnCommandResult(t, ok, mgr.tx.at)
  BY <1>3, <1>4 DEF ExecReply
<1>9. Stays(mgr')
  BY <1>2, <1>7, <1>8, ResultKeeps DEF Stays
<1>10. QED
  BY <1>9, StepKeeps DEF ExecReply, tasks

(* MemberReady *)
LEMMA MemberReadyStep ==
    ASSUME Inv, NEW d \in Database, MemberReady(d)
    PROVE  Inv'
<1>1. Inner(mgr) /\ mgr \in Manager
  BY DEF Inv, Inner
<1>2. PICK conn, role, m :
        /\ conn = [mgr.conn EXCEPT ![d] = "ready"]
        /\ role = [mgr.role EXCEPT ![d] = IF @ = "DISCONNECTED" THEN "PASSIVE" ELSE @]
        /\ m = [c \in Command |-> IF mgr.cmd[c] = [st |-> "queued", at |-> d]
                                  THEN [st |-> "sent", at |-> d] ELSE mgr.cmd[c]]
  OBVIOUS
<1>3. conn \in [Database -> {"closed", "down", "ready", "gone"}] /\ role \in [Database -> Roles]
  BY <1>1, <1>2 DEF Manager, Roles
<1>4. m \in [Command -> Order]
  BY <1>1, <1>2 DEF Manager, Order, Somewhere
<1>5. \A c \in Command :
        /\ m[c].st = "queued" => m[c] = mgr.cmd[c] /\ conn[m[c].at] = mgr.conn[m[c].at]
        /\ m[c].st # "new" /\ (mgr.cmd[c].st # "new" => mgr.cmd[c].at # None) => m[c].at # None
  <2>1. \A c \in Command : m[c].st = "queued" => m[c] = mgr.cmd[c] /\ mgr.cmd[c].at # d
    BY <1>1, <1>2 DEF Manager, Order
  <2>2. \A e : e # d /\ e \in Database => conn[e] = mgr.conn[e]
    BY <1>1, <1>2 DEF Manager
  <2>3. \A c \in Command : mgr.cmd[c].st = "queued" => mgr.cmd[c].at \in Database
    BY <1>1 DEF Inner, Manager, Behind
  <2>4. \A c \in Command : m[c] = mgr.cmd[c] \/ m[c].at # None
    BY <1>2, MultiDbAssumption
  <2>5. QED
    BY <2>1, <2>2, <2>3, <2>4
<1>6. PICK t : t = [mgr EXCEPT !.conn = conn, !.role = role, !.cmd = m]
  OBVIOUS
<1>7. t = mgr'
  BY <1>1, <1>2, <1>6 DEF MemberReady, Manager
<1>8. t \in Manager
  BY <1>1, <1>3, <1>4, <1>6 DEF Manager
<1>9. /\ t.active = mgr.active /\ t.pinned = mgr.pinned
      /\ t.circuit = mgr.circuit /\ t.gate = mgr.gate /\ t.inFlight = mgr.inFlight
      /\ t.everReady = mgr.everReady /\ t.torn = mgr.torn /\ t.late = mgr.late
      /\ t.timers = mgr.timers /\ t.dbs = mgr.dbs /\ t.running = mgr.running
      /\ t.held = mgr.held /\ t.sub = mgr.sub /\ t.moves = mgr.moves
      /\ t.leaving = mgr.leaving /\ t.listens = mgr.listens /\ t.overtaken = mgr.overtaken
      /\ t.watched = mgr.watched /\ t.dirty = mgr.dirty /\ t.watch = mgr.watch /\ t.tx = mgr.tx
      /\ t.cmd = m /\ t.conn = conn /\ t.failures = mgr.failures
  BY <1>1, <1>6 DEF Manager
<1>10. Served(t) /\ Subscribed(t) /\ Watches(t)
  BY <1>1, <1>9 DEF Inner, Served, Subscribed, Watches
<1>11. Behind(t)
  BY <1>1, <1>5, <1>9 DEF Inner, Behind
<1>12. Stays(t)
  BY <1>8, <1>9, <1>10, <1>11 DEF Stays, Inner, Sound, Covered
<1>13. QED
  BY <1>7, <1>12, StepKeeps DEF MemberReady

(* MemberDrops *)
LEMMA MemberDropsStep ==
    ASSUME Inv, NEW d \in Database, MemberDrops(d)
    PROVE  Inv'
<1>1. Inner(mgr) /\ mgr.conn[d] = "ready"
  BY DEF Inv, MemberDrops
<1>2. PICK s : s = Severed(mgr, d, "down")
  OBVIOUS
<1>3. Stays(s)
  BY <1>1, <1>2, SeveredKeeps DEF Stays, Sound, Covered
<1>4. Stays(mgr')
  BY <1>2, <1>3, ResultKeeps DEF Stays, MemberDrops
<1>5. QED
  BY <1>4, StepKeeps DEF MemberDrops

(* MemberErrs *)
LEMMA MemberErrsStep ==
    ASSUME Inv, NEW d \in Database, MemberErrs(d)
    PROVE  Inv'
<1>1. Stays(mgr')
  BY ResultKeeps DEF Inv, Stays, MemberErrs
<1>2. QED
  BY <1>1, StepKeeps DEF MemberErrs, tasks

(* MemberTerminated *)
LEMMA MemberTerminatedStep ==
    ASSUME Inv, NEW d \in Database, MemberTerminated(d)
    PROVE  Inv'
<1>1. Inner(mgr) /\ mgr.active \in Database
  BY DEF Inv, Inner, Manager
<1>2. PICK r, s : r = Severed(mgr, d, "closed") /\ s = Ended(r, d)
  OBVIOUS
<1>3. /\ Inner(r)
      /\ r.circuit = mgr.circuit /\ r.active = mgr.active /\ r.gate = mgr.gate
      /\ r.everReady = mgr.everReady /\ r.torn = mgr.torn /\ r.late = mgr.late
      /\ r.timers = mgr.timers /\ r.dbs = mgr.dbs /\ r.running = mgr.running
  BY <1>1, <1>2, SeveredKeeps
<1>4. /\ Inner(s)
      /\ \A e \in Database \ {d} : s.circuit[e] = r.circuit[e]
      /\ s.active = r.active /\ s.gate = r.gate
      /\ s.everReady = r.everReady /\ s.torn = r.torn /\ s.late = r.late
      /\ s.timers = r.timers /\ s.dbs = r.dbs /\ s.running = r.running
  BY <1>2, <1>3, EndedKeeps
<1>5. Covered(mgr, adding) => Covered(s, adding)
  BY <1>3, <1>4 DEF Covered
<1>6. CASE d = s.active /\ s.everReady
  <2>1. mgr' \in HandleActiveFailure(s)
    BY <1>2, <1>6 DEF MemberTerminated
  <2>2. Stays(mgr')
    BY <1>4, <1>5, <2>1, FailureKeeps DEF Stays
  <2>3. QED
    BY <2>2, StepKeeps DEF MemberTerminated
<1>7. CASE ~(d = s.active /\ s.everReady)
  <2>1. mgr' = s
    BY <1>2, <1>7 DEF MemberTerminated
  <2>2. Sound(mgr) => Sound(s)
    BY <1>1, <1>3, <1>4, <1>7 DEF Sound
  <2>3. Stays(s)
    BY <1>4, <1>5, <2>2 DEF Stays
  <2>4. QED
    BY <2>1, <2>3, StepKeeps DEF MemberTerminated
<1>8. QED
  BY <1>6, <1>7

(* MemberGone *)
LEMMA MemberGoneStep ==
    ASSUME Inv, NEW d \in Database, MemberGone(d)
    PROVE  Inv'
<1>1. Inner(mgr) /\ mgr.active \in Database /\ mgr.active \in mgr.dbs
  BY DEF Inv, Inner, Manager, Served
<1>2. PICK r, s : r = Severed(mgr, d, "gone") /\ s = Ended(r, d)
  OBVIOUS
<1>3. /\ Inner(r)
      /\ r.circuit = mgr.circuit /\ r.active = mgr.active /\ r.gate = mgr.gate
      /\ r.everReady = mgr.everReady /\ r.torn = mgr.torn /\ r.late = mgr.late
      /\ r.timers = mgr.timers /\ r.dbs = mgr.dbs /\ r.running = mgr.running
  BY <1>1, <1>2, SeveredKeeps
<1>4. /\ Inner(s)
      /\ \A e \in Database \ {d} : s.circuit[e] = r.circuit[e]
      /\ s.active = r.active /\ s.gate = r.gate
      /\ s.everReady = r.everReady /\ s.torn = r.torn /\ s.late = r.late
      /\ s.timers = r.timers /\ s.dbs = r.dbs /\ s.running = r.running
  BY <1>2, <1>3, EndedKeeps
<1>5. mgr.torn \/ d # mgr.active
  BY <1>1 DEF MemberGone
<1>6. Stays(s)
  BY <1>1, <1>3, <1>4, <1>5 DEF Stays, Sound, Covered
<1>7. QED
  BY <1>2, <1>6, StepKeeps DEF MemberGone, tasks

(* GraceElapses *)
LEMMA GraceElapsesStep ==
    ASSUME Inv, NEW d \in Database, GraceElapses(d)
    PROVE  Inv'
<1>1. Inner(mgr) /\ mgr \in Manager /\ mgr.circuit \in [Database -> Circuit] /\ mgr.active \in Database
  BY DEF Inv, Inner, Manager
<1>2. PICK c : c = [mgr.circuit[d] EXCEPT !.aged = TRUE]
  OBVIOUS
<1>3. c \in Circuit
  BY <1>1, <1>2 DEF Circuit
<1>4. PICK t : t = [mgr EXCEPT !.circuit[d] = c]
  OBVIOUS
<1>5. t = mgr'
  BY <1>1, <1>2, <1>4 DEF GraceElapses, Manager
<1>6. /\ Inner(t)
      /\ \A e \in Database \ {d} : t.circuit[e] = mgr.circuit[e]
      /\ t.active = mgr.active /\ t.gate = mgr.gate
      /\ t.everReady = mgr.everReady /\ t.torn = mgr.torn /\ t.late = mgr.late
      /\ t.timers = mgr.timers /\ t.dbs = mgr.dbs
  BY <1>1, <1>3, <1>4, OneCircuit
<1>7. State(mgr.circuit[d]) # "CLOSED"
  BY DEF GraceElapses
<1>8. Sound(mgr) => Sound(t)
  <2>1. mgr.active = d \/ t.circuit[mgr.active] = mgr.circuit[mgr.active]
    BY <1>1, <1>6
  <2>2. QED
    BY <1>6, <1>7, <2>1 DEF Sound
<1>9. Stays(t)
  BY <1>6, <1>8 DEF Stays, Covered
<1>10. QED
  BY <1>5, <1>9, StepKeeps DEF GraceElapses, tasks

(* A step that also moves one of the tasks. *)
LEMMA TaskKeeps ==
    ASSUME Inv, Stays(mgr'), Tasks', connecting' = connecting, adding' = adding
    PROVE  Inv'
BY DEF Inv, Stays

(* A background check that is over, or superseded. *)
LEMMA VerifiedKeeps ==
    ASSUME Tasks, NEW d \in Database
    PROVE  Verified(round, d) \in [Database -> {"idle", "round", "stale", "probe"}]
BY DEF Tasks, Verified

(* CheckStart *)
LEMMA CheckStartStep ==
    ASSUME Inv, NEW d \in Database, CheckStart(d)
    PROVE  Inv'
<1>1. Tasks'
  BY DEF Inv, CheckStart, Tasks
<1>2. QED
  BY <1>1 DEF Inv, CheckStart

(* CheckRound *)
LEMMA CheckRoundStep ==
    ASSUME Inv, NEW d \in Database, NEW healthy \in BOOLEAN, CheckRound(d, healthy)
    PROVE  Inv'
<1>1. Inner(mgr) /\ mgr \in Manager /\ mgr.circuit \in [Database -> Circuit] /\ mgr.active \in Database
  BY DEF Inv, Inner, Manager
<1>2. Tasks'
  BY DEF Inv, CheckRound, Tasks
<1>3. Stays(mgr')
  <2>1. CASE healthy \/ round[d] = "stale"
    <3>1. mgr' = mgr
      BY <2>1 DEF CheckRound
    <3>2. QED
      BY <1>1, <3>1 DEF Stays
  <2>2. CASE ~(healthy \/ round[d] = "stale") /\ d = mgr.active
    <3>1. mgr' \in HandleActiveFailure(mgr)
      BY <2>2 DEF CheckRound
    <3>2. QED
      BY <1>1, <3>1, FailureKeeps DEF Stays
  <2>3. CASE ~(healthy \/ round[d] = "stale") /\ d # mgr.active
    <3>1. mgr' = [mgr EXCEPT !.circuit[d] = Opened(mgr.circuit[d])]
      BY <1>1, <2>3 DEF CheckRound, Manager
    <3>2. Opened(mgr.circuit[d]) \in Circuit
      BY <1>1, CircuitTypes
    <3>3. PICK c, t : c = Opened(mgr.circuit[d]) /\ t = [mgr EXCEPT !.circuit[d] = c]
      OBVIOUS
    <3>4. /\ Inner(t)
          /\ \A e \in Database \ {d} : t.circuit[e] = mgr.circuit[e]
          /\ t.active = mgr.active /\ t.gate = mgr.gate
          /\ t.everReady = mgr.everReady /\ t.torn = mgr.torn /\ t.late = mgr.late
          /\ t.timers = mgr.timers /\ t.dbs = mgr.dbs
      BY <1>1, <3>2, <3>3, OneCircuit
    <3>5. QED
      BY <1>1, <2>3, <3>1, <3>3, <3>4 DEF Stays, Sound, Covered
  <2>4. QED
    BY <2>1, <2>2, <2>3
<1>4. QED
  BY <1>2, <1>3, TaskKeeps DEF CheckRound

(* RecoveryProbe *)
LEMMA RecoveryProbeStep ==
    ASSUME Inv, NEW d \in Database, NEW healthy \in BOOLEAN, RecoveryProbe(d, healthy)
    PROVE  Inv'
<1>1. Inner(mgr) /\ mgr \in Manager /\ mgr.circuit \in [Database -> Circuit] /\ mgr.active \in Database
  BY DEF Inv, Inner, Manager
<1>2. Tasks'
  BY DEF Inv, RecoveryProbe, Tasks
<1>3. CASE mgr' = mgr
  BY <1>2, <1>3 DEF Inv, RecoveryProbe
<1>4. CASE mgr' # mgr
  <2>1. PICK c : c = Probed(mgr.circuit[d], healthy)
    OBVIOUS
  <2>2. mgr' = [mgr EXCEPT !.circuit[d] = c] /\ State(mgr.circuit[d]) = "HALF_OPEN"
    BY <1>4, <2>1 DEF RecoveryProbe
  <2>3. c \in Circuit
    BY <1>1, <2>1, CircuitTypes
  <2>4. PICK t : t = [mgr EXCEPT !.circuit[d] = c]
    OBVIOUS
  <2>5. /\ Inner(t)
        /\ \A e \in Database \ {d} : t.circuit[e] = mgr.circuit[e]
        /\ t.active = mgr.active /\ t.gate = mgr.gate
        /\ t.everReady = mgr.everReady /\ t.torn = mgr.torn /\ t.late = mgr.late
        /\ t.timers = mgr.timers /\ t.dbs = mgr.dbs
    BY <1>1, <2>3, <2>4, OneCircuit
  <2>6. mgr.active = d \/ t.circuit[mgr.active] = mgr.circuit[mgr.active]
    BY <1>1, <2>5
  <2>7. Stays(t)
    BY <2>2, <2>5, <2>6 DEF Stays, Sound, Covered
  <2>8. QED
    BY <1>2, <2>2, <2>4, <2>7, TaskKeeps DEF RecoveryProbe
<1>5. QED
  BY <1>3, <1>4

(* A switch to a member of the set with a closed circuit. *)
LEMMA SwitchStays ==
    ASSUME NEW s, Inner(s), NEW d, d \in Selectable(s, s.dbs) \/ (d \in s.dbs /\ State(s.circuit[d]) = "CLOSED")
    PROVE  /\ Inner(SwitchTo(s, d)) /\ Sound(SwitchTo(s, d))
           /\ \A ds : Covered(s, ds) => Covered(SwitchTo(s, d), ds)
<1>1. d \in s.dbs /\ State(s.circuit[d]) = "CLOSED"
  BY DEF Selectable, Healthy
<1>2. PICK t : t = SwitchTo(s, d)
  OBVIOUS
<1>3. /\ Inner(t)
      /\ t.active = d /\ t.circuit = s.circuit /\ t.gate = s.gate
      /\ t.everReady = s.everReady /\ t.torn = s.torn
      /\ t.timers = s.timers /\ t.dbs = s.dbs
  BY <1>1, <1>2, SwitchKeeps
<1>4. QED
  BY <1>1, <1>2, <1>3 DEF Sound, Covered

(* MaybeFallback *)
LEMMA MaybeFallbackStep ==
    ASSUME Inv, MaybeFallback
    PROVE  Inv'
<1>1. PICK d \in Selectable(mgr, mgr.dbs) : mgr' = SwitchTo(mgr, d)
  BY DEF MaybeFallback
<1>2. Stays(mgr')
  BY <1>1, SwitchStays DEF Inv, Stays
<1>3. QED
  BY <1>2, StepKeeps DEF MaybeFallback, tasks

(* SearchWakes *)
LEMMA SearchWakesStep ==
    ASSUME Inv, NEW l, SearchWakes(l)
    PROVE  Inv'
<1>1. /\ Inner(mgr) /\ mgr \in Manager /\ mgr.loops \in SUBSET Loop /\ l \in mgr.loops
      /\ UNCHANGED tasks
  BY DEF Inv, Inner, Manager, SearchWakes, tasks
<1>2. PICK asleep, loops : /\ asleep = [mgr EXCEPT !.loops = loops] /\ loops = mgr.loops \ {l}
  OBVIOUS
<1>3. /\ asleep \in Manager /\ Alike(mgr, asleep) /\ asleep.late = mgr.late
      /\ asleep.timers = mgr.timers /\ asleep.circuit = mgr.circuit /\ asleep.loops = loops
  <2>1. loops \in SUBSET Loop
    BY <1>1, <1>2
  <2>2. QED
    BY <1>1, <1>2, <2>1 DEF Manager, Alike
<1>4. Stays(asleep)
  BY <1>1, <1>3, AlikeKeeps DEF Stays
<1>5. CASE mgr' = asleep
  BY <1>1, <1>4, <1>5, StepKeeps
<1>6. CASE \E d \in Selectable(mgr, mgr.dbs) : mgr' = SwitchTo(Rescue(asleep), d)
  <2>1. PICK d \in Selectable(mgr, mgr.dbs) : mgr' = SwitchTo(Rescue(asleep), d)
    BY <1>6
  <2>2. PICK s : s = Rescue(asleep)
    OBVIOUS
  <2>3. /\ Inner(s) /\ s.circuit = asleep.circuit /\ s.dbs = asleep.dbs
        /\ \A ds : Covered(asleep, ds) => Covered(s, ds)
    BY <1>4, <2>2, RescueKeeps DEF Stays
  <2>4. d \in s.dbs /\ State(s.circuit[d]) = "CLOSED"
    BY <1>3, <2>1, <2>3 DEF Alike, Selectable, Healthy
  <2>5. Stays(mgr')
    BY <1>4, <2>1, <2>2, <2>3, <2>4, SwitchStays DEF Stays
  <2>6. QED
    BY <1>1, <2>5, StepKeeps
<1>7. CASE mgr' = [asleep EXCEPT !.loops = @ \cup {[l EXCEPT !.attempt = l.attempt + 1]}]
  <2>1. l \in Loop
    BY <1>1
  <2>2. [l EXCEPT !.attempt = l.attempt + 1] \in Loop
    BY <2>1 DEF Loop
  <2>3. PICK k : k = asleep.loops \cup {[l EXCEPT !.attempt = l.attempt + 1]}
    OBVIOUS
  <2>4. k \in SUBSET Loop
    BY <1>3, <2>2, <2>3 DEF Manager
  <2>5. mgr' = [asleep EXCEPT !.loops = k]
    BY <1>7, <2>3
  <2>6. PICK t : t = [asleep EXCEPT !.loops = k]
    OBVIOUS
  <2>7. /\ t \in Manager /\ Alike(asleep, t) /\ t.late = asleep.late
        /\ t.timers = asleep.timers /\ t.circuit = asleep.circuit
    BY <1>3, <2>4, <2>6 DEF Manager, Alike
  <2>8. Stays(t)
    BY <1>4, <2>7, AlikeKeeps DEF Stays
  <2>9. QED
    BY <1>1, <2>5, <2>6, <2>8, StepKeeps
<1>8. CASE /\ mgr.gate = "searching"
           /\ mgr' = [asleep EXCEPT !.gate = "failed", !.inFlight = FALSE,
                                    !.timers = {}, !.running = FALSE]
  <2>1. PICK t : t = [asleep EXCEPT !.gate = "failed", !.inFlight = FALSE,
                                    !.timers = {}, !.running = FALSE]
    OBVIOUS
  <2>2. t \in Manager
    BY <1>3, <2>1, ZenonT(60) DEF Manager
  <2>3. /\ t.active = asleep.active /\ t.pinned = asleep.pinned
        /\ t.circuit = asleep.circuit /\ t.gate = "failed" /\ t.inFlight = FALSE
        /\ t.everReady = asleep.everReady /\ t.torn = asleep.torn /\ t.late = asleep.late
        /\ t.dbs = asleep.dbs
        /\ t.held = asleep.held /\ t.sub = asleep.sub /\ t.moves = asleep.moves
        /\ t.leaving = asleep.leaving /\ t.listens = asleep.listens /\ t.overtaken = asleep.overtaken
        /\ t.watched = asleep.watched /\ t.dirty = asleep.dirty /\ t.watch = asleep.watch
        /\ t.tx = asleep.tx
        /\ t.cmd = asleep.cmd /\ t.conn = asleep.conn /\ t.failures = asleep.failures
    BY <1>3, <2>1 DEF Manager
  <2>4. asleep.gate = "searching"
    BY <1>3, <1>8 DEF Alike
  <2>5. Served(t) /\ Subscribed(t) /\ Watches(t)
    BY <1>4, <2>3 DEF Stays, Inner, Served, Subscribed, Watches
  <2>6. Behind(t)
    BY <1>4, <2>3, <2>4 DEF Stays, Inner, Behind
  <2>7. Stays(t)
    BY <2>2, <2>3, <2>5, <2>6 DEF Stays, Inner, Sound, Covered
  <2>8. QED
    BY <1>1, <1>8, <2>1, <2>7, StepKeeps
<1>9. \/ mgr' = asleep
      \/ \E d \in Selectable(mgr, mgr.dbs) : mgr' = SwitchTo(Rescue(asleep), d)
      \/ mgr' = [asleep EXCEPT !.loops = @ \cup {[l EXCEPT !.attempt = l.attempt + 1]}]
      \/ /\ mgr.gate = "searching"
         /\ mgr' = [asleep EXCEPT !.gate = "failed", !.inFlight = FALSE,
                                  !.timers = {}, !.running = FALSE]
  <2>1. asleep = [mgr EXCEPT !.loops = @ \ {l}]
    BY <1>2
  <2>2. QED
    BY <2>1 DEF SearchWakes
<1>10. QED
  BY <1>5, <1>6, <1>7, <1>8, <1>9

(* ForceStart *)
LEMMA ForceStartStep ==
    ASSUME Inv, NEW d \in Database, ForceStart(d)
    PROVE  Inv'
<1>1. Tasks'
  BY DEF Inv, ForceStart, Tasks, Somewhere
<1>2. QED
  BY <1>1 DEF Inv, ForceStart

(* The pin. *)
LEMMA PinKeeps ==
    ASSUME NEW s, Inner(s), NEW p \in {None, s.active}
    PROVE  LET t == [s EXCEPT !.pinned = p]
           IN  Inner(t) /\ (Sound(s) => Sound(t)) /\ \A ds : Covered(s, ds) => Covered(t, ds)
<1> DEFINE t == [s EXCEPT !.pinned = p]
<1>1. s \in Manager /\ p \in Somewhere
  BY DEF Inner, Manager, Somewhere
<1>2. t \in Manager
  BY <1>1 DEF Manager
<1>3. /\ t.active = s.active /\ t.pinned = p
      /\ t.circuit = s.circuit /\ t.gate = s.gate /\ t.inFlight = s.inFlight
      /\ t.everReady = s.everReady /\ t.torn = s.torn /\ t.late = s.late
      /\ t.timers = s.timers /\ t.dbs = s.dbs /\ t.running = s.running
      /\ t.held = s.held /\ t.sub = s.sub /\ t.moves = s.moves
      /\ t.leaving = s.leaving /\ t.listens = s.listens /\ t.overtaken = s.overtaken
      /\ t.watched = s.watched /\ t.dirty = s.dirty /\ t.watch = s.watch /\ t.tx = s.tx
      /\ t.cmd = s.cmd /\ t.conn = s.conn /\ t.failures = s.failures
  BY <1>1 DEF Manager
<1> HIDE DEF t
<1>4. Served(t) /\ Behind(t) /\ Subscribed(t) /\ Watches(t)
  BY <1>3 DEF Inner, Served, Behind, Subscribed, Watches
<1>5. QED
  BY <1>2, <1>3, <1>4 DEF Inner, Sound, Covered, t

(* ForceVerdict *)
LEMMA ForceVerdictStep ==
    ASSUME Inv, NEW healthy \in BOOLEAN, ForceVerdict(healthy)
    PROVE  Inv'
<1>1. Inner(mgr) /\ mgr \in Manager /\ mgr.circuit \in [Database -> Circuit]
  BY DEF Inv, Inner, Manager
<1>2. PICK d : d = force
  OBVIOUS
<1>3. d \in Database /\ connecting' = connecting /\ adding' = adding
  BY <1>2 DEF Inv, Tasks, ForceVerdict, Somewhere
<1>4. CASE UNCHANGED <<mgr, round>>
  <2>1. Tasks'
    BY <1>4 DEF Inv, Tasks, ForceVerdict, Somewhere
  <2>2. QED
    BY <1>3, <1>4, <2>1 DEF Inv
<1>5. CASE ~UNCHANGED <<mgr, round>>
  <2>1. /\ d \in mgr.dbs /\ round' = Verified(round, d)
        /\ mgr' = [SwitchTo(Rescue([mgr EXCEPT !.circuit[d] = Shut]), d) EXCEPT !.pinned = d]
    BY <1>2, <1>5 DEF ForceVerdict
  <2>2. PICK u, r, s, t : /\ u = [mgr EXCEPT !.circuit[d] = Shut]
                          /\ r = Rescue(u)
                          /\ s = SwitchTo(r, d)
                          /\ t = [s EXCEPT !.pinned = d]
    OBVIOUS
  <2>3. Inner(u) /\ u.circuit[d] = Shut /\ Covered(u, adding) /\ u.dbs = mgr.dbs
    <3>1. /\ Inner(u) /\ u.circuit[d] = Shut
          /\ u.everReady = mgr.everReady /\ u.torn = mgr.torn /\ u.gate = mgr.gate
          /\ u.timers = mgr.timers /\ u.dbs = mgr.dbs
      BY <1>1, <1>3, <2>2, CircuitTypes, OneCircuit
    <3>2. QED
      BY <3>1 DEF Inv, Covered
  <2>4. Inner(r) /\ r.circuit = u.circuit /\ r.dbs = u.dbs /\ Covered(r, adding)
    BY <2>2, <2>3, RescueKeeps
  <2>5. d \in r.dbs /\ State(r.circuit[d]) = "CLOSED"
    BY <2>1, <2>3, <2>4, CircuitTypes
  <2>6. Inner(s) /\ Sound(s) /\ Covered(s, adding) /\ s.active = d
    BY <2>2, <2>4, <2>5, SwitchStays, SwitchKeeps
  <2>7. Stays(t)
    BY <2>2, <2>6, PinKeeps DEF Stays
  <2>8. Tasks'
    BY <1>3, <2>1, VerifiedKeeps DEF Inv, Tasks, ForceVerdict, Somewhere
  <2>9. mgr' = t
    BY <2>1, <2>2
  <2>10. QED
    BY <1>3, <2>7, <2>8, <2>9, TaskKeeps
<1>6. QED
  BY <1>4, <1>5

(* ReleasePin *)
LEMMA ReleasePinStep ==
    ASSUME Inv, ReleasePin
    PROVE  Inv'
<1>1. PICK t : t = [mgr EXCEPT !.pinned = None]
  OBVIOUS
<1>2. Stays(t)
  BY <1>1, PinKeeps DEF Inv, Stays
<1>3. QED
  BY <1>1, <1>2, StepKeeps DEF ReleasePin, tasks

(* SetWeight *)
LEMMA SetWeightStep ==
    ASSUME Inv, NEW d \in Database, NEW w \in {0, 1}, SetWeight(d, w)
    PROVE  Inv'
<1>1. Inner(mgr) /\ mgr \in Manager /\ mgr.weight \in [Database -> {0, 1}]
  BY DEF Inv, Inner, Manager
<1>2. PICK k, t : k = [mgr.weight EXCEPT ![d] = w] /\ t = [mgr EXCEPT !.weight = k]
  OBVIOUS
<1>3. k \in [Database -> {0, 1}] /\ t = mgr'
  BY <1>1, <1>2 DEF SetWeight, Manager
<1>4. t \in Manager /\ Alike(mgr, t) /\ t.late = mgr.late /\ t.timers = mgr.timers /\ t.circuit = mgr.circuit
  <2>1. t \in Manager
    BY <1>1, <1>2, <1>3, ZenonT(60) DEF Manager
  <2>2. Alike(mgr, t) /\ t.late = mgr.late /\ t.timers = mgr.timers /\ t.circuit = mgr.circuit
    BY <1>1, <1>2, SMTT(60) DEF Manager, Alike
  <2>3. QED
    BY <2>1, <2>2
<1>5. Stays(t)
  BY <1>1, <1>4, AlikeKeeps DEF Stays
<1>6. QED
  BY <1>3, <1>5, StepKeeps DEF SetWeight

(* Members that were never connected begin to. *)
LEMMA EstablishingKeeps ==
    ASSUME NEW s, Inner(s), NEW ds
    PROVE  LET t == Establishing(s, ds)
           IN  /\ Inner(t)
               /\ t.active = s.active /\ t.circuit = s.circuit /\ t.gate = s.gate
               /\ t.everReady = s.everReady /\ t.torn = s.torn /\ t.late = s.late
               /\ t.timers = s.timers /\ t.dbs = s.dbs
<1> DEFINE k == [d \in Database |-> IF d \in ds /\ s.conn[d] = "closed" THEN "down" ELSE s.conn[d]]
           t == [s EXCEPT !.conn = k]
<1>1. s \in Manager
  BY DEF Inner
<1>2. t = Establishing(s, ds)
  BY <1>1 DEF Establishing, Manager
<1>3. /\ k \in [Database -> {"closed", "down", "ready", "gone"}]
      /\ \A d \in Database : s.conn[d] = "down" => k[d] = "down"
  BY <1>1 DEF Manager
<1> HIDE DEF k, t
<1>4. t \in Manager
  BY <1>1, <1>3 DEF t, Manager
<1>5. /\ t.active = s.active /\ t.pinned = s.pinned
      /\ t.circuit = s.circuit /\ t.gate = s.gate /\ t.inFlight = s.inFlight
      /\ t.everReady = s.everReady /\ t.torn = s.torn /\ t.late = s.late
      /\ t.timers = s.timers /\ t.dbs = s.dbs /\ t.running = s.running
      /\ t.held = s.held /\ t.sub = s.sub /\ t.moves = s.moves
      /\ t.leaving = s.leaving /\ t.listens = s.listens /\ t.overtaken = s.overtaken
      /\ t.watched = s.watched /\ t.dirty = s.dirty /\ t.watch = s.watch /\ t.tx = s.tx
      /\ t.cmd = s.cmd /\ t.conn = k /\ t.failures = s.failures
  BY <1>1 DEF t, Manager
<1>6. Served(t) /\ Subscribed(t) /\ Watches(t)
  BY <1>5 DEF Inner, Served, Subscribed, Watches
<1>7. Behind(t)
  <2>1. s.active \in Database
    BY <1>1 DEF Manager
  <2>2. QED
    BY <1>3, <1>5, <2>1 DEF Inner, Behind
<1>8. QED
  BY ONLY <1>2, <1>4, <1>5, <1>6, <1>7 DEF Inner

(* ConnectStart *)
LEMMA ConnectStartStep ==
    ASSUME Inv, ConnectStart
    PROVE  Inv'
<1>1. Inner(mgr')
  BY EstablishingKeeps DEF Inv, ConnectStart
<1>2. Tasks'
  BY DEF Inv, ConnectStart, Tasks
<1>3. PICK t : t = Establishing(mgr, mgr.dbs)
  OBVIOUS
<1>4. /\ t.gate = mgr.gate /\ t.everReady = mgr.everReady /\ t.torn = mgr.torn
      /\ t.timers = mgr.timers /\ t.dbs = mgr.dbs
  BY <1>3, EstablishingKeeps DEF Inv
<1>5. mgr' = t /\ connecting' = TRUE /\ adding' = adding
  BY <1>3 DEF ConnectStart
<1>6. Covered(t, adding)
  BY <1>4 DEF Inv, Covered
<1>7. QED
  BY <1>1, <1>2, <1>5, <1>6 DEF Inv

(* ConnectVerdict *)
LEMMA ConnectVerdictStep ==
    ASSUME Inv, NEW d \in Database, NEW ok \in BOOLEAN, ConnectVerdict(d, ok)
    PROVE  Inv'
<1>1. Inner(mgr) /\ mgr \in Manager /\ mgr.circuit \in [Database -> Circuit]
  BY DEF Inv, Inner, Manager
<1>2. connecting = TRUE /\ connecting' = connecting /\ adding' = adding
  BY DEF Inv, Tasks, ConnectVerdict
<1>3. Tasks'
  BY <1>2, VerifiedKeeps DEF Inv, Tasks, ConnectVerdict
<1>4. PICK c, t : /\ c = IF ok THEN Shut ELSE Opened(mgr.circuit[d])
                  /\ t = [mgr EXCEPT !.circuit[d] = c]
  OBVIOUS
<1>5. c \in Circuit
  BY <1>1, <1>4, CircuitTypes
<1>6. t = mgr'
  BY <1>1, <1>4 DEF ConnectVerdict, Established, Manager
<1>7. /\ Inner(t)
      /\ t.gate = mgr.gate /\ t.everReady = mgr.everReady /\ t.torn = mgr.torn
      /\ t.timers = mgr.timers /\ t.dbs = mgr.dbs
  BY <1>1, <1>4, <1>5, OneCircuit
<1>8. Covered(t, adding)
  BY <1>7 DEF Inv, Covered
<1>9. QED
  BY <1>2, <1>3, <1>6, <1>7, <1>8 DEF Inv

(* The client is torn down. *)
LEMMA TeardownKeeps ==
    ASSUME NEW s, Inner(s)
    PROVE  Inner(Teardown(s)) /\ Sound(Teardown(s)) /\ \A ds : Covered(Teardown(s), ds)
<1> DEFINE t == Teardown(s)
<1>1. s \in Manager
  BY DEF Inner
<1>2. t \in Manager
  BY <1>1 DEF Teardown, Manager
<1>3. /\ t.active = s.active /\ t.pinned = s.pinned
      /\ t.circuit = s.circuit /\ t.gate = s.gate /\ t.inFlight = s.inFlight
      /\ t.everReady = s.everReady /\ t.torn = TRUE /\ t.dbs = s.dbs
      /\ t.held = s.held /\ t.sub = s.sub /\ t.moves = s.moves
      /\ t.leaving = s.leaving /\ t.listens = s.listens /\ t.overtaken = s.overtaken
      /\ t.watched = s.watched /\ t.dirty = s.dirty /\ t.watch = s.watch /\ t.tx = s.tx
      /\ t.cmd = s.cmd /\ t.conn = s.conn /\ t.failures = s.failures
  BY <1>1 DEF Teardown, Manager
<1> HIDE DEF t
<1>4. Served(t) /\ Behind(t) /\ Subscribed(t) /\ Watches(t)
  BY <1>3 DEF Inner, Served, Behind, Subscribed, Watches
<1>5. QED
  BY <1>2, <1>3, <1>4 DEF Inner, Sound, Covered, t

(* connect() found its member. *)
LEMMA ServingKeeps ==
    ASSUME NEW s, Inner(s), NEW target \in s.dbs, State(s.circuit[target]) = "CLOSED"
    PROVE  Inner(Serving(s, target)) /\ Sound(Serving(s, target)) /\ \A ds : Covered(Serving(s, target), ds)
<1>1. s.active \in Database /\ target \in Database
  BY DEF Inner, Manager
<1>2. PICK r : r = IF s.active = target THEN s
                   ELSE MovePubSub(Repoint(s, target), s.active, target)
  OBVIOUS
<1>3. Inner(r) /\ r.active = target /\ r.circuit = s.circuit
  <2>1. CASE s.active = target
    BY <1>2, <2>1
  <2>2. CASE s.active # target
    <3>1. PICK p : p = Repoint(s, target)
      OBVIOUS
    <3>2. Inner(p) /\ p.active = target /\ p.circuit = s.circuit /\ \A mv \in p.moves : ~mv.latest
      BY <2>2, <3>1, RepointKeeps
    <3>3. r = MovePubSub(p, s.active, target)
      BY <1>2, <2>2, <3>1
    <3>4. Inner(r) /\ r.active = p.active /\ r.circuit = p.circuit
      BY <1>1, <2>2, <3>2, <3>3, MoveKeeps
    <3>5. QED
      BY <3>2, <3>4
  <2>3. QED
    BY <2>1, <2>2
<1>4. r \in Manager /\ r.role \in [Database -> Roles]
  BY <1>3 DEF Inner, Manager
<1>5. PICK role, t : /\ role = [r.role EXCEPT ![target] = "ACTIVE"]
                     /\ t = [r EXCEPT !.role = role, !.gate = "open", !.inFlight = FALSE,
                                      !.running = TRUE, !.timers = r.dbs, !.everReady = TRUE]
  OBVIOUS
<1>6. role \in [Database -> Roles]
  BY <1>1, <1>4, <1>5 DEF Roles
<1>7. t = Serving(s, target)
  BY <1>2, <1>4, <1>5 DEF Serving, Manager
<1>8. t \in Manager
  BY <1>4, <1>5, <1>6, ZenonT(60) DEF Manager
<1>9. /\ t.active = r.active /\ t.pinned = r.pinned
      /\ t.circuit = r.circuit /\ t.gate = "open" /\ t.inFlight = FALSE
      /\ t.running = TRUE /\ t.dbs = r.dbs /\ t.timers = r.dbs
      /\ t.held = r.held /\ t.sub = r.sub /\ t.moves = r.moves
      /\ t.leaving = r.leaving /\ t.listens = r.listens /\ t.overtaken = r.overtaken
      /\ t.watched = r.watched /\ t.dirty = r.dirty /\ t.watch = r.watch /\ t.tx = r.tx
      /\ t.cmd = r.cmd /\ t.conn = r.conn /\ t.failures = r.failures
  BY <1>4, <1>5 DEF Manager
<1>10. Served(t) /\ Behind(t) /\ Subscribed(t) /\ Watches(t)
  BY <1>3, <1>9 DEF Inner, Served, Behind, Subscribed, Watches
<1>11. Sound(t) /\ \A ds : Covered(t, ds)
  BY <1>3, <1>9 DEF Sound, Covered
<1>12. QED
  BY <1>7, <1>8, <1>10, <1>11 DEF Inner

(* ConnectFinish *)
LEMMA ConnectFinishStep ==
    ASSUME Inv, ConnectFinish
    PROVE  Inv'
<1> DEFINE found == {d \in mgr.dbs : est[d] = "ok"}
<1>1. Inner(mgr) /\ Covered(mgr, adding)
  BY DEF Inv
<1>2. Tasks' /\ connecting' = FALSE /\ adding' = adding
  BY DEF Inv, Tasks, ConnectFinish
<1>3. \/ mgr.torn /\ mgr' = mgr
      \/ mgr' \in FailConnect(mgr)
      \/ \E d \in Selectable(mgr, found) : mgr' = Serving(mgr, d)
  BY DEF ConnectFinish
<1>4. Inner(mgr') /\ Sound(mgr') /\ Covered(mgr', adding)
  <2>1. CASE mgr.torn /\ mgr' = mgr
    BY <1>1, <2>1 DEF Sound
  <2>2. CASE mgr' \in FailConnect(mgr)
    <3>1. CASE ~mgr.everReady
      <4>1. mgr' = Teardown(mgr)
        BY <2>2, <3>1 DEF FailConnect
      <4>2. QED
        BY <1>1, <4>1, TeardownKeeps
    <3>2. CASE mgr.everReady /\ State(mgr.circuit[mgr.active]) # "CLOSED"
      <4>1. mgr' \in HandleActiveFailure(mgr)
        BY <2>2, <3>2 DEF FailConnect
      <4>2. QED
        BY <1>1, <4>1, FailureKeeps
    <3>3. CASE mgr.everReady /\ State(mgr.circuit[mgr.active]) = "CLOSED"
      <4>1. mgr' = mgr
        BY <2>2, <3>3 DEF FailConnect
      <4>2. QED
        BY <1>1, <3>3, <4>1 DEF Sound
    <3>4. QED
      BY <3>1, <3>2, <3>3
  <2>3. CASE \E d \in Selectable(mgr, found) : mgr' = Serving(mgr, d)
    <3>1. PICK d \in Selectable(mgr, found) : mgr' = Serving(mgr, d)
      BY <2>3
    <3>2. d \in mgr.dbs /\ State(mgr.circuit[d]) = "CLOSED"
      BY <3>1 DEF Selectable, Healthy
    <3>3. QED
      BY <1>1, <3>1, <3>2, ServingKeeps
  <2>4. QED
    BY <1>3, <2>1, <2>2, <2>3
<1>5. QED
  BY <1>2, <1>4 DEF Inv

(* AddDatabase *)
LEMMA AddDatabaseStep ==
    ASSUME Inv, NEW d \in Database, AddDatabase(d)
    PROVE  Inv'
<1>1. /\ Inner(mgr) /\ mgr \in Manager /\ mgr.circuit \in [Database -> Circuit]
      /\ mgr.active \in mgr.dbs /\ mgr.active \in Database
  BY DEF Inv, Inner, Manager, Served
<1>2. Tasks' /\ connecting' = connecting /\ adding' = adding \cup {d} /\ d \notin mgr.dbs
  BY DEF Inv, Tasks, AddDatabase
<1>3. PICK dbs, u : dbs = mgr.dbs \cup {d} /\ u = [mgr EXCEPT !.dbs = dbs]
  OBVIOUS
<1>4. u \in Manager
  <2>1. dbs \in SUBSET Database
    BY <1>1, <1>3 DEF Manager
  <2>2. QED
    BY <1>1, <1>3, <2>1 DEF Manager
<1>5. /\ u.active = mgr.active /\ u.pinned = mgr.pinned
      /\ u.circuit = mgr.circuit /\ u.gate = mgr.gate /\ u.inFlight = mgr.inFlight
      /\ u.everReady = mgr.everReady /\ u.torn = mgr.torn /\ u.late = mgr.late
      /\ u.timers = mgr.timers /\ u.dbs = dbs /\ u.running = mgr.running
      /\ u.held = mgr.held /\ u.sub = mgr.sub /\ u.moves = mgr.moves
      /\ u.leaving = mgr.leaving /\ u.listens = mgr.listens /\ u.overtaken = mgr.overtaken
      /\ u.watched = mgr.watched /\ u.dirty = mgr.dirty /\ u.watch = mgr.watch /\ u.tx = mgr.tx
      /\ u.cmd = mgr.cmd /\ u.conn = mgr.conn /\ u.failures = mgr.failures
  BY <1>1, <1>3 DEF Manager
<1>6. Inner(u)
  BY <1>1, <1>3, <1>4, <1>5 DEF Inner, Served, Behind, Subscribed, Watches
<1>7. PICK c, v, ds : c = Opened(mgr.circuit[d]) /\ v = [u EXCEPT !.circuit[d] = c] /\ ds = {d}
  OBVIOUS
<1>8. c \in Circuit
  BY <1>1, <1>7, CircuitTypes
<1>9. /\ Inner(v) /\ \A e \in Database \ {d} : v.circuit[e] = u.circuit[e]
      /\ v.active = u.active /\ v.gate = u.gate
      /\ v.everReady = u.everReady /\ v.torn = u.torn /\ v.late = u.late
      /\ v.timers = u.timers /\ v.dbs = u.dbs
  BY <1>6, <1>7, <1>8, OneCircuit
<1>10. PICK t : t = Establishing(v, ds)
  OBVIOUS
<1>11. /\ Inner(t)
       /\ t.active = v.active /\ t.circuit = v.circuit /\ t.gate = v.gate
       /\ t.everReady = v.everReady /\ t.torn = v.torn /\ t.late = v.late
       /\ t.timers = v.timers /\ t.dbs = v.dbs
  BY <1>9, <1>10, EstablishingKeeps
<1>12. mgr' = t
  <2>1. v = [mgr EXCEPT !.dbs = @ \cup {d}, !.circuit[d] = Opened(@)]
    BY <1>1, <1>3, <1>7 DEF Manager
  <2>2. QED
    BY <1>7, <1>10, <2>1 DEF AddDatabase
<1>13. Sound(mgr) => Sound(t)
  <2>1. t.circuit[mgr.active] = mgr.circuit[mgr.active]
    BY <1>1, <1>2, <1>5, <1>9, <1>11
  <2>2. QED
    BY <1>5, <1>9, <1>11, <2>1 DEF Sound
<1>14. Covered(t, adding \cup {d})
  BY <1>3, <1>5, <1>9, <1>11 DEF Inv, Covered
<1>15. QED
  BY <1>2, <1>11, <1>12, <1>13, <1>14 DEF Inv

(* AddVerdict *)
LEMMA AddVerdictStep ==
    ASSUME Inv, NEW d \in Database, NEW ok \in BOOLEAN, AddVerdict(d, ok)
    PROVE  Inv'
<1>1. /\ Inner(mgr) /\ mgr \in Manager /\ mgr.circuit \in [Database -> Circuit]
      /\ mgr.active \in Database /\ mgr.late \in SUBSET Database /\ mgr.timers \in SUBSET Database
  BY DEF Inv, Inner, Manager
<1>2. Tasks' /\ connecting' = connecting /\ adding' = adding \ {d}
  BY VerifiedKeeps DEF Inv, Tasks, AddVerdict
<1>3. PICK c, s : /\ c = IF ok THEN Shut ELSE Opened(mgr.circuit[d])
                  /\ s = [mgr EXCEPT !.circuit[d] = c]
  OBVIOUS
<1>5. c \in Circuit
  BY <1>1, <1>3, CircuitTypes
<1>6. /\ Inner(s) /\ s.circuit[d] = c /\ \A e \in Database \ {d} : s.circuit[e] = mgr.circuit[e]
      /\ s.active = mgr.active /\ s.gate = mgr.gate
      /\ s.everReady = mgr.everReady /\ s.torn = mgr.torn /\ s.late = mgr.late
      /\ s.timers = mgr.timers /\ s.dbs = mgr.dbs /\ s.running = mgr.running
  BY <1>1, <1>3, <1>5, OneCircuit
<1>7. PICK late, timers, t :
        /\ late = IF ~ok /\ d = mgr.active THEN mgr.late \cup {d} ELSE mgr.late
        /\ timers = IF mgr.running /\ ~mgr.torn /\ d \in mgr.dbs THEN mgr.timers \cup {d} ELSE mgr.timers
        /\ t = [s EXCEPT !.late = late, !.timers = timers]
  OBVIOUS
<1>8. s \in Manager /\ late \in SUBSET Database /\ timers \in SUBSET Database
  BY <1>1, <1>6, <1>7 DEF Inner
<1>9. t \in Manager /\ Alike(s, t) /\ t.late = late /\ t.timers = timers /\ t.circuit = s.circuit
  <2>1. t = [s EXCEPT !.late = late, !.timers = timers]
    BY <1>7
  <2>2. t \in Manager
    BY ONLY <1>8, <2>1 DEF Manager
  <2>3. Alike(s, t)
    BY ONLY <1>8, <2>1 DEF Manager, Alike
  <2>4. t.late = late /\ t.timers = timers /\ t.circuit = s.circuit
    BY ONLY <1>8, <2>1 DEF Manager
  <2>5. QED
    BY <2>2, <2>3, <2>4
<1>10. Inner(t)
  BY <1>6, <1>7, <1>8, <1>9, AlikeKeeps
<1>11. t = mgr'
  <2>1. Established(mgr, d, ok) = s
    BY <1>1, <1>3 DEF Established, Manager
  <2>2. PICK k : k = [s EXCEPT !.late = IF ~ok /\ d = mgr.active THEN @ \cup {d} ELSE @]
    OBVIOUS
  <2>3. k = [s EXCEPT !.late = late] /\ k.running = mgr.running /\ k.torn = mgr.torn /\ k.dbs = mgr.dbs
        /\ k.timers = mgr.timers
    BY <1>6, <1>7, <1>8, <2>2 DEF Manager
  <2>4. mgr' = IF k.running /\ ~k.torn /\ d \in k.dbs
               THEN [k EXCEPT !.timers = @ \cup {d}] ELSE k
    BY <2>1, <2>2 DEF AddVerdict
  <2>5. QED
    BY <1>6, <1>7, <1>8, <2>3, <2>4, ZenonT(60) DEF Manager
<1>12. Sound(mgr) => Sound(t)
  <2>1. CASE d # mgr.active
    BY <1>1, <1>6, <1>7, <1>9, <2>1 DEF Sound, Alike
  <2>2. CASE d = mgr.active /\ ok
    BY <1>3, <1>6, <1>9, <2>2, CircuitTypes DEF Sound, Alike
  <2>3. CASE d = mgr.active /\ ~ok
    BY <1>6, <1>7, <1>9, <2>3 DEF Sound, Alike
  <2>4. QED
    BY <2>1, <2>2, <2>3
<1>13. Covered(t, adding \ {d})
  <2>1. Covered(mgr, adding) /\ Served(mgr)
    BY DEF Inv, Inner
  <2>2. QED
    BY <1>6, <1>7, <1>9, <2>1 DEF Served, Covered, Alike
<1>14. QED
  BY <1>2, <1>10, <1>11, <1>12, <1>13 DEF Inv

(* A member that is not the active one leaves the set. *)
Leaves(s, d) ==
    [s EXCEPT !.dbs = @ \ {d}, !.timers = @ \ {d},
              !.conn[d] = IF @ = "closed" THEN "gone" ELSE @]

(* The others are served as before. *)
LEMMA LeavesKeeps ==
    ASSUME NEW s, Inner(s), NEW d \in Database, d # s.active
    PROVE  /\ Inner(Leaves(s, d)) /\ (Sound(s) => Sound(Leaves(s, d)))
           /\ \A ds : Covered(s, ds) => Covered(Leaves(s, d), ds)
<1>1. s \in Manager
  BY DEF Inner
<1>2. PICK dbs, timers, conn, t :
        /\ dbs = s.dbs \ {d} /\ timers = s.timers \ {d}
        /\ conn = [s.conn EXCEPT ![d] = IF @ = "closed" THEN "gone" ELSE @]
        /\ t = [s EXCEPT !.dbs = dbs, !.timers = timers, !.conn = conn]
  OBVIOUS
<1>3. t = Leaves(s, d)
  BY <1>1, <1>2 DEF Leaves, Manager
<1>4. dbs \in SUBSET Database /\ timers \in SUBSET Database
  BY <1>1, <1>2 DEF Manager
<1>5. /\ conn \in [Database -> {"closed", "down", "ready", "gone"}]
      /\ \A e \in Database : s.conn[e] = "down" => conn[e] = "down"
  BY <1>1, <1>2 DEF Manager
<1>6. t \in Manager
  BY <1>1, <1>2, <1>4, <1>5, ZenonT(60) DEF Manager
<1>7. /\ t.active = s.active /\ t.pinned = s.pinned
      /\ t.circuit = s.circuit /\ t.gate = s.gate /\ t.inFlight = s.inFlight
      /\ t.everReady = s.everReady /\ t.torn = s.torn /\ t.late = s.late
      /\ t.timers = timers /\ t.dbs = dbs /\ t.running = s.running
      /\ t.held = s.held /\ t.sub = s.sub /\ t.moves = s.moves
      /\ t.leaving = s.leaving /\ t.listens = s.listens /\ t.overtaken = s.overtaken
      /\ t.watched = s.watched /\ t.dirty = s.dirty /\ t.watch = s.watch /\ t.tx = s.tx
      /\ t.cmd = s.cmd /\ t.conn = conn /\ t.failures = s.failures
  BY <1>1, <1>2 DEF Manager
<1>8. Served(t) /\ Subscribed(t) /\ Watches(t)
  BY <1>2, <1>7 DEF Inner, Served, Subscribed, Watches
<1>9. Behind(t)
  <2>1. s.active \in Database
    BY <1>1 DEF Manager
  <2>2. QED
    BY <1>5, <1>7, <2>1 DEF Inner, Behind
<1>10. (Sound(s) => Sound(t)) /\ \A ds : Covered(s, ds) => Covered(t, ds)
  BY <1>2, <1>7 DEF Sound, Covered
<1>11. QED
  BY <1>3, <1>6, <1>8, <1>9, <1>10 DEF Inner

(* RemoveDatabase *)
LEMMA RemoveDatabaseStep ==
    ASSUME Inv, NEW d \in Database, RemoveDatabase(d)
    PROVE  Inv'
<1>1. Inner(mgr)
  BY DEF Inv
<1>2. \/ d # mgr.active /\ mgr' = Leaves(mgr, d)
      \/ d = mgr.active /\ \E t \in Selectable(mgr, mgr.dbs \ {d}) : mgr' = Leaves(SwitchTo(Rescue(mgr), t), d)
  BY DEF RemoveDatabase, Leaves
<1>3. Stays(mgr')
  <2>1. CASE d # mgr.active /\ mgr' = Leaves(mgr, d)
    BY <1>1, <2>1, LeavesKeeps DEF Stays
  <2>2. CASE d = mgr.active /\ \E t \in Selectable(mgr, mgr.dbs \ {d}) : mgr' = Leaves(SwitchTo(Rescue(mgr), t), d)
    <3>1. PICK t \in Selectable(mgr, mgr.dbs \ {d}) : mgr' = Leaves(SwitchTo(Rescue(mgr), t), d)
      BY <2>2
    <3>2. PICK r, s : r = Rescue(mgr) /\ s = SwitchTo(r, t)
      OBVIOUS
    <3>3. t \in mgr.dbs /\ t # d /\ State(mgr.circuit[t]) = "CLOSED"
      BY <3>1 DEF Selectable, Healthy
    <3>4. /\ Inner(r) /\ r.circuit = mgr.circuit /\ r.dbs = mgr.dbs
          /\ \A ds : Covered(mgr, ds) => Covered(r, ds)
      BY <1>1, <3>2, RescueKeeps
    <3>5. Inner(s) /\ Sound(s) /\ \A ds : Covered(r, ds) => Covered(s, ds)
      BY <3>2, <3>3, <3>4, SwitchStays
    <3>6. s.active = t
      BY <3>2, <3>3, <3>4, SwitchKeeps
    <3>7. QED
      BY <3>1, <3>2, <3>3, <3>4, <3>5, <3>6, LeavesKeeps DEF Stays
  <2>3. QED
    BY <1>2, <2>1, <2>2
<1>4. QED
  BY <1>3, StepKeeps DEF RemoveDatabase

(* Close *)
LEMMA CloseStep ==
    ASSUME Inv, Close
    PROVE  Inv'
<1>1. Stays(mgr')
  BY TeardownKeeps DEF Inv, Stays, Close
<1>2. QED
  BY <1>1, StepKeeps DEF Close

-----------------------------------------------------------------------------
(* The theorems. *)

(* The invariant holds at first. *)
LEMMA InitInv == Init => Inv
<1> SUFFICES ASSUME NEW sc \in Scenario, InitWith(sc) PROVE Inv
  BY DEF Init
<1>1. FirstActive \in sc.dbs /\ sc.dbs \subseteq Database /\ None \notin Database
  BY MultiDbAssumption
<1>2. PICK dbs : dbs = sc.dbs
  OBVIOUS
<1>3. /\ Shut \in Circuit /\ State(Shut) = "CLOSED"
      /\ NoFailures \in [Database -> Nat] /\ \A d \in Database : NoFailures[d] = 0
  BY CircuitTypes DEF NoFailures
<1>4. PICK role, circuit, weight, conn, cmd, sub, watch, tx :
        /\ role = [d \in Database |-> IF d = FirstActive THEN "ACTIVE" ELSE "PASSIVE"]
        /\ circuit = [d \in Database |-> Shut]
        /\ weight = [d \in Database |-> IF d \in Heavy THEN 1 ELSE 0]
        /\ conn = [d \in Database |-> "closed"]
        /\ cmd = [c \in Command |-> [st |-> "new", at |-> None]]
        /\ sub = [d \in Database |-> FALSE]
        /\ watch = [d \in Database |-> "none"]
        /\ tx = [st |-> "idle", at |-> None, first |-> FALSE, alive |-> TRUE,
                 session |-> FALSE, unguarded |-> FALSE]
  OBVIOUS
<1>5. /\ role \in [Database -> Roles] /\ circuit \in [Database -> Circuit]
      /\ weight \in [Database -> {0, 1}]
      /\ conn \in [Database -> {"closed", "down", "ready", "gone"}]
      /\ sub \in [Database -> BOOLEAN] /\ watch \in [Database -> {"none", "live", "dirty"}]
  BY <1>3, <1>4 DEF Roles
<1>6. /\ cmd \in [Command -> Order] /\ \A c \in Command : cmd[c].st = "new"
  BY <1>4 DEF Order, Somewhere
<1>7. tx \in Session /\ tx.st = "idle" /\ ~tx.session /\ ~tx.unguarded
  BY <1>4 DEF Session, Somewhere
<1>8. PICK s : s =
        [dbs |-> dbs, active |-> FirstActive, role |-> role, circuit |-> circuit,
         weight |-> weight, gate |-> "open", inFlight |-> FALSE, pinned |-> None, loops |-> {},
         failures |-> NoFailures, watched |-> None, dirty |-> FALSE, everReady |-> FALSE,
         torn |-> FALSE, late |-> {}, running |-> FALSE, timers |-> {}, conn |-> conn,
         cmd |-> cmd, held |-> None, sub |-> sub, moves |-> {},
         leaving |-> {}, listens |-> FALSE, overtaken |-> FALSE, watch |-> watch, tx |-> tx]
  OBVIOUS
<1>9. mgr = s
  BY <1>2, <1>4, <1>8 DEF InitWith
<1>10. s \in Manager
  <2>1. dbs \in SUBSET Database /\ FirstActive \in Database /\ None \in Somewhere
    BY <1>1, <1>2 DEF Somewhere
  <2>2. QED
    BY ONLY <1>3, <1>5, <1>6, <1>7, <1>8, <2>1 DEF Manager
<1>11. Served(s) /\ Behind(s) /\ Subscribed(s) /\ Watches(s)
  BY <1>1, <1>2, <1>3, <1>6, <1>7, <1>8 DEF Served, Behind, Subscribed, Watches
<1>12. Sound(s) /\ Covered(s, adding)
  BY <1>8 DEF Sound, Covered
<1>13. Tasks
  BY DEF InitWith, Tasks, Somewhere
<1>14. QED
  BY <1>9, <1>10, <1>11, <1>12, <1>13 DEF Inv, Inner

(* Every step keeps it. *)
LEMMA NextInv == Inv /\ [Next]_vars => Inv'
<1> SUFFICES ASSUME Inv, [Next]_vars PROVE Inv'
  OBVIOUS
<1>1. CASE UNCHANGED vars
  BY <1>1 DEF Inv, Tasks, vars
<1>2. CASE Callers
  BY <1>2, DispatchStep, SettleStep, SubscribeStep, WatchStep, UnwatchStep, MultiStep, ExecStep,
     WatchReplyStep, UnwatchReplyStep, ExecReplyStep DEF Callers
<1>3. CASE Members
  BY <1>3, MemberReadyStep, MemberDropsStep, MemberErrsStep, MemberTerminatedStep,
     MemberGoneStep, GraceElapsesStep, MoveDoneStep,
     UnsubscribeReplyStep DEF Members
<1>4. CASE Background
  BY <1>4, CheckStartStep, CheckRoundStep, RecoveryProbeStep, MaybeFallbackStep,
     SearchWakesStep DEF Background
<1>5. CASE Operator
  BY <1>5, ForceStartStep, AddDatabaseStep, RemoveDatabaseStep, SetWeightStep, ForceVerdictStep,
     ReleasePinStep, ConnectStartStep, ConnectFinishStep, CloseStep, ConnectVerdictStep,
     AddVerdictStep DEF Operator
<1>6. QED
  BY <1>1, <1>2, <1>3, <1>4, <1>5 DEF Next

(* The manager keeps its invariant, whatever the members, the scenario and *)
(* the thresholds are.                                                     *)
THEOREM ManagerInvariant == Spec => []Inv
BY InitInv, NextInv, PTL DEF Spec

(* Traffic is not served by a member known to be down: behind an open gate *)
(* is a member of the set that is checked in the background and whose      *)
(* circuit is closed, and nothing bars the next failover (manager.ts,      *)
(* #switchTo, #onConnectSuccess, addDatabase).                             *)
THEOREM OpenGateServes == Spec => []ServingActive
<1>1. Inv => ServingActive
  BY DEF Inv, Inner, Manager, Served, Sound, Covered, ServingActive
<1>2. QED
  BY <1>1, ManagerInvariant, PTL

(* A switch rejects what is queued on the member it leaves, resets the     *)
(* failure counts and unpins what it does not pin (manager.ts, #repoint).  *)
THEOREM SwitchLeavesNothing == Spec => []NothingLeftBehind
<1>1. Inv => NothingLeftBehind
  BY DEF Inv, Inner, Behind, NothingLeftBehind
<1>2. QED
  BY <1>1, ManagerInvariant, PTL

(* No EXEC of a watching caller reaches a member without its watches,      *)
(* however the switches fall between its calls (index.ts, exec).           *)
THEOREM WatchSurvivesSwitch == Spec => []WatchHonoured
<1>1. Inv => WatchHonoured
  BY DEF Inv, Inner, Watches, WatchHonoured
<1>2. QED
  BY <1>1, ManagerInvariant, PTL

(* The callers' listeners are with a member that is subscribed: no switch  *)
(* loses them, and the clean-up of a move that a later switch overtook is  *)
(* skipped (index.ts, afterSwitch).  Except where a switch came back to a  *)
(* member before the reply to the UNSUBSCRIBE of its clean-up.             *)
THEOREM ListenersSubscribed == Spec => []StaysSubscribed
<1>1. Inv => StaysSubscribed
  BY DEF Inv, Inner, Subscribed, StaysSubscribed
<1>2. QED
  BY <1>1, ManagerInvariant, PTL

==============================================================================
