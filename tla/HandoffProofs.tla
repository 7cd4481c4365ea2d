---------------------------- MODULE HandoffProofs ----------------------------
(***************************************************************************)
(* The handoff of a connection: replies come where they are expected,      *)
(* timeouts are relaxed on the connection on which maintenance began and   *)
(* while it lasts, and a transaction that exec() lets through was admitted *)
(* on the connection its WATCH ran on.                                     *)
(***************************************************************************)
EXTENDS Handoff, FilterTheorems, TLAPS

Part == {"get", "watch", "unwatch", "multi", "exec"}
Tokens == [op : Nat, part : Part]
Slot == [token : Tokens, conn : Nat]
ClientType ==
    [open : BOOLEAN, up : BOOLEAN, sock : Nat, home : Nat, epoch : Nat, conn : Nat, conns : Nat,
     paused : BOOLEAN, maint : Nat, since : Nat, setting : BOOLEAN, relaxed : BOOLEAN,
     destroyed : BOOLEAN, watchEpoch : Nat, dirty : BOOLEAN, watched : SUBSET Nat, queue : Seq(Tokens),
     waiting : Seq(Slot), chain : Nat]
Op == [kind : {"get", "watch", "unwatch", "multi"},
       st : {"pending", "WatchError", "cancelled", "ok", "failed"}, watch : Nat, guard : SUBSET Nat,
       sock : Nat, epoch : Nat, conn : Nat]
Hand == [st : {"grace", "connecting", "draining", "broken", "done"}, epoch : Nat, conn : Nat]

Settings == \E s \in Scenario : DOMAIN left = DOMAIN s
Epochs == c.epoch # 0 /\ \A i \in DOMAIN hand : hand[i].st = "draining" => hand[i].epoch # 0
Types == Settings /\ c \in ClientType /\ op \in Seq(Op) /\ hand \in Seq(Hand) /\ Epochs

(* The setting follows the count, and nothing is relaxed without it.       *)
Even(s) == (s.setting <=> s.maint > 0) /\ (s.relaxed => s.maint > 0)

CoreInv == Types /\ Even(c) /\ RepliesOnCurrent

(* A socket that is not inserted yet was never the client's. *)
Waits(i) == hand[i].st # "done" => c.sock # i + 1 /\ \A n \in DOMAIN op : op[n].sock # i + 1
Sockets ==
    /\ \A i \in DOMAIN hand : Waits(i)
    /\ c.sock <= Len(hand) + 1
    /\ \A n \in DOMAIN op : op[n].sock <= Len(hand) + 1

(* A transaction that exec() let through under a WATCH: its connection is  *)
(* the one of its socket and epoch.                                        *)
Watches(n) == op[n].kind = "multi" /\ op[n].st # "WatchError" /\ op[n].watch # 0
Admitted ==
    \A n \in DOMAIN op :
        /\ Watches(n) => /\ op[n].watch = op[n].epoch
                         /\ op[n].guard \subseteq {op[n].conn}
                         /\ op[n].sock = c.sock =>
                               op[n].epoch <= c.epoch /\ (op[n].epoch = c.epoch => op[n].conn = c.conn)
        /\ op[n].kind = "multi" /\ op[n].st # "WatchError" /\ op[n].watch = 0 => op[n].guard = {}

(* exec() would see that the WATCH is not the connection's, or there is    *)
(* none.                                                                   *)
Stale == c.watchEpoch = 0 \/ c.dirty \/ c.watchEpoch # c.epoch
Watching ==
    /\ c.watchEpoch = 0 => c.watched = {}
    /\ c.open => Stale \/ (c.up /\ c.watched \subseteq {c.conn})
    /\ c.open /\ ~c.up /\ c.watchEpoch # 0 => c.dirty

(* A transaction none or only a part of which was written. *)
Held(n) == /\ Watches(n) /\ op[n].st = "pending"
           /\ \E i \in DOMAIN c.queue : c.queue[i].op = n
Moved(n) == c.sock # op[n].sock \/ c.epoch # op[n].epoch \/ ~c.up

(* Without back pressure, once a transaction waits for another connection  *)
(* than its own, all do, and no WATCH has succeeded since.                 *)
Behind ==
    ~Has("backpressure") =>
        \A n \in DOMAIN op : Held(n) /\ Moved(n) =>
            c.waiting = <<>> /\ Stale /\ \A m \in DOMAIN op : Held(m) => Moved(m)

WatchInv == Sockets /\ Admitted /\ Watching /\ Behind

(* Where onCancel restores a WATCH, the transaction ahead of it was written *)
(* as a whole.                                                             *)
NoMerging == \A s \in Scenario : "backpressure" \notin DOMAIN s \/ "cancel" \notin DOMAIN s
-----------------------------------------------------------------------------
(* What a step leaves alone. *)
SameConn == /\ c'.open = c.open /\ c'.up = c.up /\ c'.sock = c.sock
            /\ c'.epoch = c.epoch /\ c'.conn = c.conn
SameWatch == c'.watchEpoch = c.watchEpoch /\ c'.dirty = c.dirty /\ c'.watched = c.watched
SameEvents == DOMAIN left' = DOMAIN left

(* Calls are at most settled. *)
Settles ==
    /\ DOMAIN op' = DOMAIN op
    /\ \A n \in DOMAIN op :
         /\ op'[n].kind = op[n].kind /\ op'[n].watch = op[n].watch /\ op'[n].guard = op[n].guard
         /\ op'[n].sock = op[n].sock /\ op'[n].epoch = op[n].epoch /\ op'[n].conn = op[n].conn
         /\ op'[n].st # op[n].st => op[n].st = "pending" /\ op'[n].st \notin {"pending", "WatchError"}

(* Handoffs go on, or begin. *)
HandsGo ==
    /\ Len(hand) <= Len(hand')
    /\ \A i \in DOMAIN hand' : \/ i \in DOMAIN hand /\ (hand'[i].st # "done" => hand[i].st # "done")
                               \/ i > Len(hand)

(* The connection stays, and what was awaited. *)
Quiet == c'.queue = c.queue /\ c'.waiting = c.waiting /\ op' = op

(* Nothing is queued that was not before. *)
NoNewTokens == \A i \in DOMAIN c'.queue : \E j \in DOMAIN c.queue : c.queue[j] = c'.queue[i]

(* The parts of a call and of a handoff. *)
LEMMA Elements ==
    ASSUME Types
    PROVE  /\ \A n \in DOMAIN op : op[n] \in Op
           /\ \A i \in DOMAIN hand : hand[i] \in Hand
           /\ DOMAIN op = 1..Len(op) /\ Len(op) \in Nat /\ DOMAIN hand = 1..Len(hand) /\ Len(hand) \in Nat
           /\ c.queue \in Seq(Tokens) /\ c.waiting \in Seq(Slot)
<1>1. op \in Seq(Op) /\ hand \in Seq(Hand)
  BY DEF Types
<1>2. c.queue \in Seq(Tokens) /\ c.waiting \in Seq(Slot)
  BY DEF Types, ClientType
<1>3. QED
  BY <1>1, <1>2

(* The same after a step. *)
LEMMA NextElements ==
    ASSUME Types'
    PROVE  /\ \A n \in DOMAIN op' : op'[n] \in Op
           /\ \A i \in DOMAIN hand' : hand'[i] \in Hand
           /\ DOMAIN op' = 1..Len(op') /\ Len(op') \in Nat
           /\ DOMAIN hand' = 1..Len(hand') /\ Len(hand') \in Nat
           /\ c'.queue \in Seq(Tokens) /\ c'.waiting \in Seq(Slot)
<1>1. op' \in Seq(Op) /\ hand' \in Seq(Hand)
  BY DEF Types
<1>2. c'.queue \in Seq(Tokens) /\ c'.waiting \in Seq(Slot)
  BY DEF Types, ClientType
<1>3. QED
  BY <1>1, <1>2

(* An event that happens is still one of the scenario's. *)
LEMMA EventsStay ==
    ASSUME NEW event, Spend(event)
    PROVE  SameEvents
BY DEF Spend, SameEvents

(* What types a step has to show. *)
LEMMA TypesNext ==
    ASSUME Types, SameEvents, c' \in ClientType, op' \in Seq(Op), hand' \in Seq(Hand), Epochs'
    PROVE  Types'
BY DEF Types, Settings, SameEvents

(* A step that leaves the epochs and the handoffs alone. *)
LEMMA EpochsStay ==
    ASSUME Types, c'.epoch = c.epoch, hand' = hand
    PROVE  Epochs'
BY DEF Types, Epochs

(* Settling calls. *)
LEMMA SettleKeeps ==
    ASSUME Types, NEW ns, NEW st \in {"ok", "failed", "cancelled"}, op' = Settle(ns, st)
    PROVE  op' \in Seq(Op) /\ Settles
<1>1. /\ \A n \in DOMAIN op : op[n] \in Op
      /\ DOMAIN op = 1..Len(op) /\ Len(op) \in Nat
  BY Elements
<1>2. \A x \in Op : [x EXCEPT !.st = st] \in Op
  BY DEF Op
<1>3. DOMAIN op' = 1..Len(op) /\ \A n \in 1..Len(op) : op'[n] \in Op
  BY <1>1, <1>2 DEF Settle
<1>4. op' = [n \in 1..Len(op) |-> op'[n]]
  BY <1>1 DEF Settle
<1>5. op' \in Seq(Op)
  BY <1>1, <1>3, <1>4
<1>6. \A x \in Op : LET y == [x EXCEPT !.st = st]
                     IN  /\ y.kind = x.kind /\ y.watch = x.watch /\ y.guard = x.guard
                         /\ y.sock = x.sock /\ y.epoch = x.epoch /\ y.conn = x.conn
                         /\ y.st = st
  BY DEF Op
<1>7. Settles
  BY <1>1, <1>6 DEF Settle, Settles
<1>8. QED
  BY <1>5, <1>7

(* Every element of a longer sequence is one of the two parts. *)
LEMMA AppendParts ==
    ASSUME NEW S, NEW s \in Seq(S), NEW x \in S
    PROVE  /\ Append(s, x) \in Seq(S)
           /\ DOMAIN Append(s, x) = DOMAIN s \cup {Len(s) + 1} /\ Len(s) + 1 \notin DOMAIN s
           /\ Append(s, x)[Len(s) + 1] = x
           /\ \A i \in DOMAIN s : Append(s, x)[i] = s[i]
OBVIOUS

-----------------------------------------------------------------------------
(* Types, relaxed timeouts and expected replies, action by action. *)

(* A new call has its types. *)
LEMMA NewOpType ==
    ASSUME Types, NEW kind \in {"get", "watch", "unwatch", "multi"}
    PROVE  NewOp(kind) \in Op
<1>1. c.sock \in Nat /\ c.epoch \in Nat /\ c.conn \in Nat
  BY DEF Types, ClientType
<1>2. QED
  BY <1>1 DEF NewOp, Op

(* Call *)
LEMMA CallCore ==
    ASSUME CoreInv, NEW kind \in {"get", "watch", "unwatch"}, Call(kind)
    PROVE  CoreInv'
<1>1. Types /\ SameEvents
  BY EventsStay DEF CoreInv, Call
<1>2. Len(op) \in Nat /\ c.queue \in Seq(Tokens) /\ op \in Seq(Op)
  BY <1>1, Elements DEF Types
<1>3. Token(Len(op) + 1, kind) \in Tokens
  BY <1>2 DEF Token, Tokens, Part
<1>4. Append(c.queue, Token(Len(op) + 1, kind)) \in Seq(Tokens)
  BY <1>2, <1>3
<1>5. c' \in ClientType
  BY <1>1, <1>4 DEF Call, Types, ClientType
<1>6. /\ c'.epoch = c.epoch /\ c'.up = c.up /\ c'.conn = c.conn
      /\ c'.waiting = c.waiting /\ c'.maint = c.maint /\ c'.setting = c.setting /\ c'.relaxed = c.relaxed
  BY <1>1 DEF Call, Types, ClientType
<1>7. op' \in Seq(Op)
  BY <1>1, <1>2, NewOpType DEF Call
<1>8. hand' = hand
  BY DEF Call
<1>9. Types'
  BY <1>1, <1>5, <1>6, <1>7, <1>8, TypesNext, EpochsStay DEF Types
<1>10. QED
  BY <1>6, <1>9 DEF CoreInv, Even, RepliesOnCurrent, Range

(* Exec *)
LEMMA ExecCore ==
    ASSUME CoreInv, Exec
    PROVE  CoreInv'
<1>1. Types /\ SameEvents
  BY EventsStay DEF CoreInv, Exec
<1>2. Len(op) \in Nat /\ c.queue \in Seq(Tokens) /\ op \in Seq(Op) /\ c \in ClientType
  BY <1>1, Elements DEF Types
<1>3. /\ Token(Len(op) + 1, "multi") \in Tokens
      /\ Token(Len(op) + 1, "exec") \in Tokens
  BY <1>2 DEF Token, Tokens, Part
<1>4. c.queue \o <<Token(Len(op) + 1, "multi"), Token(Len(op) + 1, "exec")>> \in Seq(Tokens)
  BY <1>2, <1>3
<1> DEFINE s == [c EXCEPT !.dirty = FALSE, !.watchEpoch = 0, !.watched = {}]
           o == [NewOp("multi") EXCEPT !.watch = c.watchEpoch, !.guard = c.watched]
           q == c.queue \o <<Token(Len(op) + 1, "multi"), Token(Len(op) + 1, "exec")>>
<1>5. s \in ClientType /\ s.queue = c.queue /\ [s EXCEPT !.queue = q] \in ClientType
  BY <1>2, <1>4 DEF ClientType
<1>6. o \in Op /\ [o EXCEPT !.st = "WatchError"] \in Op
  <2>1. NewOp("multi") \in Op
    BY <1>1, NewOpType
  <2>2. c.watchEpoch \in Nat /\ c.watched \in SUBSET Nat
    BY <1>2 DEF ClientType
  <2>3. QED
    BY <2>1, <2>2 DEF Op
<1>7. \/ op' = Append(op, [o EXCEPT !.st = "WatchError"]) /\ c' = s
      \/ op' = Append(op, o) /\ c' = [s EXCEPT !.queue = q]
  <2>1. s.queue = c.queue
    BY <1>5
  <2>2. QED
    BY <2>1 DEF Exec
<1>8. c' \in ClientType /\ op' \in Seq(Op)
  <2>1. Append(op, o) \in Seq(Op) /\ Append(op, [o EXCEPT !.st = "WatchError"]) \in Seq(Op)
    <3> HIDE DEF o
    <3>1. QED
      BY <1>2, <1>6
  <2> HIDE DEF s, o, q
  <2>2. QED
    BY ONLY <1>5, <1>7, <2>1
<1>9. /\ c'.epoch = c.epoch /\ c'.up = c.up /\ c'.conn = c.conn
      /\ c'.waiting = c.waiting /\ c'.maint = c.maint /\ c'.setting = c.setting /\ c'.relaxed = c.relaxed
  BY <1>2, <1>7 DEF ClientType
<1>10. hand' = hand
  BY DEF Exec
<1>11. Types'
  BY <1>1, <1>8, <1>9, <1>10, TypesNext, EpochsStay DEF Types
<1>12. QED
  BY <1>9, <1>11 DEF CoreInv, Even, RepliesOnCurrent, Range

(* What a cancelled transaction leaves in the queue. *)
LEMMA FilterElements ==
    ASSUME NEW q \in Seq(Tokens), NEW keep
    PROVE  /\ Filter(q, keep) \in Seq(Tokens)
           /\ \A i \in DOMAIN Filter(q, keep) :
                 Filter(q, keep)[i] \in keep /\ \E j \in DOMAIN q : q[j] = Filter(q, keep)[i]
<1> DEFINE f == Filter(q, keep)
<1>1. f \in Seq(Tokens) /\ {f[i] : i \in DOMAIN f} = {q[i] : i \in DOMAIN q} \cap keep
  BY ONLY q \in Seq(Tokens), FilterType, SMTT(30)
<1> HIDE DEF f
<1>2. ASSUME NEW i \in DOMAIN f PROVE f[i] \in keep /\ \E j \in DOMAIN q : q[j] = f[i]
  <2>1. f[i] \in {q[j] : j \in DOMAIN q} \cap keep
    BY <1>1
  <2>2. QED
    BY <2>1
<1>3. QED
  BY <1>1, <1>2 DEF f

(* Cancel *)
LEMMA CancelCore ==
    ASSUME CoreInv, NEW n \in DOMAIN op, Cancel(n)
    PROVE  /\ CoreInv' /\ Settles
           /\ c'.queue = Filter(c.queue, {t \in Range(c.queue) : t.op # n})
           /\ c'.watchEpoch = (IF c.watchEpoch = 0 THEN op[n].watch ELSE c.watchEpoch)
           /\ c'.dirty = (c.dirty \/ (op[n].watch # 0 /\ ConnectionLeft(op[n])))
           /\ c'.watched = c.watched \cup op[n].guard
           /\ c'.waiting = c.waiting /\ SameConn
<1>1. Types /\ SameEvents
  BY EventsStay DEF CoreInv, Cancel
<1>2. op \in Seq(Op) /\ c \in ClientType /\ c.queue \in Seq(Tokens) /\ op[n] \in Op
  BY <1>1, Elements DEF Types
<1>3. op[n].watch \in Nat /\ op[n].guard \in SUBSET Nat
  BY <1>2 DEF Op
<1>4. Filter(c.queue, {t \in Range(c.queue) : t.op # n}) \in Seq(Tokens)
  BY <1>2, FilterElements
<1>5. /\ c' \in ClientType
      /\ c'.queue = Filter(c.queue, {t \in Range(c.queue) : t.op # n})
      /\ c'.watchEpoch = (IF c.watchEpoch = 0 THEN op[n].watch ELSE c.watchEpoch)
      /\ c'.dirty = (c.dirty \/ (op[n].watch # 0 /\ ConnectionLeft(op[n])))
      /\ c'.watched = c.watched \cup op[n].guard
      /\ c'.waiting = c.waiting /\ c'.maint = c.maint /\ c'.setting = c.setting /\ c'.relaxed = c.relaxed
      /\ SameConn
  <2> DEFINE q == Filter(c.queue, {t \in Range(c.queue) : t.op # n})
             d == c.dirty \/ (op[n].watch # 0 /\ ConnectionLeft(op[n]))
             w == IF c.watchEpoch = 0 THEN op[n].watch ELSE c.watchEpoch
             g == c.watched \cup op[n].guard
  <2>1. c' = [c EXCEPT !.queue = q, !.watchEpoch = w, !.dirty = d, !.watched = g]
    BY <1>2 DEF Cancel, ClientType
  <2>2. q \in Seq(Tokens) /\ d \in BOOLEAN /\ w \in Nat /\ g \in SUBSET Nat
    BY <1>2, <1>3, <1>4 DEF ClientType
  <2> HIDE DEF q, d, w, g
  <2>3. c' \in ClientType
    BY <1>2, <2>1, <2>2 DEF ClientType
  <2>4. /\ c'.queue = q /\ c'.watchEpoch = w /\ c'.dirty = d /\ c'.watched = g
        /\ c'.waiting = c.waiting
        /\ c'.maint = c.maint /\ c'.setting = c.setting /\ c'.relaxed = c.relaxed
        /\ SameConn
    BY <1>2, <2>1 DEF ClientType, SameConn
  <2>5. QED
    BY <2>3, <2>4 DEF q, d, w, g
<1>6. op' \in Seq(Op) /\ Settles
  <2>1. op' = [op EXCEPT ![n].st = "cancelled"] /\ op[n].st = "pending"
    BY DEF Cancel
  <2>2. op' = Settle({n}, "cancelled")
    BY <2>1 DEF Settle
  <2>3. QED
    BY <1>1, <2>2, SettleKeeps
<1>7. Types'
  <2>1. hand' = hand
    BY DEF Cancel
  <2>2. QED
    BY <1>1, <1>5, <1>6, <2>1, TypesNext, EpochsStay DEF Types, SameConn
<1>8. CoreInv'
  BY <1>5, <1>7 DEF CoreInv, Even, RepliesOnCurrent, Range, SameConn
<1>9. QED
  BY <1>5, <1>6, <1>8

(* Write *)
LEMMA WriteCore ==
    ASSUME CoreInv, Write
    PROVE  /\ CoreInv' /\ SameConn /\ SameWatch /\ NoNewTokens
           /\ ~Has("backpressure") => c'.queue = <<>>
<1>1. Types /\ SameEvents /\ c \in ClientType /\ c.queue \in Seq(Tokens) /\ c.waiting \in Seq(Slot)
  <2>1. Types /\ SameEvents
    BY DEF CoreInv, Write, SameEvents
  <2>2. QED
    BY <2>1, Elements DEF Types
<1>2. PICK k \in 1..Len(c.queue) :
        /\ ~Has("backpressure") => k = Len(c.queue)
        /\ c' = [c EXCEPT
            !.queue = SubSeq(@, k + 1, Len(@)),
            !.waiting = @ \o [i \in 1..k |-> [token |-> c.queue[i], conn |-> c.conn]],
            !.chain = IF c.queue[k].part \in {"multi", "exec"} THEN c.queue[k].op ELSE 0]
  <2>1. c.queue # <<>>
    BY DEF Write
  <2>2. Len(c.queue) \in 1..Len(c.queue)
    BY <1>1, <2>1
  <2>3. QED
    BY <2>2 DEF Write
<1> DEFINE q == SubSeq(c.queue, k + 1, Len(c.queue))
           v == [i \in 1..k |-> [token |-> c.queue[i], conn |-> c.conn]]
           w == c.waiting \o v
           h == IF c.queue[k].part \in {"multi", "exec"} THEN c.queue[k].op ELSE 0
<1>3. c' = [c EXCEPT !.queue = q, !.waiting = w, !.chain = h]
  BY <1>1, <1>2 DEF ClientType
<1>4. k \in Nat /\ Len(c.queue) \in Nat /\ k <= Len(c.queue) /\ \A i \in 1..k : c.queue[i] \in Tokens
  BY <1>1, <1>2
<1>5. v \in Seq(Slot)
  <2>1. c.conn \in Nat
    BY <1>1 DEF ClientType
  <2>2. \A i \in 1..k : [token |-> c.queue[i], conn |-> c.conn] \in Slot
    BY <1>4, <2>1 DEF Slot
  <2>3. QED
    BY <1>4, <2>2
<1>6. q \in Seq(Tokens) /\ w \in Seq(Slot) /\ h \in Nat
  <2>1. q \in Seq(Tokens)
    BY <1>1, <1>2, <1>4
  <2>2. w \in Seq(Slot)
    <3> HIDE DEF v
    <3>1. QED
      BY <1>1, <1>5
  <2>3. c.queue[k] \in Tokens
    BY <1>2, <1>4
  <2>4. h \in Nat
    BY <2>3 DEF Tokens
  <2>5. QED
    BY <2>1, <2>2, <2>4
<1>7. \A j \in DOMAIN w : w[j] \in Range(c.waiting) \/ w[j].conn = c.conn
  <2>1. \A j \in DOMAIN w : w[j] \in Range(c.waiting) \/ \E i \in 1..k : w[j] = v[i]
    <3>1. DOMAIN v = 1..k /\ Len(v) = k
      BY <1>4, <1>5
    <3> HIDE DEF v
    <3>2. QED
      BY <1>1, <1>4, <1>5, <3>1 DEF Range
  <2>2. \A i \in 1..k : v[i].conn = c.conn
    OBVIOUS
  <2> HIDE DEF v, w
  <2>3. QED
    BY <2>1, <2>2
<1>8. /\ \A i \in DOMAIN q : \E j \in DOMAIN c.queue : c.queue[j] = q[i]
      /\ ~Has("backpressure") => q = <<>>
  <2>1. ASSUME NEW i \in DOMAIN q PROVE \E j \in DOMAIN c.queue : c.queue[j] = q[i]
    <3>1. i \in Nat /\ k + i \in 1..Len(c.queue) /\ q[i] = c.queue[k + i]
      BY <1>1, <1>4, SMTT(30)
    <3>2. k + i \in DOMAIN c.queue
      BY <1>1, <3>1
    <3>3. QED
      BY <3>1, <3>2
  <2>2. ~Has("backpressure") => q = <<>>
    BY <1>1, <1>2, <1>4
  <2>3. QED
    BY <2>1, <2>2
<1> HIDE DEF q, v, w, h
<1>9. /\ c' \in ClientType /\ c'.queue = q /\ c'.waiting = w
      /\ c'.maint = c.maint /\ c'.setting = c.setting /\ c'.relaxed = c.relaxed /\ SameConn /\ SameWatch
  <2>1. c' \in ClientType
    BY <1>1, <1>3, <1>6 DEF ClientType
  <2>2. QED
    BY <1>1, <1>3, <2>1 DEF ClientType, SameConn, SameWatch
<1>10. Types'
  <2>1. op' = op /\ hand' = hand
    BY DEF Write
  <2>2. QED
    BY <1>1, <1>9, <2>1, TypesNext, EpochsStay DEF Types, SameConn
<1>11. RepliesOnCurrent'
  <2>1. c.up
    BY DEF Write
  <2>2. QED
    BY <1>7, <1>9, <2>1 DEF CoreInv, RepliesOnCurrent, Range, SameConn
<1>12. QED
  BY <1>8, <1>9, <1>10, <1>11 DEF CoreInv, Even, NoNewTokens

(* The WATCH state is set, and nothing else. *)
SetsWatch(s, x, e, b, g) == x = [s EXCEPT !.watchEpoch = e, !.dirty = b, !.watched = g]
KeepsAllButWatch(s, x) ==
    /\ x.waiting = s.waiting
    /\ x.open = s.open /\ x.up = s.up /\ x.sock = s.sock /\ x.epoch = s.epoch /\ x.conn = s.conn
    /\ x.maint = s.maint /\ x.setting = s.setting /\ x.relaxed = s.relaxed /\ x.queue = s.queue

(* A client whose WATCH state is set is a client. *)
LEMMA WatchSet ==
    ASSUME NEW s \in ClientType, NEW e \in Nat, NEW g \in SUBSET Nat, NEW b \in BOOLEAN, NEW x,
           SetsWatch(s, x, e, b, g)
    PROVE  x \in ClientType /\ KeepsAllButWatch(s, x)
<1>1. x \in ClientType
  BY DEF ClientType, SetsWatch
<1>2. QED
  BY <1>1 DEF ClientType, SetsWatch, KeepsAllButWatch

(* Reply *)
LEMMA ReplyCore ==
    ASSUME CoreInv, Reply
    PROVE  /\ CoreInv' /\ Settles /\ SameConn /\ c'.queue = c.queue
           /\ \/ SameWatch
              \/ /\ c'.watchEpoch = (IF c.watchEpoch = 0 THEN c.epoch ELSE c.watchEpoch)
                 /\ c'.watched = c.watched \cup {c.conn} /\ c'.dirty = c.dirty
              \/ c'.watchEpoch = 0 /\ c'.watched = {}
<1>1. Types /\ SameEvents /\ c \in ClientType /\ c.waiting \in Seq(Slot) /\ c.waiting # <<>>
  <2>1. Types /\ SameEvents
    BY DEF CoreInv, Reply, SameEvents
  <2>2. QED
    BY <2>1, Elements DEF Types, Reply
<1> DEFINE t == Head(c.waiting).token
           s == [c EXCEPT !.waiting = Tail(@)]
           ww == [s EXCEPT !.watchEpoch = IF @ = 0 THEN c.epoch ELSE @, !.watched = @ \cup {c.conn}]
           wu == [s EXCEPT !.watchEpoch = 0, !.dirty = FALSE, !.watched = {}]
<1>2. c' = s \/ c' = ww \/ c' = wu
  BY DEF Reply
<1>3. /\ Tail(c.waiting) \in Seq(Slot)
      /\ \A i \in DOMAIN Tail(c.waiting) : Tail(c.waiting)[i] \in Range(c.waiting)
  BY <1>1 DEF Range
<1>4. /\ s \in ClientType /\ s.waiting = Tail(c.waiting)
      /\ s.watchEpoch = c.watchEpoch /\ s.dirty = c.dirty /\ s.watched = c.watched
      /\ s.open = c.open /\ s.up = c.up /\ s.sock = c.sock /\ s.epoch = c.epoch /\ s.conn = c.conn
      /\ s.maint = c.maint /\ s.setting = c.setting /\ s.relaxed = c.relaxed /\ s.queue = c.queue
  BY <1>1, <1>3 DEF ClientType
<1>5. c.epoch \in Nat /\ c.conn \in Nat
  BY <1>1 DEF ClientType
<1> HIDE DEF s
<1>6. \A x \in {ww, wu} : x \in ClientType /\ KeepsAllButWatch(s, x)
  <2>1. /\ (IF s.watchEpoch = 0 THEN c.epoch ELSE s.watchEpoch) \in Nat
        /\ s.watched \cup {c.conn} \in SUBSET Nat
    BY <1>4, <1>5 DEF ClientType
  <2>3. /\ wu = [s EXCEPT !.watchEpoch = 0, !.dirty = FALSE, !.watched = {}]
        /\ ww = [s EXCEPT !.watchEpoch = IF s.watchEpoch = 0 THEN c.epoch ELSE s.watchEpoch,
                          !.dirty = s.dirty, !.watched = s.watched \cup {c.conn}]
    BY <1>4 DEF ClientType
  <2>4. s.dirty \in BOOLEAN /\ 0 \in Nat /\ {} \in SUBSET Nat
    BY <1>4 DEF ClientType
  <2>5. PICK e \in Nat, g \in SUBSET Nat :
          /\ e = IF s.watchEpoch = 0 THEN c.epoch ELSE s.watchEpoch
          /\ g = s.watched \cup {c.conn}
    BY <2>1
  <2> HIDE DEF ww, wu
  <2>6. SetsWatch(s, ww, e, s.dirty, g) /\ SetsWatch(s, wu, 0, FALSE, {})
    BY <2>3, <2>5 DEF SetsWatch
  <2>7. s \in ClientType
    BY <1>4
  <2>8. ww \in ClientType /\ KeepsAllButWatch(s, ww)
    BY ONLY <2>4, <2>5, <2>6, <2>7, WatchSet
  <2>9. wu \in ClientType /\ KeepsAllButWatch(s, wu)
    BY ONLY <2>4, <2>6, <2>7, WatchSet
  <2>10. QED
    BY <2>8, <2>9
<1>7. /\ ww.watchEpoch = (IF s.watchEpoch = 0 THEN c.epoch ELSE s.watchEpoch)
      /\ ww.watched = s.watched \cup {c.conn} /\ ww.dirty = s.dirty
      /\ wu.watchEpoch = 0 /\ wu.watched = {}
  BY <1>4 DEF ClientType
<1>8. op' \in Seq(Op) /\ Settles
  <2>1. CASE op' = op
    BY <1>1, <2>1 DEF Types, Settles
  <2>2. CASE op' = Settle({t.op}, "ok")
    BY <1>1, <2>2, SettleKeeps
  <2>3. QED
    BY <2>1, <2>2 DEF Reply
<1> HIDE DEF t, ww, wu
<1>9. /\ c' \in ClientType /\ SameConn /\ c'.queue = c.queue /\ c'.waiting = Tail(c.waiting)
      /\ c'.maint = c.maint /\ c'.setting = c.setting /\ c'.relaxed = c.relaxed
  BY <1>2, <1>4, <1>6 DEF SameConn, KeepsAllButWatch
<1>10. \/ SameWatch
       \/ /\ c'.watchEpoch = (IF c.watchEpoch = 0 THEN c.epoch ELSE c.watchEpoch)
          /\ c'.watched = c.watched \cup {c.conn} /\ c'.dirty = c.dirty
       \/ c'.watchEpoch = 0 /\ c'.watched = {}
  BY <1>2, <1>4, <1>7 DEF SameWatch
<1>11. Types'
  <2>1. hand' = hand
    BY DEF Reply
  <2>2. QED
    BY <1>1, <1>8, <1>9, <2>1, TypesNext, EpochsStay DEF Types, SameConn
<1>12. RepliesOnCurrent' /\ Even(c)'
  BY <1>3, <1>9 DEF CoreInv, RepliesOnCurrent, Even, Range, SameConn
<1>13. QED
  BY <1>8, <1>9, <1>10, <1>11, <1>12 DEF CoreInv

(* Nothing is awaited. *)
LEMMA NothingAwaited ==
    ASSUME c'.waiting = <<>>
    PROVE  RepliesOnCurrent'
<1>1. DOMAIN c'.waiting = {}
  OBVIOUS
<1>2. QED
  BY <1>1 DEF RepliesOnCurrent, Range

(* Drop *)
LEMMA DropCore ==
    ASSUME CoreInv, Drop
    PROVE  /\ CoreInv' /\ Settles /\ c'.waiting = <<>> /\ ~c'.up
           /\ c'.sock = c.sock /\ c'.epoch = c.epoch /\ c'.conn = c.conn
           /\ c'.watchEpoch = c.watchEpoch /\ c'.watched = c.watched
           /\ c'.watchEpoch # 0 => c'.dirty
<1>1. Types /\ SameEvents /\ c \in ClientType /\ c.queue \in Seq(Tokens)
  <2>1. Types /\ SameEvents
    BY EventsStay DEF CoreInv, Drop
  <2>2. QED
    BY <2>1, Elements DEF Types
<1> DEFINE tail == {t \in Range(c.queue) : t.op = c.chain /\ c.chain # 0}
           q == Filter(c.queue, Range(c.queue) \ tail)
           d == c.dirty \/ c.watchEpoch # 0
<1>2. c' = [c EXCEPT !.up = FALSE, !.waiting = <<>>, !.chain = 0, !.dirty = d, !.queue = q]
  BY <1>1 DEF Drop, ClientType
<1>3. q \in Seq(Tokens) /\ d \in BOOLEAN /\ <<>> \in Seq(Slot)
  BY <1>1, FilterElements
<1>4. op' \in Seq(Op) /\ Settles
  BY <1>1, SettleKeeps DEF Drop
<1> HIDE DEF q, tail
<1>5. c' \in ClientType
  <2> HIDE DEF d
  <2>1. QED
    BY <1>1, <1>2, <1>3 DEF ClientType
<1>6. /\ c'.waiting = <<>> /\ ~c'.up /\ c'.dirty = d
      /\ c'.sock = c.sock /\ c'.epoch = c.epoch /\ c'.conn = c.conn
      /\ c'.watchEpoch = c.watchEpoch /\ c'.watched = c.watched
      /\ c'.maint = c.maint /\ c'.setting = c.setting /\ c'.relaxed = c.relaxed
  <2> HIDE DEF d
  <2>1. QED
    BY <1>1, <1>2 DEF ClientType
<1>7. Types'
  <2>1. hand' = hand
    BY DEF Drop
  <2>2. QED
    BY <1>1, <1>4, <1>5, <1>6, <2>1, TypesNext, EpochsStay DEF Types
<1>8. QED
  BY <1>4, <1>6, <1>7, NothingAwaited DEF CoreInv, Even

(* While there is no connection, nothing is awaited. *)
LEMMA DownAwaitsNothing ==
    ASSUME CoreInv, ~c.up
    PROVE  c.waiting = <<>>
<1>1. c.waiting \in Seq(Slot)
  BY Elements DEF CoreInv
<1>2. \A i \in DOMAIN c.waiting : FALSE
  BY DEF CoreInv, RepliesOnCurrent, Range
<1>3. Len(c.waiting) = 0
  <2>1. Len(c.waiting) # 0 => 1 \in DOMAIN c.waiting
    BY <1>1
  <2>2. QED
    BY <1>2, <2>1
<1>4. QED
  BY <1>1, <1>3

(* Reconnect *)
LEMMA ReconnectCore ==
    ASSUME CoreInv, Reconnect
    PROVE  /\ CoreInv' /\ c'.waiting = <<>> /\ c'.up /\ c'.epoch = c.epoch + 1
           /\ c'.sock = c.sock /\ c'.open = c.open /\ c'.queue = c.queue /\ SameWatch
<1>1. Types /\ SameEvents /\ c \in ClientType /\ c.waiting = <<>> /\ Epochs /\ c.epoch \in Nat
  <2>1. Types /\ SameEvents /\ ~c.up
    BY DEF CoreInv, Reconnect, SameEvents
  <2>2. c \in ClientType /\ Epochs
    BY <2>1 DEF Types
  <2>3. QED
    BY <2>1, <2>2, DownAwaitsNothing DEF ClientType
<1>2. /\ c' \in ClientType /\ c'.waiting = c.waiting /\ c'.up /\ c'.epoch = c.epoch + 1
      /\ c'.sock = c.sock /\ c'.open = c.open /\ c'.queue = c.queue /\ SameWatch
      /\ c'.maint = c.maint /\ c'.setting = c.setting /\ ~c'.relaxed
  <2>1. c.conns + 1 \in Nat /\ c.epoch + 1 \in Nat
    BY <1>1 DEF ClientType
  <2>2. c' = [c EXCEPT !.up = TRUE, !.epoch = c.epoch + 1, !.conns = c.conns + 1, !.conn = c.conns + 1,
                      !.relaxed = FALSE]
    BY <1>1 DEF Reconnect, ClientType
  <2>3. c' \in ClientType
    BY <1>1, <2>1, <2>2 DEF ClientType
  <2>4. QED
    BY <1>1, <2>2, <2>3 DEF ClientType, SameWatch
<1>3. op' = op /\ hand' = hand
  BY DEF Reconnect
<1>4. Epochs'
  BY <1>1, <1>2, <1>3 DEF Epochs
<1>5. Types'
  BY <1>1, <1>2, <1>3, <1>4, TypesNext DEF Types
<1>6. QED
  BY <1>1, <1>2, <1>5, NothingAwaited DEF CoreInv, Even

(* Destroy *)
LEMMA DestroyCore ==
    ASSUME CoreInv, Destroy
    PROVE  /\ CoreInv' /\ Settles /\ c'.waiting = <<>> /\ c'.queue = <<>> /\ ~c'.open
           /\ c'.sock = c.sock /\ c'.epoch = c.epoch /\ c'.conn = c.conn /\ SameWatch
<1>1. Types /\ SameEvents /\ c \in ClientType
  BY EventsStay DEF CoreInv, Destroy, Types
<1>2. /\ c' \in ClientType /\ c'.waiting = <<>> /\ c'.queue = <<>> /\ ~c'.open
      /\ c'.sock = c.sock /\ c'.epoch = c.epoch /\ c'.conn = c.conn /\ SameWatch
      /\ c'.maint = c.maint /\ c'.setting = c.setting /\ c'.relaxed = c.relaxed
  <2>1. <<>> \in Seq(Tokens) /\ <<>> \in Seq(Slot)
    OBVIOUS
  <2>2. QED
    BY <1>1, <2>1 DEF ClientType, Destroy, SameWatch
<1>3. op' \in Seq(Op) /\ Settles
  BY <1>1, SettleKeeps DEF Destroy
<1>4. Types'
  <2>1. hand' = hand
    BY DEF Destroy
  <2>2. QED
    BY <1>1, <1>2, <1>3, <2>1, TypesNext, EpochsStay DEF Types
<1>5. QED
  BY <1>2, <1>3, <1>4, NothingAwaited DEF CoreInv, Even

-----------------------------------------------------------------------------
(* Maintenance. *)

(* A handoff that begins. *)
Begins(st) == hand' = Append(hand, [st |-> st, epoch |-> 0, conn |-> 0])

(* What counting a maintenance, and its end, make of the client. *)
SameButMaint(x, y) ==
    /\ y.open = x.open /\ y.up = x.up /\ y.sock = x.sock /\ y.epoch = x.epoch /\ y.conn = x.conn
    /\ y.watchEpoch = x.watchEpoch /\ y.dirty = x.dirty /\ y.watched = x.watched
    /\ y.queue = x.queue /\ y.waiting = x.waiting

SetsMaint(s, x, m, e, on, r) ==
    x = [s EXCEPT !.maint = m, !.since = e, !.setting = on, !.relaxed = r]

(* The relaxed timeout is on the connection on which maintenance began.    *)
Exact(s) == s.relaxed <=> s.maint > 0 /\ s.conn = s.since

(* What is left of the client when the count is set. *)
LEMMA MaintSet ==
    ASSUME NEW s \in ClientType, NEW m \in Nat, NEW e \in Nat, NEW on \in BOOLEAN, NEW r \in BOOLEAN,
           NEW x, SetsMaint(s, x, m, e, on, r)
    PROVE  /\ x \in ClientType /\ SameButMaint(s, x) /\ x.conns = s.conns
           /\ x.maint = m /\ x.since = e /\ x.setting = on /\ x.relaxed = r
<1>1. x \in ClientType
  BY DEF ClientType, SetsMaint
<1>2. QED
  BY <1>1 DEF ClientType, SetsMaint, SameButMaint

(* OnMigrating: the setting follows the count. *)
LEMMA CountedUp ==
    ASSUME NEW s \in ClientType, Even(s)
    PROVE  LET x == OnMigrating(s) IN
           /\ x \in ClientType /\ SameButMaint(s, x) /\ x.conns = s.conns /\ Even(x)
           /\ x.since \in {s.since, s.conn}
           /\ Exact(s) => Exact(x)
<1> DEFINE x == OnMigrating(s)
<1>1. /\ s.maint \in Nat /\ s.since \in Nat /\ s.conn \in Nat
      /\ s.setting \in BOOLEAN /\ s.relaxed \in BOOLEAN
  BY DEF ClientType
<1>2. CASE s.maint = 0
  <2>1. ~s.setting
    BY <1>2 DEF Even
  <2>2. SetsMaint(s, x, 1, s.conn, TRUE, TRUE)
    BY <1>2, <2>1 DEF OnMigrating, MaintenanceTimeout, SetsMaint, ClientType
  <2> HIDE DEF x
  <2>3. /\ x \in ClientType /\ SameButMaint(s, x) /\ x.conns = s.conns
        /\ x.maint = 1 /\ x.since = s.conn /\ x.setting = TRUE /\ x.relaxed = TRUE
    BY <1>1, <2>2, MaintSet
  <2>4. QED
    BY <2>3 DEF Even, Exact, SameButMaint, x
<1>3. CASE s.maint # 0
  <2>1. SetsMaint(s, x, s.maint + 1, s.since, s.setting, s.relaxed)
    BY <1>3 DEF OnMigrating, SetsMaint, ClientType
  <2>2. s.maint + 1 \in Nat
    BY <1>1
  <2> HIDE DEF x
  <2>3. /\ x \in ClientType /\ SameButMaint(s, x) /\ x.conns = s.conns
        /\ x.maint = s.maint + 1 /\ x.since = s.since /\ x.setting = s.setting /\ x.relaxed = s.relaxed
    BY <1>1, <2>1, <2>2, MaintSet
  <2>4. Even(x) /\ (Exact(s) => Exact(x))
    BY <1>1, <1>3, <2>3 DEF Even, Exact, SameButMaint
  <2>5. QED
    BY <2>3, <2>4 DEF x
<1>4. QED
  BY <1>2, <1>3

(* OnMigrated: it does, if it was set whenever the count was not zero.     *)
LEMMA CountedDown ==
    ASSUME NEW s \in ClientType, s.maint > 0 => s.setting, s.relaxed => s.setting
    PROVE  LET x == OnMigrated(s) IN
           /\ x \in ClientType /\ SameButMaint(s, x) /\ x.conns = s.conns /\ Even(x)
           /\ x.since \in {s.since, 0}
           /\ Exact(s) => Exact(x)
<1> DEFINE x == OnMigrated(s)
<1>1. /\ s.maint \in Nat /\ s.since \in Nat /\ s.conn \in Nat
      /\ s.setting \in BOOLEAN /\ s.relaxed \in BOOLEAN
  BY DEF ClientType
<1>2. CASE s.maint > 1
  <2>1. SetsMaint(s, x, s.maint - 1, s.since, s.setting, s.relaxed)
    BY <1>2 DEF OnMigrated, SetsMaint, ClientType
  <2>2. s.maint - 1 \in Nat /\ s.maint - 1 > 0
    BY <1>1, <1>2
  <2> HIDE DEF x
  <2>3. /\ x \in ClientType /\ SameButMaint(s, x) /\ x.conns = s.conns
        /\ x.maint = s.maint - 1 /\ x.since = s.since /\ x.setting = s.setting /\ x.relaxed = s.relaxed
    BY <1>1, <2>1, <2>2, MaintSet
  <2>4. Even(x) /\ (Exact(s) => Exact(x))
    BY <1>1, <1>2, <2>2, <2>3 DEF Even, Exact, SameButMaint
  <2>5. QED
    BY <2>3, <2>4 DEF x
<1>3. CASE ~(s.maint > 1)
  <2>1. SetsMaint(s, x, 0, 0, FALSE, FALSE)
    <3>1. CASE s.setting
      BY <1>1, <1>3, <3>1 DEF OnMigrated, MaintenanceTimeout, SetsMaint, ClientType
    <3>2. CASE ~s.setting
      <4>1. s.setting = FALSE /\ s.relaxed = FALSE
        BY <1>1, <3>2
      <4>2. x = [s EXCEPT !.maint = 0, !.since = 0]
        BY <1>3, <4>1 DEF OnMigrated, MaintenanceTimeout
      <4>3. QED
        BY <4>1, <4>2 DEF SetsMaint, ClientType
    <3>3. QED
      BY <3>1, <3>2
  <2> HIDE DEF x
  <2>2. /\ x \in ClientType /\ SameButMaint(s, x) /\ x.conns = s.conns
        /\ x.maint = 0 /\ x.since = 0 /\ x.setting = FALSE /\ x.relaxed = FALSE
    <3>1. PICK r \in BOOLEAN : r = FALSE
      OBVIOUS
    <3>2. PICK m \in Nat : m = 0
      OBVIOUS
    <3>3. SetsMaint(s, x, m, m, r, r)
      BY <2>1, <3>1, <3>2
    <3>4. /\ x \in ClientType /\ SameButMaint(s, x) /\ x.conns = s.conns
          /\ x.maint = m /\ x.since = m /\ x.setting = r /\ x.relaxed = r
      BY ONLY s \in ClientType, m \in Nat, r \in BOOLEAN, <3>3, MaintSet
    <3>5. QED
      BY <3>1, <3>2, <3>4
  <2>3. QED
    BY <2>2 DEF Even, Exact, x
<1>4. QED
  BY <1>2, <1>3

(* A step that only counts, pauses or connects. *)
LEMMA QuietCore ==
    ASSUME CoreInv, SameEvents, c' \in ClientType, SameButMaint(c, c'), Even(c'),
           op' = op, hand' \in Seq(Hand),
           \A i \in DOMAIN hand' : hand'[i].st = "draining" => hand'[i].epoch # 0
    PROVE  CoreInv' /\ SameConn /\ SameWatch /\ Quiet
<1>1. SameConn /\ SameWatch /\ Quiet
  BY DEF SameButMaint, SameConn, SameWatch, Quiet
<1>2. Types /\ Epochs'
  BY <1>1 DEF CoreInv, Types, Epochs, SameConn
<1>3. Types'
  BY <1>2, TypesNext DEF Types
<1>4. QED
  BY <1>1, <1>3 DEF CoreInv, Even, RepliesOnCurrent, Range, SameConn, Quiet

(* Pausing, resuming and connecting leave the rest alone. *)
LEMMA Paused ==
    ASSUME NEW s \in ClientType, NEW b \in BOOLEAN, NEW k \in Nat, NEW x,
           x = [s EXCEPT !.paused = b] \/ x = [s EXCEPT !.conns = k]
    PROVE  /\ x \in ClientType /\ SameButMaint(s, x)
           /\ x.maint = s.maint /\ x.setting = s.setting /\ x.relaxed = s.relaxed
BY DEF ClientType, SameButMaint

(* Migrating, Migrated and Moving *)
LEMMA NotifiedCore ==
    ASSUME CoreInv, Migrating \/ Migrated \/ Moving
    PROVE  CoreInv' /\ SameEvents /\ SameConn /\ SameWatch /\ Quiet /\ HandsGo
<1>1. Types /\ SameEvents /\ c \in ClientType /\ Even(c)
  BY EventsStay DEF CoreInv, Types, Migrating, Migrated, Moving, Even
<1>2. PICK x : x = OnMigrating(c)
  OBVIOUS
<1>3. x \in ClientType /\ SameButMaint(c, x) /\ Even(x)
  BY <1>1, <1>2, CountedUp
<1>4. OnMigrated(c) \in ClientType /\ SameButMaint(c, OnMigrated(c))
      /\ Even(OnMigrated(c))
  BY <1>1, CountedDown DEF Even
<1>5. c' = x \/ c' = OnMigrated(c) \/ c' = [x EXCEPT !.paused = TRUE]
  BY <1>2 DEF Migrating, Migrated, Moving
<1>6. c' \in ClientType /\ SameButMaint(c, c') /\ Even(c')
  <2>1. CASE c' = x \/ c' = OnMigrated(c)
    BY <1>3, <1>4, <2>1
  <2>2. CASE c' = [x EXCEPT !.paused = TRUE]
    <3>1. /\ c' \in ClientType /\ SameButMaint(x, c')
          /\ c'.maint = x.maint /\ c'.setting = x.setting /\ c'.relaxed = x.relaxed
      BY <1>3, <2>2, Paused
    <3>2. QED
      BY <1>3, <3>1 DEF SameButMaint, Even
  <2>3. QED
    BY <1>5, <2>1, <2>2
<1>7. op' = op /\ (hand' = hand \/ Begins("grace") \/ Begins("connecting"))
  BY DEF Migrating, Migrated, Moving, Begins
<1>8. /\ hand' \in Seq(Hand) /\ HandsGo
      /\ \A i \in DOMAIN hand' : hand'[i].st = "draining" => hand'[i].epoch # 0
  <2>1. hand \in Seq(Hand) /\ \A i \in DOMAIN hand : hand[i].st = "draining" => hand[i].epoch # 0
    BY <1>1 DEF Types, Epochs
  <2>2. CASE hand' = hand
    BY <2>1, <2>2 DEF HandsGo
  <2>3. ASSUME NEW st \in {"grace", "connecting"}, Begins(st)
        PROVE  /\ hand' \in Seq(Hand) /\ HandsGo
               /\ \A i \in DOMAIN hand' : hand'[i].st = "draining" => hand'[i].epoch # 0
    <3>1. PICK h : h = [st |-> st, epoch |-> 0, conn |-> 0]
      OBVIOUS
    <3>2. h \in Hand /\ h.st # "draining"
      BY <3>1 DEF Hand
    <3>3. hand' = Append(hand, h)
      BY <2>3, <3>1 DEF Begins
    <3>4. /\ hand' \in Seq(Hand) /\ Len(hand') = Len(hand) + 1 /\ Len(hand) \in Nat
          /\ DOMAIN hand' = DOMAIN hand \cup {Len(hand) + 1}
          /\ hand'[Len(hand) + 1] = h
          /\ \A i \in DOMAIN hand : hand'[i] = hand[i]
      BY <2>1, <3>2, <3>3, AppendParts
    <3>5. HandsGo
      BY <3>4 DEF HandsGo
    <3>6. QED
      BY <2>1, <3>2, <3>4, <3>5
  <2>4. QED
    BY <1>7, <2>2, <2>3
<1>9. QED
  BY <1>1, <1>6, <1>7, <1>8, QuietCore

(* A handoff goes on. *)
LEMMA HandStep ==
    ASSUME Types, NEW i \in DOMAIN hand, NEW h \in Hand, h.st = "draining" => h.epoch # 0,
           hand' = [hand EXCEPT ![i] = h], h.st = "done" \/ hand[i].st # "done"
    PROVE  /\ hand' \in Seq(Hand) /\ HandsGo /\ Len(hand') = Len(hand)
           /\ \A j \in DOMAIN hand' : hand'[j].st = "draining" => hand'[j].epoch # 0
<1>1. hand \in Seq(Hand) /\ \A j \in DOMAIN hand : hand[j].st = "draining" => hand[j].epoch # 0
  BY DEF Types, Epochs
<1>2. /\ hand' \in Seq(Hand) /\ Len(hand') = Len(hand) /\ Len(hand) \in Nat /\ DOMAIN hand' = DOMAIN hand
      /\ hand'[i] = h /\ \A j \in DOMAIN hand : j # i => hand'[j] = hand[j]
  BY <1>1
<1>3. HandsGo
  BY <1>2 DEF HandsGo
<1>4. QED
  BY <1>1, <1>2, <1>3

(* GraceOver, TmpConnects and TmpFails *)
LEMMA HandoffCore ==
    ASSUME CoreInv, NEW i \in DOMAIN hand, GraceOver(i) \/ TmpConnects(i) \/ TmpFails(i)
    PROVE  CoreInv' /\ SameEvents /\ SameConn /\ SameWatch /\ Quiet /\ HandsGo
<1>1. /\ Types /\ SameEvents /\ c \in ClientType /\ Even(c)
      /\ hand[i] \in Hand /\ hand[i].st # "done"
  <2>1. Types
    BY DEF CoreInv
  <2>2. hand[i] \in Hand /\ c \in ClientType
    BY <2>1, Elements DEF Types
  <2>3. SameEvents
    BY EventsStay DEF GraceOver, TmpConnects, TmpFails, SameEvents
  <2>4. QED
    BY <2>1, <2>2, <2>3 DEF CoreInv, Even, GraceOver, TmpConnects, TmpFails
<1>2. c' \in ClientType /\ SameButMaint(c, c') /\ Even(c')
  <2>1. c.conns + 1 \in Nat
    BY <1>1 DEF ClientType
  <2>2. CASE c' = c
    BY <1>1, <2>2 DEF SameButMaint
  <2>3. CASE c' = [c EXCEPT !.paused = TRUE] \/ c' = [c EXCEPT !.conns = c.conns + 1]
    <3>1. /\ c' \in ClientType /\ SameButMaint(c, c')
          /\ c'.maint = c.maint /\ c'.setting = c.setting /\ c'.relaxed = c.relaxed
      BY <1>1, <2>1, <2>3, Paused
    <3>2. QED
      BY <1>1, <3>1 DEF Even
  <2>4. c' = [c EXCEPT !.conns = @ + 1] => c' = [c EXCEPT !.conns = c.conns + 1]
    BY <1>1 DEF ClientType
  <2>5. QED
    BY <2>2, <2>3, <2>4 DEF GraceOver, TmpConnects, TmpFails
<1>3. PICK h \in Hand : hand' = [hand EXCEPT ![i] = h] /\ h.st # "done" /\ (h.st = "draining" => h.epoch # 0)
  <2>1. ASSUME NEW st \in {"connecting", "broken"}, hand' = [hand EXCEPT ![i].st = st]
        PROVE  \E h \in Hand :
                 hand' = [hand EXCEPT ![i] = h] /\ h.st # "done" /\ (h.st = "draining" => h.epoch # 0)
    <3>1. [hand[i] EXCEPT !.st = st] \in Hand /\ [hand[i] EXCEPT !.st = st].st = st
      BY <1>1 DEF Hand
    <3>2. hand' = [hand EXCEPT ![i] = [hand[i] EXCEPT !.st = st]]
      BY <2>1
    <3>3. QED
      BY <3>1, <3>2
  <2>2. ASSUME NEW e \in 1..2, hand' = [hand EXCEPT ![i] = [st |-> "draining", epoch |-> e, conn |-> c.conns + 1]]
        PROVE  \E h \in Hand :
                 hand' = [hand EXCEPT ![i] = h] /\ h.st # "done" /\ (h.st = "draining" => h.epoch # 0)
    <3>1. c.conns + 1 \in Nat /\ e \in Nat /\ e # 0
      BY <1>1 DEF ClientType
    <3>2. [st |-> "draining", epoch |-> e, conn |-> c.conns + 1] \in Hand
      BY <3>1 DEF Hand
    <3>3. QED
      BY <2>2, <3>1, <3>2
  <2>3. QED
    BY <2>1, <2>2 DEF GraceOver, TmpConnects, TmpFails
<1>4. /\ hand' \in Seq(Hand) /\ HandsGo
      /\ \A j \in DOMAIN hand' : hand'[j].st = "draining" => hand'[j].epoch # 0
  BY <1>1, <1>3, HandStep
<1>5. op' = op
  BY DEF GraceOver, TmpConnects, TmpFails
<1>6. QED
  BY <1>1, <1>2, <1>4, <1>5, QuietCore

(* Swap *)
LEMMA SwapCore ==
    ASSUME CoreInv, NEW i \in DOMAIN hand, Swap(i)
    PROVE  /\ CoreInv' /\ op' = op /\ c'.waiting = <<>> /\ c'.sock = i + 1 /\ c'.up
           /\ c'.watchEpoch = c.watchEpoch /\ c'.watched = c.watched
           /\ c'.watchEpoch # 0 => c'.dirty
           /\ c'.queue = c.queue
           /\ hand[i].st # "done" /\ HandsGo /\ Len(hand') = Len(hand) /\ hand'[i].st = "done"
<1>1. /\ Types /\ SameEvents /\ c \in ClientType /\ Even(c)
      /\ hand[i] \in Hand /\ hand[i].st = "draining" /\ hand[i].epoch # 0 /\ i + 1 \in Nat
      /\ c.waiting = <<>>
  <2>1. Types /\ SameEvents
    BY DEF CoreInv, Swap, SameEvents
  <2>2. hand[i] \in Hand /\ c \in ClientType /\ i \in Nat
    BY <2>1, Elements DEF Types
  <2>3. QED
    BY <2>1, <2>2 DEF CoreInv, Even, Swap, Types, Epochs, Drained
<1>2. PICK x : x = Inserted(c, i)
  OBVIOUS
<1>3. PICK y : y = [x EXCEPT !.paused = FALSE]
  OBVIOUS
<1>4. c' = OnMigrated(y)
  BY <1>2, <1>3 DEF Swap, Resumed
<1>5. /\ x \in ClientType /\ x.sock = i + 1 /\ x.up /\ x.epoch = hand[i].epoch
      /\ x.setting = TRUE /\ x.relaxed = FALSE /\ x.maint = c.maint
      /\ x.watchEpoch = c.watchEpoch /\ x.watched = c.watched
      /\ x.watchEpoch # 0 => x.dirty
      /\ x.queue = c.queue /\ x.waiting = c.waiting
  <2>1. hand[i].epoch \in Nat /\ hand[i].conn \in Nat
    BY <1>1 DEF Hand
  <2>2. PICK d \in BOOLEAN : d = (c.dirty \/ c.watchEpoch # 0)
    OBVIOUS
  <2>3. x = [c EXCEPT !.sock = i + 1, !.open = TRUE, !.up = TRUE, !.epoch = hand[i].epoch,
                      !.conn = hand[i].conn, !.setting = TRUE, !.relaxed = FALSE, !.dirty = d]
    BY <1>1, <1>2, <2>2 DEF Inserted, ClientType
  <2>4. x \in ClientType
    BY <1>1, <2>1, <2>3 DEF ClientType
  <2>5. QED
    BY <1>1, <2>2, <2>3, <2>4 DEF ClientType
<1>6. /\ y \in ClientType /\ SameButMaint(x, y)
      /\ y.maint = x.maint /\ y.setting = x.setting /\ y.relaxed = x.relaxed
  BY <1>3, <1>5, Paused
<1>7. c' \in ClientType /\ SameButMaint(y, c') /\ Even(c')
  <2>1. y.setting /\ ~y.relaxed
    BY <1>5, <1>6
  <2>2. QED
    BY <1>4, <1>6, <2>1, CountedDown
<1>8. /\ c'.sock = i + 1 /\ c'.up /\ c'.epoch = hand[i].epoch
      /\ c'.watchEpoch = c.watchEpoch /\ c'.watched = c.watched
      /\ c'.watchEpoch # 0 => c'.dirty
      /\ c'.queue = c.queue /\ c'.waiting = <<>>
  BY <1>1, <1>5, <1>6, <1>7 DEF SameButMaint
<1>9. op' = op /\ hand' = [hand EXCEPT ![i].st = "done"]
  BY DEF Swap
<1>10. PICK h : h = [hand[i] EXCEPT !.st = "done"]
  OBVIOUS
<1>11. h \in Hand /\ h.st = "done"
  BY <1>1, <1>10 DEF Hand
<1>12. hand' = [hand EXCEPT ![i] = h]
  BY <1>9, <1>10
<1>13. /\ hand' \in Seq(Hand) /\ HandsGo /\ Len(hand') = Len(hand) /\ hand'[i].st = "done"
       /\ \A j \in DOMAIN hand' : hand'[j].st = "draining" => hand'[j].epoch # 0
  BY <1>1, <1>11, <1>12, HandStep
<1>14. Types'
  <2>1. Epochs'
    BY <1>1, <1>8, <1>13 DEF Epochs
  <2>2. QED
    BY <1>1, <1>7, <1>9, <1>13, <2>1, TypesNext DEF Types
<1>15. QED
  BY <1>1, <1>7, <1>8, <1>9, <1>13, <1>14, NothingAwaited DEF CoreInv, Even

-----------------------------------------------------------------------------
(* The connection that is relaxed. *)

(* A duplicate's connection was never the client's, nor another            *)
(* duplicate's.                                                            *)
Drains(i) == hand[i].st = "draining"
Serials ==
    /\ c.conn <= c.conns /\ c.since <= c.conns
    /\ \A i \in DOMAIN hand :
          Drains(i) => hand[i].conn \in 1..c.conns /\ hand[i].conn # c.conn /\ hand[i].conn # c.since
    /\ \A i \in DOMAIN hand : \A j \in DOMAIN hand :
          Drains(i) /\ Drains(j) /\ i # j => hand[i].conn # hand[j].conn
SinceInv == Serials /\ Exact(c)

SameSince ==
    /\ c'.conn = c.conn /\ c'.conns = c.conns /\ c'.since = c.since
    /\ c'.maint = c.maint /\ c'.relaxed = c.relaxed

(* Nothing to do with connections. *)
LEMMA SinceKept ==
    ASSUME SinceInv, SameSince, hand' = hand
    PROVE  SinceInv'
BY DEF SinceInv, Serials, Exact, Drains, SameSince

(* Calls, the wire, and the end. *)
LEMMA OtherSince ==
    ASSUME c \in ClientType, SinceInv,
           \/ \E kind \in {"get", "watch", "unwatch"} : Call(kind)
           \/ Exec
           \/ \E n \in DOMAIN op : Cancel(n)
           \/ Write \/ Reply \/ Drop \/ Destroy
           \/ UNCHANGED vars
    PROVE  SinceInv'
<1>1. ASSUME NEW kind \in {"get", "watch", "unwatch"}, Call(kind) PROVE SameSince /\ hand' = hand
  BY <1>1 DEF Call, ClientType, SameSince
<1>2. ASSUME Exec PROVE SameSince /\ hand' = hand
  BY <1>2 DEF Exec, ClientType, SameSince
<1>3. ASSUME NEW n \in DOMAIN op, Cancel(n) PROVE SameSince /\ hand' = hand
  BY <1>3 DEF Cancel, ClientType, SameSince
<1>4. ASSUME Write PROVE SameSince /\ hand' = hand
  BY <1>4 DEF Write, ClientType, SameSince
<1>5. ASSUME Reply PROVE SameSince /\ hand' = hand
  BY <1>5 DEF Reply, ClientType, SameSince
<1>6. ASSUME Drop PROVE SameSince /\ hand' = hand
  BY <1>6 DEF Drop, ClientType, SameSince
<1>7. ASSUME Destroy PROVE SameSince /\ hand' = hand
  BY <1>7 DEF Destroy, ClientType, SameSince
<1>8. ASSUME UNCHANGED vars PROVE SameSince /\ hand' = hand
  BY <1>8 DEF vars, SameSince
<1>9. QED
  BY <1>1, <1>2, <1>3, <1>4, <1>5, <1>6, <1>7, <1>8, SinceKept

(* The duplicates' connections stay, while `since` is the connection it    *)
(* was, the client's, or none.                                             *)
LEMMA CountedSince ==
    ASSUME CoreInv, Serials, c' \in ClientType, Exact(c'),
           c'.conn = c.conn, c'.conns = c.conns, c'.since \in {c.since, c.conn, 0},
           \A i \in DOMAIN hand' : (i \in DOMAIN hand /\ hand'[i] = hand[i]) \/ ~Drains(i)'
    PROVE  SinceInv'
<1>1. c.conns \in Nat
  BY DEF CoreInv, Types, ClientType
<1>2. QED
  BY <1>1 DEF SinceInv, Serials, Drains, Exact

(* Migrating, Migrated and Moving *)
LEMMA NotifiedSince ==
    ASSUME CoreInv, SinceInv, Migrating \/ Migrated \/ Moving
    PROVE  SinceInv'
<1>1. Types /\ c \in ClientType /\ Even(c) /\ Serials /\ Exact(c) /\ hand \in Seq(Hand)
  BY DEF CoreInv, Types, SinceInv
<1>2. PICK x : x = OnMigrating(c)
  OBVIOUS
<1>3. PICK y : y = OnMigrated(c)
  OBVIOUS
<1>4. /\ x \in ClientType /\ Exact(x) /\ x.conn = c.conn /\ x.conns = c.conns
      /\ x.since \in {c.since, c.conn, 0}
  <2>1. /\ x \in ClientType /\ SameButMaint(c, x) /\ x.conns = c.conns
        /\ x.since \in {c.since, c.conn} /\ (Exact(c) => Exact(x))
    BY <1>1, <1>2, CountedUp
  <2>2. QED
    BY <1>1, <2>1 DEF SameButMaint
<1>5. /\ y \in ClientType /\ Exact(y) /\ y.conn = c.conn /\ y.conns = c.conns
      /\ y.since \in {c.since, c.conn, 0}
  <2>1. (c.maint > 0 => c.setting) /\ (c.relaxed => c.setting)
    BY <1>1 DEF Even
  <2>2. /\ y \in ClientType /\ SameButMaint(c, y) /\ y.conns = c.conns
        /\ y.since \in {c.since, 0} /\ (Exact(c) => Exact(y))
    BY <1>1, <1>3, <2>1, CountedDown
  <2>3. QED
    BY <1>1, <2>2 DEF SameButMaint
<1>6. c' = x \/ c' = y \/ c' = [x EXCEPT !.paused = TRUE]
  BY <1>2, <1>3 DEF Migrating, Migrated, Moving
<1>7. /\ c' \in ClientType /\ Exact(c') /\ c'.conn = c.conn /\ c'.conns = c.conns
      /\ c'.since \in {c.since, c.conn, 0}
  <2>1. CASE c' = x \/ c' = y
    BY <1>4, <1>5, <2>1
  <2>2. CASE c' = [x EXCEPT !.paused = TRUE]
    <3>1. c' \in ClientType
      BY <1>4, <2>2 DEF ClientType
    <3>2. /\ c'.conn = x.conn /\ c'.conns = x.conns /\ c'.since = x.since
          /\ c'.maint = x.maint /\ c'.relaxed = x.relaxed
      BY <1>4, <2>2 DEF ClientType
    <3>3. QED
      BY <1>4, <3>1, <3>2 DEF Exact
  <2>3. QED
    BY <1>6, <2>1, <2>2
<1>8. \A i \in DOMAIN hand' : (i \in DOMAIN hand /\ hand'[i] = hand[i]) \/ ~Drains(i)'
  <2>1. hand' = hand \/ Begins("grace") \/ Begins("connecting")
    BY DEF Migrating, Migrated, Moving, Begins
  <2>2. ASSUME NEW st \in {"grace", "connecting"}, Begins(st), NEW i \in DOMAIN hand'
        PROVE  (i \in DOMAIN hand /\ hand'[i] = hand[i]) \/ ~Drains(i)'
    <3>1. PICK h : h = [st |-> st, epoch |-> 0, conn |-> 0]
      OBVIOUS
    <3>2. h \in Hand /\ h.st # "draining"
      BY <3>1 DEF Hand
    <3>3. hand' = Append(hand, h)
      BY <2>2, <3>1 DEF Begins
    <3>4. /\ DOMAIN hand' = DOMAIN hand \cup {Len(hand) + 1} /\ hand'[Len(hand) + 1] = h
          /\ \A j \in DOMAIN hand : hand'[j] = hand[j]
      BY <1>1, <3>2, <3>3, AppendParts
    <3>5. QED
      BY <3>2, <3>4 DEF Drains
  <2>3. QED
    BY <2>1, <2>2
<1>9. QED
  BY <1>1, <1>7, <1>8, CountedSince

(* Reconnect *)
LEMMA ReconnectSince ==
    ASSUME CoreInv, SinceInv, Reconnect
    PROVE  SinceInv'
<1>1. c \in ClientType /\ Serials /\ c.conns \in Nat /\ c.since \in Nat /\ hand' = hand
      /\ hand \in Seq(Hand)
  BY DEF CoreInv, Types, SinceInv, ClientType, Reconnect
<1>2. /\ c'.conns = c.conns + 1 /\ c'.conn = c.conns + 1 /\ c'.since = c.since
      /\ c'.relaxed = FALSE
  BY <1>1 DEF Reconnect, ClientType
<1>3. c'.conn # c'.since
  BY <1>1, <1>2 DEF Serials
<1>4. \A i \in DOMAIN hand : Drains(i) =>
        hand[i].conn \in 1..c'.conns /\ hand[i].conn # c'.conn /\ hand[i].conn # c'.since
  BY <1>1, <1>2 DEF Serials
<1>5. Serials'
  BY <1>1, <1>2, <1>4 DEF Serials, Drains
<1>6. QED
  BY <1>2, <1>3, <1>5 DEF SinceInv, Exact

(* GraceOver and TmpFails *)
LEMMA WaitingSince ==
    ASSUME CoreInv, SinceInv, NEW i \in DOMAIN hand, GraceOver(i) \/ TmpFails(i)
    PROVE  SinceInv'
<1>1. c \in ClientType /\ Serials /\ Exact(c) /\ hand[i] \in Hand /\ hand \in Seq(Hand)
  BY Elements DEF CoreInv, Types, SinceInv
<1>2. SameSince /\ c' \in ClientType
  BY <1>1 DEF GraceOver, TmpFails, ClientType, SameSince
<1>3. /\ DOMAIN hand' = DOMAIN hand /\ \A j \in DOMAIN hand : j # i => hand'[j] = hand[j]
      /\ hand'[i].st # "draining"
  BY <1>1 DEF GraceOver, TmpFails, Hand
<1>4. \A j \in DOMAIN hand' : (j \in DOMAIN hand /\ hand'[j] = hand[j]) \/ ~Drains(j)'
  BY <1>3 DEF Drains
<1>5. Exact(c')
  BY <1>1, <1>2 DEF Exact, SameSince
<1>6. QED
  BY <1>1, <1>2, <1>4, <1>5, CountedSince DEF SameSince

(* TmpConnects: a connection of its own. *)
LEMMA ConnectsSince ==
    ASSUME CoreInv, SinceInv, NEW i \in DOMAIN hand, TmpConnects(i)
    PROVE  SinceInv'
<1>1. /\ c \in ClientType /\ Serials /\ Exact(c) /\ hand \in Seq(Hand)
      /\ c.conns \in Nat /\ c.conn \in Nat /\ c.since \in Nat
  BY DEF CoreInv, Types, SinceInv, ClientType
<1>2. /\ c'.conns = c.conns + 1 /\ c'.conn = c.conn /\ c'.since = c.since
      /\ c'.maint = c.maint /\ c'.relaxed = c.relaxed
  BY <1>1 DEF TmpConnects, ClientType
<1>3. /\ DOMAIN hand' = DOMAIN hand /\ \A j \in DOMAIN hand : j # i => hand'[j] = hand[j]
      /\ hand'[i].conn = c.conns + 1
  BY <1>1 DEF TmpConnects
<1>4. \A j \in DOMAIN hand : j # i /\ Drains(j)' =>
        Drains(j) /\ hand'[j].conn = hand[j].conn
  BY <1>3 DEF Drains
<1>5. \A j \in DOMAIN hand : Drains(j)' =>
        hand'[j].conn \in 1..c'.conns /\ hand'[j].conn # c'.conn /\ hand'[j].conn # c'.since
  BY <1>1, <1>2, <1>3, <1>4 DEF Serials
<1>6. \A j \in DOMAIN hand : j # i /\ Drains(j)' => hand'[j].conn # hand'[i].conn
  BY <1>1, <1>3, <1>4 DEF Serials
<1>7. \A j \in DOMAIN hand : \A k \in DOMAIN hand :
        Drains(j)' /\ Drains(k)' /\ j # k => hand'[j].conn # hand'[k].conn
  BY <1>1, <1>3, <1>4, <1>6 DEF Serials
<1>8. c'.conn <= c'.conns /\ c'.since <= c'.conns
  BY <1>1, <1>2 DEF Serials
<1>9. Serials'
  BY <1>3, <1>5, <1>7, <1>8 DEF Serials
<1>10. QED
  BY <1>1, <1>2, <1>9 DEF SinceInv, Exact

(* Swap: the connection inserted is not the one on which the maintenance   *)
(* began.                                                                  *)
LEMMA SwapSince ==
    ASSUME CoreInv, SinceInv, NEW i \in DOMAIN hand, Swap(i)
    PROVE  SinceInv'
<1>1. /\ Types /\ c \in ClientType /\ Serials /\ hand \in Seq(Hand) /\ hand[i] \in Hand
      /\ hand[i].st = "draining" /\ Drains(i) /\ i + 1 \in Nat
      /\ c.conns \in Nat /\ c.since \in Nat
  BY Elements DEF CoreInv, Types, SinceInv, ClientType, Swap, Drains
<1>2. PICK y : y = [Inserted(c, i) EXCEPT !.paused = FALSE]
  OBVIOUS
<1>3. /\ y \in ClientType /\ y.conn = hand[i].conn /\ y.conns = c.conns /\ y.since = c.since
      /\ y.setting = TRUE /\ y.relaxed = FALSE
  <2>1. hand[i].epoch \in Nat /\ hand[i].conn \in Nat
    BY <1>1 DEF Hand
  <2>2. PICK d \in BOOLEAN : d = (c.dirty \/ c.watchEpoch # 0)
    OBVIOUS
  <2>3. y = [c EXCEPT !.sock = i + 1, !.open = TRUE, !.up = TRUE, !.epoch = hand[i].epoch,
                      !.conn = hand[i].conn, !.setting = TRUE, !.relaxed = FALSE, !.dirty = d,
                      !.paused = FALSE]
    BY <1>1, <1>2, <2>2 DEF Inserted, ClientType
  <2>4. y \in ClientType
    BY <1>1, <2>1, <2>3 DEF ClientType
  <2>5. QED
    BY <1>1, <2>3, <2>4 DEF ClientType
<1>4. c' = OnMigrated(y)
  BY <1>2 DEF Swap, Resumed
<1>5. Exact(y)
  BY <1>1, <1>3 DEF Exact, Serials
<1>6. /\ c' \in ClientType /\ Exact(c') /\ c'.conn = hand[i].conn /\ c'.conns = c.conns
      /\ c'.since \in {c.since, 0}
  <2>1. /\ c' \in ClientType /\ SameButMaint(y, c') /\ c'.conns = y.conns
        /\ c'.since \in {y.since, 0} /\ (Exact(y) => Exact(c'))
    BY <1>3, <1>4, CountedDown
  <2>2. QED
    BY <1>3, <1>5, <2>1 DEF SameButMaint
<1>7. /\ DOMAIN hand' = DOMAIN hand /\ \A j \in DOMAIN hand : j # i => hand'[j] = hand[j]
      /\ hand'[i].st = "done"
  BY <1>1 DEF Swap, Hand
<1>8. \A j \in DOMAIN hand : Drains(j)' => j # i /\ Drains(j) /\ hand'[j].conn = hand[j].conn
  BY <1>7 DEF Drains
<1>9. \A j \in DOMAIN hand : Drains(j)' =>
        hand'[j].conn \in 1..c'.conns /\ hand'[j].conn # c'.conn /\ hand'[j].conn # c'.since
  BY <1>1, <1>6, <1>8 DEF Serials
<1>10. \A j \in DOMAIN hand : \A k \in DOMAIN hand :
        Drains(j)' /\ Drains(k)' /\ j # k => hand'[j].conn # hand'[k].conn
  BY <1>1, <1>8 DEF Serials
<1>11. c'.conn <= c'.conns /\ c'.since <= c'.conns
  BY <1>1, <1>6 DEF Serials
<1>12. Serials'
  BY <1>7, <1>9, <1>10, <1>11 DEF Serials
<1>13. QED
  BY <1>6, <1>12 DEF SinceInv

(* Every step keeps them. *)
LEMMA NextSince ==
    ASSUME CoreInv, SinceInv, [Next]_vars
    PROVE  SinceInv'
<1>1. c \in ClientType
  BY DEF CoreInv, Types
<1>2. CASE Migrating \/ Migrated \/ Moving
  BY <1>2, NotifiedSince
<1>3. CASE Reconnect
  BY <1>3, ReconnectSince
<1>4. ASSUME NEW i \in DOMAIN hand, GraceOver(i) \/ TmpConnects(i) \/ TmpFails(i) \/ Swap(i)
      PROVE  SinceInv'
  BY <1>4, WaitingSince, ConnectsSince, SwapSince
<1>5. QED
  BY <1>1, <1>2, <1>3, <1>4, OtherSince DEF Next, HandoffStep

-----------------------------------------------------------------------------
(* WATCH. *)

(* Sockets wait as before while the client keeps its own. *)
LEMMA SocketsKept ==
    ASSUME Types, Types', Sockets, HandsGo, c'.sock = c.sock,
           \A n \in DOMAIN op' : op'[n].sock = c.sock \/ (n \in DOMAIN op /\ op'[n].sock = op[n].sock)
    PROVE  Sockets'
<1>1. /\ \A i \in DOMAIN hand' : i \in Nat
      /\ Len(hand) \in Nat /\ Len(hand') \in Nat /\ DOMAIN hand = 1..Len(hand)
  BY Elements, NextElements
<1>2. c.sock \in Nat /\ c.sock <= Len(hand) + 1
  BY DEF Types, ClientType, Sockets
<1>3. \A n \in DOMAIN op' : op'[n].sock \in Nat /\ op'[n].sock <= Len(hand) + 1
  <2>1. SUFFICES ASSUME NEW n \in DOMAIN op' PROVE op'[n].sock \in Nat /\ op'[n].sock <= Len(hand) + 1
    OBVIOUS
  <2>2. op'[n] \in Op
    BY NextElements
  <2>3. op'[n].sock \in Nat
    BY <2>2 DEF Op
  <2>4. QED
    BY <1>2, <2>3 DEF Sockets
<1>4. \A i \in DOMAIN hand' : Waits(i)'
  <2>1. SUFFICES ASSUME NEW i \in DOMAIN hand', hand'[i].st # "done"
        PROVE  c'.sock # i + 1 /\ \A n \in DOMAIN op' : op'[n].sock # i + 1
    BY DEF Waits
  <2>2. CASE i \in DOMAIN hand /\ hand[i].st # "done"
    BY <2>2 DEF Sockets, Waits
  <2>3. CASE i > Len(hand)
    BY <1>1, <1>2, <1>3, <2>3
  <2>4. QED
    BY <2>1, <2>2, <2>3 DEF HandsGo
<1>5. c'.sock <= Len(hand') + 1 /\ \A n \in DOMAIN op' : op'[n].sock <= Len(hand') + 1
  BY <1>1, <1>2, <1>3 DEF HandsGo
<1>6. QED
  BY <1>4, <1>5 DEF Sockets

(* A call that is settled was admitted as before. *)
LEMMA AdmittedKept ==
    ASSUME Admitted, Settles, c'.sock = c.sock, c'.epoch = c.epoch, c'.conn = c.conn
    PROVE  Admitted'
BY DEF Admitted, Settles, Watches

(* A step that leaves the connection alone and adds no call. *)
LEMMA KeepInv ==
    ASSUME CoreInv, CoreInv', WatchInv, Settles, HandsGo, SameConn, SameEvents, NoNewTokens, Watching',
           \A n \in DOMAIN op : ~Has("backpressure") /\ Held(n) /\ Moved(n) /\ Held(n)' =>
               c'.waiting = <<>> /\ Stale'
    PROVE  WatchInv'
<1>1. Sockets'
  BY SocketsKept DEF CoreInv, WatchInv, SameConn, Settles
<1>2. Admitted'
  BY AdmittedKept DEF WatchInv, SameConn
<1>3. \A n \in DOMAIN op : (Held(n)' => Held(n)) /\ (Moved(n)' <=> Moved(n))
  BY DEF Held, Watches, Settles, NoNewTokens, Moved, SameConn
<1>4. Behind'
  <2>1. Has("backpressure")' <=> Has("backpressure")
    BY DEF Has, SameEvents
  <2>2. SUFFICES ASSUME ~Has("backpressure"), NEW n \in DOMAIN op, Held(n)', Moved(n)'
        PROVE  c'.waiting = <<>> /\ Stale' /\ \A m \in DOMAIN op : Held(m)' => Moved(m)'
    BY <2>1 DEF Behind, Settles
  <2>3. Held(n) /\ Moved(n)
    BY <1>3, <2>2
  <2>4. \A m \in DOMAIN op : Held(m) => Moved(m)
    BY <2>2, <2>3 DEF WatchInv, Behind
  <2>5. QED
    BY <1>3, <2>2, <2>3, <2>4
<1>5. QED
  BY <1>1, <1>2, <1>4 DEF WatchInv

(* A step to another connection, or to none. *)
LEMMA MoveInv ==
    ASSUME Settles, Sockets', Admitted', Watching', c'.waiting = <<>>,
           \A n \in DOMAIN op : Held(n)' => Moved(n)' /\ Stale'
    PROVE  WatchInv'
<1>1. Behind'
  BY DEF Behind, Settles
<1>2. QED
  BY <1>1 DEF WatchInv

(* A call is added. *)
LEMMA CallInv ==
    ASSUME CoreInv, CoreInv', WatchInv, NEW o \in Op, op' = Append(op, o), hand' = hand,
           SameConn, SameEvents, c'.waiting = c.waiting, Watching',
           SameWatch \/ c'.watchEpoch = 0,
           o.sock = c.sock, o.epoch = c.epoch,
           o.kind = "multi" /\ o.st # "WatchError" =>
               \/ o.watch = 0 /\ o.guard = {}
               \/ /\ o.watch # 0 /\ o.watch = o.epoch /\ o.guard \subseteq {o.conn}
                  /\ ~Stale /\ c.up /\ o.conn = c.conn,
           \A i \in DOMAIN c'.queue : c'.queue[i].op \in DOMAIN op => \E j \in DOMAIN c.queue : c.queue[j] = c'.queue[i]
    PROVE  WatchInv'
<1>0. Types
  BY DEF CoreInv
<1>1. PICK k : /\ DOMAIN op' = DOMAIN op \cup {k} /\ k \notin DOMAIN op /\ op'[k] = o
               /\ \A n \in DOMAIN op : op'[n] = op[n]
  <2>1. op \in Seq(Op)
    BY <1>0 DEF Types
  <2>2. QED
    BY <2>1, AppendParts
<1>2. HandsGo
  <2>1. Len(hand) \in Nat
    BY <1>0, Elements
  <2>2. QED
    BY <2>1 DEF HandsGo
<1>3. Sockets'
  BY <1>1, <1>2, SocketsKept DEF CoreInv, WatchInv, SameConn
<1>4. Admitted'
  <2>1. o.epoch \in Nat /\ c.epoch \in Nat
    BY <1>0 DEF Op, Types, ClientType
  <2>2. \A n \in DOMAIN op : Watches(n)' <=> Watches(n)
    BY <1>1 DEF Watches
  <2>3. /\ Watches(k)' => /\ o.watch = o.epoch /\ o.guard \subseteq {o.conn}
                          /\ o.epoch <= c'.epoch /\ (o.epoch = c'.epoch => o.conn = c'.conn)
        /\ o.kind = "multi" /\ o.st # "WatchError" /\ o.watch = 0 => o.guard = {}
    BY <1>1, <2>1 DEF Watches, SameConn
  <2>4. ASSUME NEW n \in DOMAIN op'
        PROVE  /\ Watches(n)' => /\ op'[n].watch = op'[n].epoch
                                 /\ op'[n].guard \subseteq {op'[n].conn}
                                 /\ op'[n].sock = c'.sock =>
                                     op'[n].epoch <= c'.epoch /\ (op'[n].epoch = c'.epoch => op'[n].conn = c'.conn)
               /\ op'[n].kind = "multi" /\ op'[n].st # "WatchError" /\ op'[n].watch = 0 => op'[n].guard = {}
    <3>1. CASE n \in DOMAIN op
      BY <1>1, <2>2, <3>1 DEF WatchInv, Admitted, SameConn
    <3>2. CASE n = k
      BY <1>1, <2>3, <3>2
    <3>3. QED
      BY <1>1, <3>1, <3>2
  <2>5. QED
    BY <2>4 DEF Admitted
<1>5. Behind'
  <2>1. Has("backpressure")' <=> Has("backpressure")
    BY DEF Has, SameEvents
  <2>2. \A n \in DOMAIN op : (Held(n)' => Held(n)) /\ (Moved(n)' <=> Moved(n))
    BY <1>1 DEF Held, Watches, Moved, SameConn
  <2>3. Held(k)' => ~Moved(k)' /\ ~Stale
    BY <1>1 DEF Held, Watches, Moved, SameConn
  <2>4. SUFFICES ASSUME ~Has("backpressure"), NEW n \in DOMAIN op', Held(n)', Moved(n)'
        PROVE  c'.waiting = <<>> /\ Stale' /\ \A m \in DOMAIN op' : Held(m)' => Moved(m)'
    BY <2>1 DEF Behind
  <2>5. n \in DOMAIN op /\ Held(n) /\ Moved(n)
    <3>1. n # k
      BY <2>3, <2>4
    <3>2. n \in DOMAIN op
      BY <1>1, <3>1
    <3>3. QED
      BY <2>2, <2>4, <3>2
  <2>6. c.waiting = <<>> /\ Stale /\ \A m \in DOMAIN op : Held(m) => Moved(m)
    BY <2>4, <2>5 DEF WatchInv, Behind
  <2>7. Stale'
    BY <2>6 DEF Stale, SameWatch, SameConn
  <2>8. \A m \in DOMAIN op' : Held(m)' => Moved(m)'
    BY <1>1, <2>2, <2>3, <2>6
  <2>9. QED
    BY <2>6, <2>7, <2>8
<1>6. QED
  BY <1>3, <1>4, <1>5 DEF WatchInv

(* What a new call is. *)
LEMMA NewOpFields ==
    ASSUME Types, NEW kind \in {"get", "watch", "unwatch", "multi"}, NEW o, o = NewOp(kind)
    PROVE  /\ o \in Op /\ o.kind = kind /\ o.st = "pending" /\ o.sock = c.sock /\ o.epoch = c.epoch
           /\ o.watch = 0 /\ o.guard = {} /\ (c.up => o.conn = c.conn)
<1>1. o \in Op
  BY NewOpType
<1>2. QED
  BY <1>1 DEF NewOp

(* Call *)
LEMMA CallWatch ==
    ASSUME CoreInv, CoreInv', WatchInv, NEW kind \in {"get", "watch", "unwatch"}, Call(kind)
    PROVE  WatchInv'
<1>1. /\ Types /\ SameEvents /\ c \in ClientType /\ c.queue \in Seq(Tokens)
      /\ Len(op) \in Nat /\ DOMAIN op = 1..Len(op)
  <2>1. Types /\ SameEvents
    BY EventsStay DEF CoreInv, Call
  <2>2. QED
    BY <2>1, Elements DEF Types
<1>2. PICK o : o = NewOp(kind)
  OBVIOUS
<1>3. o \in Op /\ o.kind # "multi" /\ o.sock = c.sock /\ o.epoch = c.epoch
  BY <1>1, <1>2, NewOpFields
<1>4. PICK t : t = Token(Len(op) + 1, kind)
  OBVIOUS
<1>5. t \in Tokens /\ t.op = Len(op) + 1 /\ t.op \notin DOMAIN op
  BY <1>1, <1>4 DEF Token, Tokens, Part
<1>6. /\ c'.queue = Append(c.queue, t) /\ SameConn /\ SameWatch /\ c'.waiting = c.waiting
  BY <1>1, <1>4 DEF Call, ClientType, SameConn, SameWatch
<1>7. \A i \in DOMAIN c'.queue : c'.queue[i].op \in DOMAIN op => \E j \in DOMAIN c.queue : c.queue[j] = c'.queue[i]
  BY ONLY <1>1, <1>5, <1>6, AppendParts
<1>8. Watching'
  BY <1>6 DEF WatchInv, Watching, Stale, SameConn, SameWatch
<1>9. op' = Append(op, o) /\ hand' = hand
  BY <1>2 DEF Call
<1>10. QED
  BY <1>1, <1>3, <1>6, <1>7, <1>8, <1>9, CallInv

(* Exec *)
LEMMA ExecWatch ==
    ASSUME CoreInv, CoreInv', WatchInv, Exec
    PROVE  WatchInv'
<1>1. /\ Types /\ SameEvents /\ c \in ClientType /\ c.queue \in Seq(Tokens)
      /\ Len(op) \in Nat /\ DOMAIN op = 1..Len(op) /\ c.open
      /\ c.watchEpoch \in Nat /\ c.watched \in SUBSET Nat /\ c.dirty \in BOOLEAN
  <2>1. Types /\ SameEvents /\ c.open
    BY EventsStay DEF CoreInv, Exec
  <2>2. c \in ClientType
    BY <2>1 DEF Types
  <2>3. QED
    BY <2>1, <2>2, Elements DEF ClientType
<1>2. PICK b : b = NewOp("multi")
  OBVIOUS
<1>3. /\ b \in Op /\ b.kind = "multi" /\ b.sock = c.sock /\ b.epoch = c.epoch
      /\ (c.up => b.conn = c.conn)
  BY <1>1, <1>2, NewOpFields
<1>4. PICK o : o = [b EXCEPT !.watch = c.watchEpoch, !.guard = c.watched]
  OBVIOUS
<1>5. /\ o \in Op /\ o.kind = "multi" /\ o.sock = c.sock /\ o.epoch = c.epoch
      /\ o.watch = c.watchEpoch /\ o.guard = c.watched /\ (c.up => o.conn = c.conn)
  BY <1>1, <1>3, <1>4 DEF Op
<1>6. PICK f : f = [o EXCEPT !.st = "WatchError"]
  OBVIOUS
<1>7. /\ f \in Op /\ f.st = "WatchError" /\ f.sock = c.sock /\ f.epoch = c.epoch
  BY <1>5, <1>6 DEF Op
<1>8. PICK u : u = <<Token(Len(op) + 1, "multi"), Token(Len(op) + 1, "exec")>>
  OBVIOUS
<1>9. u \in Seq(Tokens) /\ \A i \in DOMAIN u : u[i].op \notin DOMAIN op
  <2>1. /\ Token(Len(op) + 1, "multi") \in Tokens /\ Token(Len(op) + 1, "multi").op = Len(op) + 1
        /\ Token(Len(op) + 1, "exec") \in Tokens /\ Token(Len(op) + 1, "exec").op = Len(op) + 1
    BY <1>1 DEF Token, Tokens, Part
  <2>2. Len(op) + 1 \notin DOMAIN op
    BY <1>1
  <2>3. QED
    BY <1>8, <2>1, <2>2
<1>10. PICK s : s = [c EXCEPT !.dirty = FALSE, !.watchEpoch = 0, !.watched = {}]
  OBVIOUS
<1>11. s.queue = c.queue
  BY <1>1, <1>10 DEF ClientType
<1>12. \/ WatchLost /\ op' = Append(op, f) /\ c' = s
       \/ ~WatchLost /\ op' = Append(op, o) /\ c' = [s EXCEPT !.queue = c.queue \o u]
  BY <1>2, <1>4, <1>6, <1>8, <1>10, <1>11 DEF Exec
<1>13. /\ SameConn /\ c'.watchEpoch = 0 /\ c'.watched = {} /\ c'.waiting = c.waiting
       /\ c'.queue = c.queue \/ c'.queue = c.queue \o u
  BY <1>1, <1>10, <1>12 DEF ClientType, SameConn
<1>14. \A i \in DOMAIN c'.queue : c'.queue[i].op \in DOMAIN op => \E j \in DOMAIN c.queue : c.queue[j] = c'.queue[i]
  <2>1. CASE c'.queue = c.queue
    BY <2>1
  <2>2. CASE c'.queue = c.queue \o u
    <3>1. \A i \in DOMAIN c'.queue : (\E j \in DOMAIN c.queue : c.queue[j] = c'.queue[i])
                                     \/ (\E j \in DOMAIN u : c'.queue[i] = u[j])
      <4>1. SUFFICES ASSUME NEW i \in DOMAIN c'.queue
            PROVE  (\E j \in DOMAIN c.queue : c.queue[j] = c'.queue[i]) \/ (\E j \in DOMAIN u : c'.queue[i] = u[j])
        OBVIOUS
      <4>2. i \in 1..(Len(c.queue) + Len(u)) /\ Len(c.queue) \in Nat /\ Len(u) \in Nat
        BY ONLY <1>1, <1>9, <2>2, <4>1
      <4>3. CASE i <= Len(c.queue)
        <5>1. i \in DOMAIN c.queue /\ c'.queue[i] = c.queue[i]
          BY ONLY <1>1, <1>9, <2>2, <4>2, <4>3
        <5>2. QED
          BY <5>1
      <4>4. CASE i > Len(c.queue)
        <5>1. i - Len(c.queue) \in DOMAIN u /\ c'.queue[i] = u[i - Len(c.queue)]
          BY ONLY <1>1, <1>9, <2>2, <4>2, <4>4
        <5>2. QED
          BY <5>1
      <4>5. QED
        BY <4>2, <4>3, <4>4
    <3>2. QED
      BY <1>9, <3>1
  <2>3. QED
    BY <1>13, <2>1, <2>2
<1>15. Watching'
  BY <1>13 DEF Watching, Stale
<1>16. hand' = hand
  BY DEF Exec
<1>17. CASE op' = Append(op, f)
  BY <1>1, <1>7, <1>13, <1>14, <1>15, <1>16, <1>17, CallInv
<1>18. CASE ~WatchLost /\ op' = Append(op, o)
  <2>1. \/ o.watch = 0 /\ o.guard = {}
        \/ /\ o.watch # 0 /\ o.watch = o.epoch /\ o.guard \subseteq {o.conn}
           /\ ~Stale /\ c.up /\ o.conn = c.conn
    <3>1. CASE c.watchEpoch = 0
      BY <1>5, <3>1 DEF WatchInv, Watching
    <3>2. CASE c.watchEpoch # 0
      <4>1. ~Stale
        BY <1>18, <3>2 DEF WatchLost, Stale
      <4>2. c.up /\ c.watched \subseteq {c.conn}
        BY <1>1, <4>1 DEF WatchInv, Watching
      <4>3. QED
        BY <1>5, <3>2, <4>1, <4>2 DEF Stale
    <3>3. QED
      BY <3>1, <3>2
  <2>2. QED
    BY <1>1, <1>5, <1>13, <1>14, <1>15, <1>16, <1>18, <2>1, CallInv
<1>19. QED
  BY <1>12, <1>17, <1>18

(* Cancel: where nothing merges, the transaction is as stale as the WATCH  *)
(* it would restore, or neither is.                                        *)
LEMMA CancelWatch ==
    ASSUME NoMerging, CoreInv, CoreInv', WatchInv, NEW n \in DOMAIN op, Cancel(n)
    PROVE  WatchInv'
<1>1. /\ Types /\ Types' /\ SameEvents /\ c \in ClientType /\ c.queue \in Seq(Tokens)
      /\ op[n].watch \in Nat /\ hand' = hand /\ Len(hand) \in Nat
  <2>1. Types /\ Types' /\ SameEvents /\ hand' = hand
    BY EventsStay DEF CoreInv, Cancel
  <2>2. op[n] \in Op
    BY <2>1, Elements
  <2>3. op[n].watch \in Nat
    BY <2>2 DEF Op
  <2>4. QED
    BY <2>1, <2>3, Elements DEF Types
<1>2. /\ Settles
      /\ c'.queue = Filter(c.queue, {t \in Range(c.queue) : t.op # n})
      /\ c'.watchEpoch = (IF c.watchEpoch = 0 THEN op[n].watch ELSE c.watchEpoch)
      /\ c'.dirty = (c.dirty \/ (op[n].watch # 0 /\ ConnectionLeft(op[n])))
      /\ c'.watched = c.watched \cup op[n].guard
      /\ c'.waiting = c.waiting /\ SameConn
  BY CancelCore
<1>3. ~Has("backpressure")
  <2>1. PICK s \in Scenario : DOMAIN left = DOMAIN s
    BY <1>1 DEF Types, Settings
  <2>2. "cancel" \in DOMAIN s
    BY <2>1 DEF Cancel, Spend
  <2>3. QED
    BY <2>1, <2>2 DEF NoMerging, Has
<1>4. op[n].kind = "multi" /\ op[n].st = "pending" /\ Len(Unwritten(n)) = 2
  BY DEF Cancel
<1>5. \E i \in DOMAIN c.queue : c.queue[i].op = n
  <2> DEFINE keep == {t \in Range(c.queue) : t.op = n}
             f == Filter(c.queue, keep)
  <2>1. Len(f) = 2
    BY <1>4 DEF Unwritten
  <2>2. /\ f \in Seq(Tokens)
        /\ \A i \in DOMAIN f : f[i] \in keep /\ \E j \in DOMAIN c.queue : c.queue[j] = f[i]
    BY ONLY <1>1, FilterElements
  <2> HIDE DEF f
  <2>3. 1 \in DOMAIN f
    BY <2>1, <2>2
  <2>4. QED
    BY <2>2, <2>3
<1>6. op[n].watch # 0 => Held(n)
  BY <1>4, <1>5 DEF Held, Watches
<1>7. op[n].watch = 0 => op[n].guard = {}
  BY <1>4 DEF WatchInv, Admitted
<1>8. op[n].watch # 0 =>
          /\ op[n].watch = op[n].epoch /\ op[n].guard \subseteq {op[n].conn}
          /\ op[n].sock = c.sock => (op[n].epoch = c.epoch => op[n].conn = c.conn)
  BY <1>4 DEF WatchInv, Admitted, Watches
<1>9. op[n].watch # 0 /\ Moved(n) => c.waiting = <<>> /\ Stale /\ \A m \in DOMAIN op : Held(m) => Moved(m)
  BY <1>3, <1>6 DEF WatchInv, Behind
<1>10. Watching'
  <2>1. CASE op[n].watch = 0
    <3>1. SameWatch
      <4>1. c.dirty \in BOOLEAN
        BY <1>1 DEF ClientType
      <4>2. c'.watchEpoch = c.watchEpoch /\ c'.watched = c.watched
        BY <1>2, <1>7, <2>1
      <4>3. c'.dirty = c.dirty
        BY <1>2, <2>1, <4>1
      <4>4. QED
        BY <4>2, <4>3 DEF SameWatch
    <3>2. QED
      BY <1>2, <3>1 DEF WatchInv, Watching, Stale, SameConn, SameWatch
  <2>2. CASE op[n].watch # 0
    <3>1. c'.watchEpoch # 0
      BY <1>2, <2>2
    <3>2. c.open => Stale' \/ (c.up /\ c'.watched \subseteq {c.conn})
      <4>1. SUFFICES ASSUME c.open, ~Stale' PROVE c.up /\ c'.watched \subseteq {c.conn}
        OBVIOUS
      <4>2. ~c.dirty /\ ~ConnectionLeft(op[n]) /\ c'.watchEpoch = c.epoch
        BY <1>2, <2>2, <3>1, <4>1 DEF Stale, SameConn
      <4>3. c.up /\ c.sock = op[n].sock
        BY <4>2 DEF ConnectionLeft
      <4>4. op[n].epoch = c.epoch
        <5>1. CASE c.watchEpoch = 0
          BY <1>2, <1>8, <2>2, <4>2, <5>1
        <5>2. CASE c.watchEpoch # 0
          <6>1. ~Stale
            BY <1>2, <4>2, <5>2 DEF Stale
          <6>2. QED
            BY <1>9, <2>2, <6>1 DEF Moved
        <5>3. QED
          BY <5>1, <5>2
      <4>5. op[n].guard \subseteq {c.conn}
        BY <1>8, <2>2, <4>3, <4>4
      <4>6. c.watched \subseteq {c.conn}
        <5>1. CASE c.watchEpoch = 0
          BY <5>1 DEF WatchInv, Watching
        <5>2. CASE c.watchEpoch # 0
          <6>1. ~Stale
            BY <1>2, <4>2, <5>2 DEF Stale
          <6>2. QED
            BY <4>1, <6>1 DEF WatchInv, Watching
        <5>3. QED
          BY <5>1, <5>2
      <4>7. QED
        BY <1>2, <4>3, <4>5, <4>6
    <3>3. ~c.up => c'.dirty
      BY <1>2, <2>2 DEF ConnectionLeft
    <3>4. QED
      BY <1>2, <3>1, <3>2, <3>3 DEF Watching, SameConn
  <2>3. QED
    BY <2>1, <2>2
<1>11. ASSUME NEW m \in DOMAIN op, Held(m), Moved(m) PROVE c'.waiting = <<>> /\ Stale'
  <2>1. c.waiting = <<>> /\ Stale /\ (Held(n) => Moved(n))
    BY <1>3, <1>11 DEF WatchInv, Behind
  <2>2. Stale'
    <3>1. CASE op[n].watch = 0
      BY <1>2, <1>7, <2>1, <3>1 DEF Stale, SameConn
    <3>2. CASE op[n].watch # 0 /\ c.watchEpoch # 0
      BY <1>2, <2>1, <3>2 DEF Stale, SameConn
    <3>3. CASE op[n].watch # 0 /\ c.watchEpoch = 0
      <4>1. Moved(n)
        BY <1>6, <2>1, <3>3
      <4>2. ConnectionLeft(op[n]) \/ c.epoch # op[n].epoch
        BY <4>1 DEF Moved, ConnectionLeft
      <4>3. QED
        BY <1>2, <1>8, <3>3, <4>2 DEF Stale, SameConn
    <3>4. QED
      BY <3>1, <3>2, <3>3
  <2>3. QED
    BY <1>2, <2>1, <2>2
<1>12. NoNewTokens
  <2>1. PICK K : c'.queue = Filter(c.queue, K)
    BY <1>2
  <2>2. QED
    BY ONLY <1>1, <2>1, FilterElements DEF NoNewTokens
<1>13. HandsGo
  BY <1>1 DEF HandsGo
<1>14. QED
  BY <1>1, <1>2, <1>10, <1>11, <1>12, <1>13, KeepInv

(* Write and Reply *)
LEMMA WireWatch ==
    ASSUME CoreInv, CoreInv', WatchInv, Write \/ Reply
    PROVE  WatchInv'
<1>1. /\ Types /\ SameEvents /\ HandsGo /\ c.up /\ c.epoch # 0
      /\ c.queue \in Seq(Tokens) /\ c'.queue \in Seq(Tokens)
  <2>1. Types /\ Types' /\ SameEvents /\ hand' = hand /\ c.up
    BY DEF CoreInv, Write, Reply, SameEvents
  <2>2. Len(hand) \in Nat
    BY <2>1, Elements
  <2>3. QED
    BY <2>1, <2>2, Elements, NextElements DEF HandsGo, Types, Epochs
<1>2. CASE Write
  <2>1. SameConn /\ SameWatch /\ NoNewTokens /\ (~Has("backpressure") => c'.queue = <<>>)
    BY <1>2, WriteCore
  <2>2. Settles
    BY <1>2 DEF Write, Settles
  <2>3. Watching'
    BY <2>1 DEF WatchInv, Watching, Stale, SameConn, SameWatch
  <2>4. \A n \in DOMAIN op : ~Has("backpressure") => ~Held(n)'
    <3>1. c'.queue = <<>> => DOMAIN c'.queue = {}
      OBVIOUS
    <3>2. QED
      BY <2>1, <3>1 DEF Held
  <2>5. QED
    BY <1>1, <2>1, <2>2, <2>3, <2>4, KeepInv
<1>3. CASE Reply
  <2>1. /\ Settles /\ SameConn /\ c'.queue = c.queue
        /\ \/ SameWatch
           \/ /\ c'.watchEpoch = (IF c.watchEpoch = 0 THEN c.epoch ELSE c.watchEpoch)
              /\ c'.watched = c.watched \cup {c.conn} /\ c'.dirty = c.dirty
           \/ c'.watchEpoch = 0 /\ c'.watched = {}
    BY <1>3, ReplyCore
  <2>2. NoNewTokens
    BY <1>1, <2>1 DEF NoNewTokens
  <2>3. Watching'
    <3>1. CASE SameWatch
      BY <2>1, <3>1 DEF WatchInv, Watching, Stale, SameConn, SameWatch
    <3>2. CASE c'.watchEpoch = 0 /\ c'.watched = {}
      BY <3>2 DEF Watching, Stale
    <3>3. CASE /\ c'.watchEpoch = (IF c.watchEpoch = 0 THEN c.epoch ELSE c.watchEpoch)
               /\ c'.watched = c.watched \cup {c.conn} /\ c'.dirty = c.dirty
      <4>1. c'.watchEpoch # 0 /\ c'.up /\ c'.conn = c.conn /\ c'.open = c.open /\ c'.epoch = c.epoch
        BY <1>1, <2>1, <3>3 DEF SameConn
      <4>2. c.open => Stale' \/ c'.watched \subseteq {c.conn}
        <5>1. CASE c.watchEpoch = 0
          BY <3>3, <5>1 DEF WatchInv, Watching
        <5>2. CASE c.watchEpoch # 0
          BY <3>3, <4>1, <5>2 DEF WatchInv, Watching, Stale
        <5>3. QED
          BY <5>1, <5>2
      <4>3. QED
        BY <4>1, <4>2 DEF Watching
    <3>4. QED
      BY <2>1, <3>1, <3>2, <3>3
  <2>4. \A n \in DOMAIN op : ~Has("backpressure") => ~(Held(n) /\ Moved(n))
    <3>1. c.waiting # <<>>
      BY <1>3 DEF Reply
    <3>2. QED
      BY <3>1 DEF WatchInv, Behind
  <2>5. QED
    BY <1>1, <2>1, <2>2, <2>3, <2>4, KeepInv
<1>4. QED
  BY <1>2, <1>3

(* A step that leaves calls, connection and WATCH alone. *)
LEMMA QuietWatch ==
    ASSUME CoreInv, CoreInv', WatchInv, SameEvents, SameConn, SameWatch, Quiet, HandsGo
    PROVE  WatchInv'
<1>1. Settles /\ NoNewTokens
  BY DEF Quiet, Settles, NoNewTokens
<1>2. Watching' /\ (Stale' <=> Stale)
  BY DEF WatchInv, Watching, Stale, SameConn, SameWatch
<1>3. \A n \in DOMAIN op : ~Has("backpressure") /\ Held(n) /\ Moved(n) => c'.waiting = <<>> /\ Stale'
  BY <1>2 DEF WatchInv, Behind, Quiet
<1>4. QED
  BY <1>1, <1>2, <1>3, KeepInv

(* Drop and Destroy *)
LEMMA LostWatch ==
    ASSUME CoreInv, CoreInv', WatchInv, Drop \/ Destroy
    PROVE  WatchInv'
<1>1. Types /\ Types' /\ HandsGo
  <2>1. Types /\ Types' /\ hand' = hand
    BY DEF CoreInv, Drop, Destroy
  <2>2. Len(hand) \in Nat
    BY <2>1, Elements
  <2>3. QED
    BY <2>1, <2>2 DEF HandsGo
<1>2. /\ Settles /\ c'.waiting = <<>>
      /\ c'.sock = c.sock /\ c'.epoch = c.epoch /\ c'.conn = c.conn
      /\ c'.watchEpoch = c.watchEpoch /\ c'.watched = c.watched
  BY DropCore, DestroyCore DEF SameWatch
<1>3. \/ ~c'.up /\ (c'.watchEpoch # 0 => c'.dirty)
      \/ ~c'.open /\ c'.queue = <<>>
  BY DropCore, DestroyCore
<1>4. Sockets'
  BY <1>1, <1>2, SocketsKept DEF WatchInv, Settles
<1>5. Admitted'
  BY <1>2, AdmittedKept DEF WatchInv
<1>6. Watching'
  BY <1>2, <1>3 DEF WatchInv, Watching, Stale
<1>7. \A n \in DOMAIN op : Held(n)' => Moved(n)' /\ Stale'
  <2>1. CASE ~c'.up /\ (c'.watchEpoch # 0 => c'.dirty)
    BY <2>1 DEF Moved, Stale
  <2>2. CASE c'.queue = <<>>
    <3>1. DOMAIN c'.queue = {}
      BY <2>2
    <3>2. QED
      BY <3>1 DEF Held
  <2>3. QED
    BY <1>3, <2>1, <2>2
<1>8. QED
  BY <1>2, <1>4, <1>5, <1>6, <1>7, MoveInv

(* Reconnect *)
LEMMA ReconnectWatch ==
    ASSUME CoreInv, CoreInv', WatchInv, Reconnect
    PROVE  WatchInv'
<1>1. /\ Types /\ Types' /\ HandsGo /\ op' = op /\ c.open /\ ~c.up /\ c.epoch \in Nat
      /\ \A n \in DOMAIN op : op[n].epoch \in Nat
  <2>1. Types /\ Types' /\ hand' = hand /\ op' = op /\ c.open /\ ~c.up
    BY DEF CoreInv, Reconnect
  <2>2. Len(hand) \in Nat /\ \A n \in DOMAIN op : op[n] \in Op
    BY <2>1, Elements
  <2>3. \A x \in Op : x.epoch \in Nat
    BY DEF Op
  <2>4. c.epoch \in Nat
    BY <2>1 DEF Types, ClientType
  <2>5. QED
    BY <2>1, <2>2, <2>3, <2>4 DEF HandsGo
<1>2. /\ c'.waiting = <<>> /\ c'.up /\ c'.epoch = c.epoch + 1
      /\ c'.sock = c.sock /\ c'.open = c.open /\ c'.queue = c.queue /\ SameWatch
  BY ReconnectCore
<1>3. Settles
  BY <1>1 DEF Settles
<1>4. Sockets'
  BY <1>1, <1>2, SocketsKept DEF WatchInv
<1>5. \A n \in DOMAIN op : Watches(n) /\ op[n].sock = c.sock => op[n].epoch <= c.epoch
  BY DEF WatchInv, Admitted
<1>6. \A n \in DOMAIN op : Watches(n) /\ op[n].sock = c.sock => op[n].epoch <= c'.epoch /\ op[n].epoch # c'.epoch
  BY <1>1, <1>2, <1>5
<1>7. Admitted'
  BY <1>1, <1>2, <1>6 DEF WatchInv, Admitted, Watches
<1>8. Watching' /\ Stale'
  BY <1>1, <1>2 DEF WatchInv, Watching, Stale, SameWatch
<1>9. \A n \in DOMAIN op : Held(n)' => Moved(n)'
  BY <1>1, <1>2, <1>6 DEF Held, Watches, Moved
<1>10. QED
  BY <1>2, <1>3, <1>4, <1>7, <1>8, <1>9, MoveInv

(* Swap *)
LEMMA SwapWatch ==
    ASSUME CoreInv, CoreInv', WatchInv, NEW i \in DOMAIN hand, Swap(i)
    PROVE  WatchInv'
<1>1. /\ op' = op /\ c'.waiting = <<>> /\ c'.sock = i + 1 /\ c'.up
      /\ c'.watchEpoch = c.watchEpoch /\ c'.watched = c.watched
      /\ c'.watchEpoch # 0 => c'.dirty
      /\ c'.queue = c.queue
      /\ hand[i].st # "done" /\ HandsGo /\ Len(hand') = Len(hand) /\ hand'[i].st = "done"
  BY SwapCore
<1>2. Types /\ Types'
  BY DEF CoreInv
<1>3. /\ DOMAIN hand = 1..Len(hand) /\ DOMAIN hand' = 1..Len(hand) /\ Len(hand) \in Nat /\ i \in 1..Len(hand)
  BY <1>1, <1>2, Elements, NextElements
<1>4. \A n \in DOMAIN op : op[n].sock # i + 1 /\ op[n].sock <= Len(hand) + 1
  BY <1>1 DEF WatchInv, Sockets, Waits
<1>5. Sockets'
  <2>1. ASSUME NEW j \in DOMAIN hand', hand'[j].st # "done"
        PROVE  i + 1 # j + 1 /\ \A n \in DOMAIN op : op[n].sock # j + 1
    <3>1. j # i /\ j \in Nat
      BY <1>1, <1>3, <2>1
    <3>2. j \in DOMAIN hand /\ hand[j].st # "done"
      BY <1>1, <1>3, <2>1 DEF HandsGo
    <3>3. QED
      BY <1>3, <3>1, <3>2 DEF WatchInv, Sockets, Waits
  <2>2. i + 1 <= Len(hand') + 1
    BY <1>1, <1>3
  <2>3. \A j \in DOMAIN hand' : Waits(j)'
    BY <1>1, <2>1 DEF Waits
  <2>4. c'.sock <= Len(hand') + 1 /\ \A n \in DOMAIN op' : op'[n].sock <= Len(hand') + 1
    BY <1>1, <1>4, <2>2
  <2>5. QED
    BY <2>3, <2>4 DEF Sockets
<1>6. Admitted'
  BY <1>1, <1>4 DEF WatchInv, Admitted, Watches
<1>7. Watching' /\ Stale'
  BY <1>1 DEF WatchInv, Watching, Stale
<1>8. \A n \in DOMAIN op : Held(n)' => Moved(n)'
  BY <1>1, <1>4 DEF Moved
<1>9. Settles
  BY <1>1 DEF Settles
<1>10. QED
  BY <1>1, <1>5, <1>6, <1>7, <1>8, <1>9, MoveInv

-----------------------------------------------------------------------------
(* The theorems. *)

(* The invariant holds at first. *)
LEMMA InitInv ==
    ASSUME Init
    PROVE  CoreInv /\ SinceInv /\ WatchInv
<1>1. /\ c.open /\ c.up /\ c.sock = 1 /\ c.epoch = 1 /\ c.conn = 1 /\ c.conns = 1
      /\ c.maint = 0 /\ c.since = 0 /\ ~c.setting /\ ~c.relaxed
      /\ c.watchEpoch = 0 /\ c.watched = {} /\ c.queue = <<>> /\ c.waiting = <<>>
      /\ op = <<>> /\ hand = <<>>
  BY DEF Init
<1>2. DOMAIN op = {} /\ DOMAIN hand = {} /\ Len(hand) = 0 /\ DOMAIN c.waiting = {}
  BY <1>1
<1>3. c \in ClientType
  <2>1. <<>> \in Seq(Tokens) /\ <<>> \in Seq(Slot)
    OBVIOUS
  <2>2. QED
    BY <2>1 DEF Init, ClientType
<1>4. Types
  <2>1. Settings /\ op \in Seq(Op) /\ hand \in Seq(Hand)
    BY DEF Init, Settings
  <2>2. Epochs
    BY <1>1, <1>2 DEF Epochs
  <2>3. QED
    BY <1>3, <2>1, <2>2 DEF Types
<1>5. CoreInv
  BY <1>1, <1>2, <1>4 DEF CoreInv, Even, RepliesOnCurrent, Range
<1>6. Sockets /\ Admitted /\ Watching /\ Behind
  BY <1>1, <1>2 DEF Sockets, Admitted, Watching, Stale, Behind
<1>7. SinceInv
  BY <1>1, <1>2 DEF SinceInv, Serials, Exact
<1>8. QED
  BY <1>5, <1>6, <1>7 DEF WatchInv

(* Every step keeps the types, the count and the expected replies. *)
LEMMA NextCore ==
    ASSUME CoreInv, [Next]_vars
    PROVE  CoreInv'
<1>1. CASE UNCHANGED vars
  BY <1>1 DEF vars, CoreInv, Types, Settings, Epochs, Even, RepliesOnCurrent, Range
<1>2. ASSUME NEW kind \in {"get", "watch", "unwatch"}, Call(kind) PROVE CoreInv'
  BY <1>2, CallCore
<1>3. CASE Exec
  BY <1>3, ExecCore
<1>4. ASSUME NEW n \in DOMAIN op, Cancel(n) PROVE CoreInv'
  BY <1>4, CancelCore
<1>5. CASE Write \/ Reply
  BY <1>5, WriteCore, ReplyCore
<1>6. CASE Drop \/ Reconnect \/ Destroy
  BY <1>6, DropCore, ReconnectCore, DestroyCore
<1>7. CASE Migrating \/ Migrated \/ Moving
  BY <1>7, NotifiedCore
<1>8. ASSUME NEW i \in DOMAIN hand, GraceOver(i) \/ TmpConnects(i) \/ TmpFails(i) PROVE CoreInv'
  BY <1>8, HandoffCore
<1>9. ASSUME NEW i \in DOMAIN hand, Swap(i) PROVE CoreInv'
  BY <1>9, SwapCore
<1>10. QED
  BY <1>1, <1>2, <1>3, <1>4, <1>5, <1>6, <1>7, <1>8, <1>9 DEF Next, HandoffStep

(* Every step keeps what is known about WATCH. *)
LEMMA NextWatch ==
    ASSUME NoMerging, CoreInv, CoreInv', WatchInv, [Next]_vars
    PROVE  WatchInv'
<1>1. CASE UNCHANGED vars
  BY <1>1 DEF vars, WatchInv, Sockets, Waits, Admitted, Watches, Watching, Stale, Behind, Held, Moved, Has
<1>2. ASSUME NEW kind \in {"get", "watch", "unwatch"}, Call(kind) PROVE WatchInv'
  BY <1>2, CallWatch
<1>3. CASE Exec
  BY <1>3, ExecWatch
<1>4. ASSUME NEW n \in DOMAIN op, Cancel(n) PROVE WatchInv'
  BY <1>4, CancelWatch
<1>5. CASE Write \/ Reply
  BY <1>5, WireWatch
<1>6. CASE Drop \/ Reconnect \/ Destroy
  BY <1>6, LostWatch, ReconnectWatch
<1>7. CASE Migrating \/ Migrated \/ Moving
  BY <1>7, NotifiedCore, QuietWatch
<1>8. ASSUME NEW i \in DOMAIN hand, GraceOver(i) \/ TmpConnects(i) \/ TmpFails(i) PROVE WatchInv'
  BY <1>8, HandoffCore, QuietWatch
<1>9. ASSUME NEW i \in DOMAIN hand, Swap(i) PROVE WatchInv'
  BY <1>9, SwapWatch
<1>10. QED
  BY <1>1, <1>2, <1>3, <1>4, <1>5, <1>6, <1>7, <1>8, <1>9 DEF Next, HandoffStep

(* _insertSocket waits for the commands in flight: every reply a command   *)
(* is waiting for comes on the client's current connection.                *)
THEOREM RepliesComeOnCurrent == Spec => []RepliesOnCurrent
<1>1. Init => CoreInv
  BY InitInv
<1>2. CoreInv /\ [Next]_vars => CoreInv'
  BY NextCore
<1>3. CoreInv => RepliesOnCurrent
  BY DEF CoreInv
<1>4. QED
  BY <1>1, <1>2, <1>3, PTL DEF Spec

(* #onMigrating and #onMigrated balance, and setMaintenanceTimeout relaxes *)
(* the connection in use: through overlapping maintenances, handoffs and   *)
(* reconnections the socket's setting follows the count, and the relaxed   *)
(* timeout is on the connection the maintenance began on, and only while   *)
(* it lasts.                                                               *)
THEOREM TimeoutsRelaxedInMaintenance == Spec => []RelaxedInMaintenance
<1>1. Init => CoreInv /\ SinceInv
  BY InitInv
<1>2. CoreInv /\ SinceInv /\ [Next]_vars => (CoreInv /\ SinceInv)'
  BY NextCore, NextSince
<1>3. CoreInv /\ SinceInv => RelaxedInMaintenance
  BY DEF CoreInv, SinceInv, Even, Exact, RelaxedInMaintenance
<1>4. QED
  BY <1>1, <1>2, <1>3, PTL DEF Spec

(* _executeMulti, onCancel and _insertSocket: where no transaction is      *)
(* cancelled while the socket holds writes back, a transaction exec() lets *)
(* through was admitted on the connection its WATCH ran on.                *)
THEOREM TransactionsAreGuarded ==
    ASSUME NoMerging
    PROVE  Spec => []WatchGuards
<1>1. Init => CoreInv /\ WatchInv
  BY InitInv
<1>2. CoreInv /\ WatchInv /\ [Next]_vars => (CoreInv /\ WatchInv)'
  BY NextCore, NextWatch
<1>3. CoreInv /\ WatchInv => WatchGuards
  BY DEF WatchInv, Admitted, Watches, WatchGuards
<1>4. QED
  BY <1>1, <1>2, <1>3, PTL DEF Spec
==============================================================================
