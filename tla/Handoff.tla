------------------------------- MODULE Handoff -------------------------------
(***************************************************************************)
(* A client whose server announces maintenance: the handoff of its         *)
(* connection (client/enterprise-maintenance-manager.ts), the pause of     *)
(* writing and the swap of sockets (client/index.ts), and WATCH, whose     *)
(* state lives on the connection.                                          *)
(*                                                                         *)
(* A socket object outlives its connections, and counts them: its epoch.   *)
(* Two sockets may be in the same epoch.  Connections have serial numbers  *)
(* of their own, which the code does not see.                              *)
(***************************************************************************)
EXTENDS Integers, Sequences, Functions, Filters

CONSTANT Scenario       \* how often each external event happens

VARIABLES
    c,          \* the client: its socket, WATCH state and queue
    op,         \* the calls, in the order they were made
    hand,       \* the handoffs, in the order they were announced
    left        \* what is left of the scenario's events

vars == <<c, op, hand, left>>

Spend(event) ==
    /\ event \in DOMAIN left
    /\ left[event] > 0
    /\ left' = [left EXCEPT ![event] = @ - 1]

Has(event) == event \in DOMAIN left

-----------------------------------------------------------------------------
(* The calls.  A token is a command on its way; EXEC is what settles a     *)
(* transaction, whose tokens are "multi" and "exec".                       *)

Token(n, part) == [op |-> n, part |-> part]
Unwritten(n) == Filter(c.queue, {t \in Range(c.queue) : t.op = n})

NewOp(kind) ==
    [kind |-> kind, st |-> "pending", watch |-> 0, guard |-> {}, sock |-> c.sock,
     epoch |-> c.epoch, conn |-> IF c.up THEN c.conn ELSE 0]

Settle(ns, st) == [n \in DOMAIN op |-> IF n \in ns /\ op[n].st = "pending"
                                       THEN [op[n] EXCEPT !.st = st] ELSE op[n]]

(* GET, WATCH and UNWATCH. *)
Call(kind) ==
    /\ c.open
    /\ Spend(kind)
    /\ op' = Append(op, NewOp(kind))
    /\ c' = [c EXCEPT !.queue = Append(@, Token(Len(op) + 1, kind))]
    /\ UNCHANGED hand

(* What _executeMulti refuses. *)
WatchLost == c.dirty \/ (c.watchEpoch # 0 /\ c.watchEpoch # c.epoch)

(* exec(): the WATCH state is consumed whether or not the batch is queued. *)
Exec ==
    /\ c.open
    /\ Spend("exec")
    /\ LET n == Len(op) + 1
           s == [c EXCEPT !.dirty = FALSE, !.watchEpoch = 0, !.watched = {}]
           o == [NewOp("multi") EXCEPT !.watch = c.watchEpoch, !.guard = c.watched]
       IN  \/ /\ WatchLost
              /\ op' = Append(op, [o EXCEPT !.st = "WatchError"])
              /\ c' = s
           \/ /\ ~WatchLost
              /\ op' = Append(op, o)
              /\ c' = [s EXCEPT !.queue = @ \o <<Token(n, "multi"), Token(n, "exec")>>]
    /\ UNCHANGED hand

(* Mutant: only a reconnection of the same socket counts. *)
DirtyIfDown(o) == ~c.up

(* onCancel: did the connection the batch was admitted on go away?         *)
ConnectionLeft(o) == c.sock # o.sock \/ ~c.up

(* A transaction none of which was written times out: WATCH holds again.   *)
Cancel(n) ==
    /\ op[n].kind = "multi" /\ op[n].st = "pending" /\ Len(Unwritten(n)) = 2
    /\ Spend("cancel")
    /\ op' = [op EXCEPT ![n].st = "cancelled"]
    /\ c' = [c EXCEPT
          !.queue = Filter(@, {t \in Range(@) : t.op # n}),
          !.watchEpoch = IF @ = 0 THEN op[n].watch ELSE @,
          !.dirty = @ \/ (op[n].watch # 0 /\ ConnectionLeft(op[n])),
          !.watched = @ \cup op[n].guard]
    /\ UNCHANGED hand

-----------------------------------------------------------------------------
(* The wire. *)

(* #write: everything, unless the socket asks to drain first.              *)
Write ==
    /\ c.up /\ ~c.paused /\ c.queue # <<>>
    /\ \E k \in IF Has("backpressure") THEN 1..Len(c.queue) ELSE {Len(c.queue)} :
        c' = [c EXCEPT
            !.queue = SubSeq(@, k + 1, Len(@)),
            !.waiting = @ \o [i \in 1..k |-> [token |-> c.queue[i], conn |-> c.conn]],
            !.chain = IF c.queue[k].part \in {"multi", "exec"} THEN c.queue[k].op ELSE 0]
    /\ UNCHANGED <<op, hand, left>>

(* The next reply, and what the caller's continuation does with it.        *)
Reply ==
    LET t == Head(c.waiting).token
        s == [c EXCEPT !.waiting = Tail(@)]
    IN  /\ c.up /\ c.waiting # <<>>
        /\ c' = CASE t.part = "watch" ->
                         [s EXCEPT !.watchEpoch = IF @ = 0 THEN c.epoch ELSE @,
                                   !.watched = @ \cup {c.conn}]
                  [] t.part = "unwatch" ->
                         [s EXCEPT !.watchEpoch = 0, !.dirty = FALSE, !.watched = {}]
                  [] OTHER -> s
        /\ op' = IF t.part = "multi" THEN op ELSE Settle({t.op}, "ok")
        /\ UNCHANGED <<hand, left>>

(* The socket fails: what was written is rejected, and the rest of a       *)
(* transaction that was partly written with it.                            *)
Drop ==
    LET tail == {t \in Range(c.queue) : t.op = c.chain /\ c.chain # 0}
    IN  /\ c.up
        /\ Spend("drop")
        /\ c' = [c EXCEPT
              !.up = FALSE, !.waiting = <<>>, !.chain = 0,
              !.dirty = @ \/ c.watchEpoch # 0,
              !.queue = Filter(@, Range(@) \ tail)]
        /\ op' = Settle({w.token.op : w \in Range(c.waiting)} \cup {t.op : t \in tail}, "failed")
        /\ UNCHANGED hand

(* The socket's initiator is a closure of the client that created it: it   *)
(* queues the handshake on that client and writes it to that client's      *)
(* socket, which after a swap is the old one.  A paused client does not    *)
(* write it either.  #createSocket gives the new connection the ordinary   *)
(* timeout, whatever the setting of the socket object is.                  *)
Shakes == c.sock = c.home /\ ~c.paused

Reconnect ==
    /\ c.open /\ ~c.up
    /\ Shakes
    /\ c' = [c EXCEPT !.up = TRUE, !.epoch = @ + 1, !.conns = @ + 1, !.conn = c.conns + 1,
                      !.relaxed = FALSE]
    /\ UNCHANGED <<op, hand, left>>

(* destroy() *)
Destroy ==
    /\ c.open
    /\ Spend("destroy")
    /\ c' = [c EXCEPT !.open = FALSE, !.up = FALSE, !.queue = <<>>, !.waiting = <<>>,
                      !.destroyed = TRUE]
    /\ op' = Settle(DOMAIN op, "failed")
    /\ UNCHANGED hand

-----------------------------------------------------------------------------
(* Maintenance. *)

(* setMaintenanceTimeout: the setting is the socket object's, and is put   *)
(* on the connection it has at that moment, if any.                        *)
MaintenanceTimeout(s, on) ==
    IF s.setting = on THEN s ELSE [s EXCEPT !.setting = on, !.relaxed = on]

(* #onMigrating, #onMigrated: timeouts are relaxed when the count leaves   *)
(* zero, and ordinary again when it is back.  `since` is the connection on *)
(* which it left zero: it is here for the properties only.                 *)
OnMigrating(s) ==
    IF s.maint = 0 THEN [MaintenanceTimeout(s, TRUE) EXCEPT !.maint = 1, !.since = s.conn]
                   ELSE [s EXCEPT !.maint = @ + 1]

OnMigrated(s) ==
    IF s.maint > 1 THEN [s EXCEPT !.maint = @ - 1]
                   ELSE [MaintenanceTimeout(s, FALSE) EXCEPT !.maint = 0, !.since = 0]

Migrating ==
    /\ c.up /\ Spend("migrating")
    /\ c' = OnMigrating(c)
    /\ UNCHANGED <<op, hand>>

Migrated ==
    /\ c.up /\ Spend("migrated")
    /\ c' = OnMigrated(c)
    /\ UNCHANGED <<op, hand>>

(* MOVING with an endpoint, or without one: then half of the grace period  *)
(* passes before writing is paused.                                        *)
Moving ==
    /\ c.up /\ Spend("moving")
    /\ \/ /\ c' = [OnMigrating(c) EXCEPT !.paused = TRUE]
          /\ hand' = Append(hand, [st |-> "connecting", epoch |-> 0, conn |-> 0])
       \/ /\ c' = OnMigrating(c)
          /\ hand' = Append(hand, [st |-> "grace", epoch |-> 0, conn |-> 0])
    /\ UNCHANGED op

GraceOver(i) ==
    /\ hand[i].st = "grace"
    /\ hand' = [hand EXCEPT ![i].st = "connecting"]
    /\ c' = [c EXCEPT !.paused = TRUE]
    /\ UNCHANGED <<op, left>>

(* The duplicate connects, in one attempt or after another. *)
TmpConnects(i) ==
    /\ hand[i].st = "connecting"
    /\ \E e \in 1..2 :
        hand' = [hand EXCEPT ![i] = [st |-> "draining", epoch |-> e, conn |-> c.conns + 1]]
    /\ c' = [c EXCEPT !.conns = @ + 1]
    /\ UNCHANGED <<op, left>>

(* Its reconnectStrategy gives up: #onMoving rejects, and nobody resumes.  *)
TmpFails(i) ==
    /\ hand[i].st = "connecting"
    /\ Spend("tmpfail")
    /\ hand' = [hand EXCEPT ![i].st = "broken"]
    /\ UNCHANGED <<c, op>>

(* Mutant: the duplicate is not told of the maintenance before it connects.*)
InsertedTense(s, i) ==
    [s EXCEPT !.sock = i + 1, !.open = TRUE, !.up = TRUE, !.epoch = hand[i].epoch,
              !.conn = hand[i].conn, !.setting = FALSE, !.relaxed = FALSE,
              !.dirty = @ \/ s.watchEpoch # 0]

(* _insertSocket: the new socket is open, and in its own epoch.  The       *)
(* duplicate was told of the maintenance before it connected, which its    *)
(* connection, made afterwards, knows nothing of.                          *)
Inserted(s, i) ==
    [s EXCEPT !.sock = i + 1, !.open = TRUE, !.up = TRUE, !.epoch = hand[i].epoch,
              !.conn = hand[i].conn, !.setting = TRUE, !.relaxed = FALSE,
              !.dirty = @ \/ s.watchEpoch # 0]

(* Mutant: the swap does not wait. *)
DrainedAtOnce == TRUE

(* waitForInflightCommandsToComplete *)
Drained == c.waiting = <<>>

(* Mutant: writing is left paused. *)
StaysPaused(s) == OnMigrated(s)

Resumed(s) == OnMigrated([s EXCEPT !.paused = FALSE])

Swap(i) ==
    /\ hand[i].st = "draining"
    /\ Drained
    /\ c' = Resumed(Inserted(c, i))
    /\ hand' = [hand EXCEPT ![i].st = "done"]
    /\ UNCHANGED <<op, left>>

-----------------------------------------------------------------------------
Init ==
    /\ left \in Scenario
    /\ c = [open |-> TRUE, up |-> TRUE, sock |-> 1, home |-> 1, epoch |-> 1, conn |-> 1,
            conns |-> 1, paused |-> FALSE, maint |-> 0, since |-> 0, setting |-> FALSE, relaxed |-> FALSE,
            destroyed |-> FALSE, watchEpoch |-> 0, dirty |-> FALSE, watched |-> {}, queue |-> <<>>,
            waiting |-> <<>>, chain |-> 0]
    /\ op = <<>>
    /\ hand = <<>>

HandoffStep ==
    \E i \in DOMAIN hand : GraceOver(i) \/ TmpConnects(i) \/ TmpFails(i) \/ Swap(i)

Next ==
    \/ \E kind \in {"get", "watch", "unwatch"} : Call(kind)
    \/ Exec
    \/ \E n \in DOMAIN op : Cancel(n)
    \/ Write \/ Reply \/ Drop \/ Reconnect \/ Destroy
    \/ Migrating \/ Migrated \/ Moving
    \/ HandoffStep

Spec == Init /\ [][Next]_vars

(* Timers fire, servers answer and accept, the socket drains, and a closed *)
(* connection is reconnected.                                              *)
FairSpec == Spec /\ WF_vars(Write \/ Reply \/ Reconnect) /\ WF_vars(HandoffStep)

-----------------------------------------------------------------------------
(* Properties. *)

(* Every reply still expected comes on the current connection: a socket is *)
(* never swapped under a command that was written to the old one.          *)
RepliesOnCurrent == \A w \in Range(c.waiting) : c.up /\ w.conn = c.conn

(* A transaction that exec() lets through was admitted on the connection   *)
(* its WATCH ran on, however often the client reconnected, handed over or  *)
(* cancelled a transaction in between.                                     *)
WatchGuards ==
    \A n \in DOMAIN op :
        op[n].kind = "multi" /\ op[n].st # "WatchError" => op[n].guard \subseteq {op[n].conn}

(* Through overlapping maintenances, handoffs and reconnections, the       *)
(* client's socket knows whether maintenance is under way, and the relaxed *)
(* timeout is on its connection exactly when the maintenance began on it:  *)
(* it never outlives the maintenance.                                      *)
RelaxedInMaintenance ==
    /\ c.setting <=> c.maint > 0
    /\ c.relaxed <=> c.maint > 0 /\ c.conn = c.since

(* Writing resumes, unless a duplicate could not connect. *)
WritingResumes ==
    c.paused ~> (~c.paused \/ \E i \in DOMAIN hand : hand[i].st = "broken")

(* A client that lost its connection gets another, as the reconnect        *)
(* strategy promises, unless it was destroyed or a duplicate failed.       *)
Recovers ==
    (c.open /\ ~c.up) ~> (c.up \/ ~c.open \/ \E i \in DOMAIN hand : hand[i].st = "broken")

(* While maintenance is under way, the timeouts are relaxed. *)
RelaxedThroughout == c.up /\ c.maint > 0 => c.relaxed

(* A destroyed client stays without a socket. *)
DestroyIsFinal == c.destroyed => ~c.open

(* A transaction runs on the connection that watches for it. *)
GuardedExec ==
    \A w \in Range(c.waiting) :
        w.token.part = "exec" => op[w.token.op].guard \subseteq {w.conn}
==============================================================================
