------------------------------ MODULE Sentinel ------------------------------
(***************************************************************************)
(* The sentinel client (sentinel/index.ts): the observe/analyze/transform  *)
(* loop that follows the master, the pool of master clients and its leases *)
(* (wait-queue.ts), the retries of execute(), and close() and destroy().   *)
(*                                                                         *)
(* sen is the RedisSentinelInternal object; its synchronous methods are    *)
(* operators on that record.  world is the deployment: which processes are *)
(* up and which node the sentinels call master.  Every action is what runs *)
(* between two awaits.  The pool of replica clients is left out.           *)
(***************************************************************************)
EXTENDS Naturals, Sequences, FiniteSets

CONSTANTS
    Node,           \* the Redis nodes
    FirstMaster,    \* the one that is the master at first
    Guard,          \* the sentinel processes
    Plain,          \* callers of one command each, on the shared lease
    Session,        \* callers of use(): WATCH, MULTI/EXEC, release
    Max,            \* maxCommandRediscovers
    Scenario,       \* masterPoolSize, the sentinels there are and the seed nodes
                    \* among them, who calls, and how often each external event
                    \* happens
    None

ASSUME SentinelAssumption ==
    /\ Max \in Nat
    /\ Plain \cap Session = {}
    /\ FirstMaster \in Node
    /\ \A sc \in Scenario : /\ sc.pool \in Nat \ {0}
                            /\ sc.seeds # {} /\ sc.seeds \subseteq sc.guards /\ sc.guards \subseteq Guard
    /\ None \notin Node \cup Guard \cup Plain \cup Session

Caller == Plain \cup Session

VARIABLES
    sen,        \* the client
    world,      \* [guards, up, master, news]: news is a control message on its
                \* way
    caller,     \* caller[c]: what c is at; since its WATCH, whether the
                \* connection stood, the EXEC was sent again, and the client
                \* was connected again
    lease,      \* the wait queue of the slots, and the lease plain callers share
    left        \* what is left of the scenario's events

vars == <<sen, world, caller, lease, left>>

Spend(event) ==
    /\ event \in DOMAIN left
    /\ left[event] > 0
    /\ left' = [left EXCEPT ![event] = @ - 1]

-----------------------------------------------------------------------------
(* The client. *)

Size(s) == Len(s.masters)

(* getMasterNode: the node of the first ready master client. *)
MasterNode(s) ==
    IF \E i \in 1..Size(s) : s.masters[i].st = "ready"
    THEN LET i == CHOOSE i \in 1..Size(s) : /\ s.masters[i].st = "ready"
                                            /\ \A j \in 1..(i - 1) : s.masters[j].st # "ready"
         IN  s.masters[i].node
    ELSE None

SetReady(s, value) == [s EXCEPT !.ready = IF value /\ s.destroying THEN @ ELSE value]

(* The top of #connect()'s loop. *)
LoopTop(s) ==
    IF s.destroying THEN [s EXCEPT !.loop = "idle", !.outcome = "ok"]
    ELSE [s EXCEPT !.loop = "asking", !.again = FALSE]

StartLoop(s, initial) ==
    LoopTop([s EXCEPT !.count = 0, !.initial = initial, !.outcome = "none"])

(* Mutant: a client that a failed reconfiguration left not ready is never  *)
(* reset again.                                                            *)
ResetIfReady(s) ==
    IF s.destroying THEN s
    ELSE IF s.loop # "idle" THEN [s EXCEPT !.again = TRUE]
    ELSE IF ~s.ready THEN s
    ELSE StartLoop(s, FALSE)

(* #reset: coalesced with the loop in flight, which is told to go round    *)
(* once more.                                                              *)
Reset(s) ==
    IF s.destroying THEN s
    ELSE IF s.loop # "idle" THEN [s EXCEPT !.again = TRUE]
    ELSE IF ~s.open THEN s
    ELSE StartLoop(s, FALSE)

NothingAwaited == [ctrl |-> FALSE, proxy |-> FALSE, slots |-> {}]

(* #teardown: the kind of the one in flight, escalated by a destroy(). *)
Teardown(s, kind) ==
    [s EXCEPT !.destroying = TRUE,
              !.teardown = IF @ = "close" /\ kind = "destroy" THEN "destroy"
                           ELSE IF @ = "none" THEN kind ELSE @]

(* The catch of the loop: a pause and another round, or the end of it; a   *)
(* connect() that gives up tears down what it opened.                      *)
LoopFails(s) ==
    LET t == [s EXCEPT !.count = @ + 1, !.awaits = NothingAwaited]
        ended == [t EXCEPT !.loop = "idle", !.outcome = "rejected"]
    IN  IF t.count > Max
        THEN IF s.initial THEN Teardown(ended, "destroy") ELSE ended
        ELSE [t EXCEPT !.loop = "sleeping"]

(* handleSentinelFailure *)
GuardFailed(s) ==
    LET roots == s.roots \ {s.ctrl.at}
    IN  Reset([s EXCEPT !.roots = IF roots = {} THEN s.seeds ELSE roots,
                        !.ctrl.st = "closed"])

(* Mutant: the watches of a client that never connected are not looked at. *)
CarriesReady(m) == IF m.watch # "none" /\ m.st = "ready" THEN "dirty" ELSE "none"

(* What the client that takes m's place must know of a transaction. *)
Carries(m) == IF m.watch # "none" THEN "dirty" ELSE "none"

NoAnswer == [by |-> None, master |-> None, knows |-> {}]

(* analyze and the synchronous part of transform, on what one sentinel     *)
(* said: the master, or None where it is flagged down.                     *)
Transform(s) ==
    LET newCtrl == ~(s.ctrl.st \in {"connecting", "subscribed"} /\ s.ctrl.at = s.answer.by)
        newMaster == s.answer.master # MasterNode(s)
        opened == IF newCtrl THEN [s EXCEPT !.ctrl = [st |-> "connecting", at |-> s.answer.by]] ELSE s
        moved == IF ~newMaster THEN opened
                 ELSE [SetReady(opened, FALSE) EXCEPT
                        !.masters = [i \in 1..s.pool |->
                            [node |-> s.answer.master, st |-> "connecting",
                             watch |-> IF i <= Size(s) THEN Carries(s.masters[i]) ELSE "none"]],
                        !.proxy = IF @ = "none" THEN @ ELSE "connecting"]
    IN  IF s.answer.master = None THEN LoopFails(s)
        ELSE [moved EXCEPT
                !.loop = "opening",
                !.answer = NoAnswer,
                !.roots = s.seeds \cup s.answer.knows,
                !.awaits = [ctrl |-> newCtrl,
                            proxy |-> newMaster /\ moved.proxy # "none",
                            slots |-> IF newMaster THEN 1..s.pool ELSE {}]]

(* Mutant: readiness is asserted although a reset was asked for meanwhile. *)
EndRoundAtOnce(s) ==
    [SetReady(s, TRUE) EXCEPT !.loop = "idle", !.outcome = "ok"]

(* The end of a round that transformed. *)
EndRound(s) ==
    IF s.again THEN LoopTop(s)
    ELSE [SetReady(s, TRUE) EXCEPT !.loop = "idle", !.outcome = "ok"]

Closed(s) ==
    [s EXCEPT !.destroying = FALSE, !.teardown = "none", !.draining = FALSE,
              !.open = FALSE, !.proxy = "none"]

(* #doClose and #doDestroy once no loop is in flight. *)
Dismantle(s) ==
    LET t == [SetReady(s, FALSE) EXCEPT
                !.timer = FALSE,
                !.ctrl = [st |-> "none", at |-> None],
                !.masters = <<>>]
    IN  IF s.teardown = "close" THEN [t EXCEPT !.draining = TRUE] ELSE Closed(t)

-----------------------------------------------------------------------------
(* The leases.  lease.queue holds the callers of use() that wait, and None *)
(* for the plain callers, who wait for one lease together.                 *)

(* WaitQueue.push *)
Push(l, cs, slot) ==
    IF l.queue = <<>>
    THEN [l |-> [l EXCEPT !.free = Append(@, slot)], cs |-> cs]
    ELSE LET who == Head(l.queue)
             next == [l EXCEPT !.queue = Tail(@)]
             given(c) == [cs[c] EXCEPT !.st = "run", !.slot = slot]
         IN  IF who = None
             THEN [l |-> [next EXCEPT !.shared = slot],
                   cs |-> [c \in Caller |->
                            IF c \in Plain /\ cs[c].st = "waiting" THEN given(c) ELSE cs[c]]]
             ELSE [l |-> next, cs |-> [cs EXCEPT ![who] = given(who)]]

(* Mutant: the shared lease goes back with the first command that is done. *)
GivesBackEarly(c) == TRUE

(* masterClientCount: the last plain command gives the shared lease back. *)
GivesBack(c) == c \in Session \/ lease.count = 1

(* releaseClientLease, at the end of _execute() and use(): a client left   *)
(* dirty is reset first.                                                   *)
Release(c, how) ==
    LET slot == caller[c].slot
        l == IF c \in Session THEN lease
             ELSE [lease EXCEPT !.count = @ - 1, !.shared = IF GivesBack(c) THEN 0 ELSE @]
        over == [caller EXCEPT ![c].st = "over", ![c].how = how]
        pushed == Push(l, over, slot)
    IN  IF ~GivesBack(c) THEN lease' = l /\ caller' = over
        ELSE IF slot <= Size(sen) /\ sen.masters[slot].watch # "none"
        THEN lease' = l /\ caller' = [caller EXCEPT ![c].st = "resetting", ![c].how = how]
        ELSE lease' = pushed.l /\ caller' = pushed.cs

(* A caller whose connection is gone: a command in flight is rejected, a   *)
(* reset in flight takes its slot along, a WATCH no longer guards.         *)
CutOff(cs, slots, to) ==
    [c \in Caller |->
        LET x == [cs[c] EXCEPT !.guarded = @ /\ cs[c].slot \notin slots]
        IN  IF cs[c].slot \notin slots THEN cs[c]
            ELSE IF cs[c].st = "sent" THEN [x EXCEPT !.st = to]
            ELSE IF cs[c].st = "resetting" THEN [x EXCEPT !.st = "over", !.how = "failed"]
            ELSE x]

LosesSlots(l, cs, slots) ==
    [l EXCEPT !.lost = @ \cup {cs[c].slot : c \in {d \in Caller : cs[d].st = "resetting" /\ cs[d].slot \in slots}}]

(* Whoever awaited the loop goes on, or gets its rejection. *)
Resumed(cs, s) ==
    IF s.loop # "idle" THEN cs
    ELSE [c \in Caller |-> IF cs[c].st = "await"
                           THEN [cs[c] EXCEPT !.st = IF s.outcome = "rejected" THEN "throw" ELSE "run"]
                           ELSE cs[c]]

-----------------------------------------------------------------------------
(* Callers. *)

Command(c, op) ==
    /\ c \in Plain
    /\ caller[c].st = "idle"
    /\ sen.everOpen
    /\ Spend(op)
    /\ IF lease.shared # 0
       THEN /\ lease' = [lease EXCEPT !.count = @ + 1]
            /\ caller' = [caller EXCEPT ![c].op = op, ![c].st = "run", ![c].slot = lease.shared]
       ELSE IF lease.count = 0 /\ lease.free # <<>>
       THEN /\ lease' = [lease EXCEPT !.count = 1, !.shared = Head(lease.free), !.free = Tail(@)]
            /\ caller' = [caller EXCEPT ![c].op = op, ![c].st = "run", ![c].slot = Head(lease.free)]
       ELSE /\ lease' = [lease EXCEPT !.count = @ + 1,
                                      !.queue = IF lease.count = 0 THEN Append(@, None) ELSE @]
            /\ caller' = [caller EXCEPT ![c].op = op, ![c].st = "waiting"]
    /\ UNCHANGED <<sen, world>>

Use(c) ==
    /\ c \in Session
    /\ caller[c].st = "idle"
    /\ sen.everOpen
    /\ Spend("use")
    /\ IF lease.free # <<>>
       THEN /\ lease' = [lease EXCEPT !.free = Tail(@)]
            /\ caller' = [caller EXCEPT ![c].op = "watch", ![c].st = "run", ![c].slot = Head(lease.free)]
       ELSE /\ lease' = [lease EXCEPT !.queue = Append(@, c)]
            /\ caller' = [caller EXCEPT ![c].op = "watch", ![c].st = "waiting"]
    /\ UNCHANGED <<sen, world>>

(* The end of an operation: a session goes on to its transaction. *)
Settle(c, how) ==
    IF caller[c].op = "watch" /\ how = "ok"
    THEN /\ caller' = [caller EXCEPT ![c].op = "exec", ![c].st = "run", ![c].tries = 0,
                                     ![c].guarded = TRUE, ![c].retried = FALSE,
                                     ![c].reopened = FALSE]
         /\ UNCHANGED lease
    ELSE Release(c, how)

(* One turn of execute(). *)
Execute(c) ==
    LET slot == caller[c].slot
        m == sen.masters[slot]
    IN  /\ caller[c].st = "run"
        /\ UNCHANGED <<world, left>>
        /\ \/ /\ sen.loop # "idle"
              /\ caller' = [caller EXCEPT ![c].st = "await"]
              /\ UNCHANGED <<sen, lease>>
           \/ /\ sen.loop = "idle" /\ slot > Size(sen)
              /\ Settle(c, "failed")
              /\ UNCHANGED sen
           \/ /\ sen.loop = "idle" /\ slot <= Size(sen)
              /\ m.st # "ready" /\ ~sen.destroying
              /\ sen' = Reset(sen)
              /\ caller' = [caller EXCEPT ![c].st = "await"]
              /\ UNCHANGED lease
           \/ /\ sen.loop = "idle" /\ slot <= Size(sen)
              /\ m.st = "ready" /\ caller[c].op = "exec" /\ m.watch = "dirty"
              /\ sen' = [sen EXCEPT !.masters[slot].watch = "none"]
              /\ caller' = [caller EXCEPT ![c].st = "throw"]
              /\ UNCHANGED lease
           \/ /\ sen.loop = "idle" /\ slot <= Size(sen)
              /\ m.st = "ready" /\ ~(caller[c].op = "exec" /\ m.watch = "dirty")
              /\ sen' = IF caller[c].op = "exec" THEN [sen EXCEPT !.masters[slot].watch = "none"] ELSE sen
              /\ caller' = [caller EXCEPT ![c].st = "sent"]
              /\ UNCHANGED lease

(* The reply of a node that is master, or that accepts a WATCH. *)
Reply(c) ==
    LET slot == caller[c].slot
    IN  /\ caller[c].st = "sent"
        /\ slot <= Size(sen)
        /\ caller[c].op = "watch" \/ sen.masters[slot].node = world.master
        /\ sen' = IF caller[c].op = "watch" /\ sen.masters[slot].watch = "none"
                  THEN [sen EXCEPT !.masters[slot].watch = "on"] ELSE sen
        /\ Settle(c, "ok")
        /\ UNCHANGED <<world, left>>

(* The reply of a node that is no longer the master. *)
ReadOnly(c) ==
    LET slot == caller[c].slot
    IN  /\ caller[c].st = "sent"
        /\ slot <= Size(sen)
        /\ caller[c].op # "watch" /\ sen.masters[slot].node # world.master
        /\ caller' = [caller EXCEPT ![c].st = "error"]
        /\ UNCHANGED <<sen, world, lease, left>>

(* A client that close() drains still answers. *)
DrainedReply(c) ==
    /\ sen.draining
    /\ caller[c].st = "sent"
    /\ Release(c, "ok")
    /\ UNCHANGED <<sen, world, left>>

(* The catch of execute(): rediscover and try again. *)
Retry(c) ==
    /\ caller[c].st = "error"
    /\ IF caller[c].tries + 1 > Max
       THEN caller' = [caller EXCEPT ![c].st = "throw"] /\ UNCHANGED sen
       ELSE /\ sen' = Reset(sen)
            /\ caller' = [caller EXCEPT ![c].tries = @ + 1, ![c].retried = TRUE,
                                        ![c].st = IF Reset(sen).loop = "idle" THEN "run" ELSE "await"]
    /\ UNCHANGED <<world, lease, left>>

Throw(c) ==
    /\ caller[c].st = "throw"
    /\ Settle(c, "failed")
    /\ UNCHANGED <<sen, world, left>>

(* The reset of a dirty client is done. *)
ResetDone(c) ==
    LET slot == caller[c].slot
        pushed == Push(lease, [caller EXCEPT ![c].st = "over"], slot)
    IN  /\ caller[c].st = "resetting"
        /\ \/ sen.draining /\ UNCHANGED sen
           \/ /\ slot <= Size(sen) /\ sen.masters[slot].st = "ready"
              /\ sen' = [sen EXCEPT !.masters[slot].watch = "none"]
        /\ lease' = pushed.l /\ caller' = pushed.cs
        /\ UNCHANGED <<world, left>>

-----------------------------------------------------------------------------
(* connect(), the loop and the connections it opens. *)

Connect ==
    /\ Spend("connect")
    /\ ~sen.open
    /\ sen' = [StartLoop(sen, TRUE) EXCEPT !.open = TRUE, !.everOpen = TRUE]
    /\ caller' = [c \in Caller |-> [caller[c] EXCEPT !.reopened = TRUE]]
    /\ UNCHANGED <<world, lease>>

(* observe: one sentinel of the roots answers with what it knows, also of  *)
(* the other sentinels.                                                    *)
Ask ==
    /\ sen.loop = "asking"
    /\ IF sen.roots \cap world.up = {} THEN sen' = LoopFails(sen)
       ELSE \E g \in sen.roots \cap world.up, k \in {world.guards, world.guards \cap world.up} :
            \E m \in {world.master} \cup (IF world.master \in world.up THEN {} ELSE {None}) :
                 sen' = [sen EXCEPT !.loop = "answered",
                                    !.answer = [by |-> g, master |-> m, knows |-> k]]
    /\ caller' = Resumed(caller, sen')
    /\ UNCHANGED <<world, lease, left>>

Answered ==
    LET s == Transform(sen)
        slots == IF s.loop = "opening" /\ s.awaits.slots # {} THEN 1..sen.pool ELSE {}
    IN  /\ sen.loop = "answered"
        /\ sen' = s
        /\ caller' = Resumed(CutOff(caller, slots, "error"), s)
        /\ lease' = LosesSlots(lease, caller, slots)
        /\ world' = IF s.ctrl = sen.ctrl THEN world ELSE [world EXCEPT !.news = FALSE]
        /\ UNCHANGED left

Opened ==
    /\ sen.loop = "opening"
    /\ sen.awaits = NothingAwaited
    /\ LET s == EndRound(sen)
       IN  /\ sen' = [s EXCEPT !.timer = @ \/ (s.loop = "idle" /\ s.initial /\ s.ready)]
           /\ caller' = Resumed(caller, s)
    /\ UNCHANGED <<world, lease, left>>

Wake ==
    /\ sen.loop = "sleeping"
    /\ sen' = LoopTop(sen)
    /\ caller' = Resumed(caller, sen')
    /\ UNCHANGED <<world, lease, left>>

MasterConnects(i) ==
    /\ i <= Size(sen)
    /\ sen.masters[i].st # "ready"
    /\ sen.masters[i].node \in world.up
    /\ sen' = [sen EXCEPT !.masters[i].st = "ready", !.awaits.slots = @ \ {i}]
    /\ UNCHANGED <<world, caller, lease, left>>

(* connectOrFail: the first error of a client the round waits for. *)
MasterFails(i) ==
    /\ i <= Size(sen)
    /\ sen.masters[i].st = "connecting"
    /\ sen.masters[i].node \notin world.up
    /\ LET s == [sen EXCEPT !.masters[i].st = "down"]
       IN  sen' = IF i \in s.awaits.slots THEN LoopFails(s) ELSE s
    /\ caller' = Resumed(caller, sen')
    /\ UNCHANGED <<world, lease, left>>

CtrlConnects ==
    /\ sen.ctrl.st = "connecting"
    /\ sen.ctrl.at \in world.up
    /\ sen' = [sen EXCEPT !.ctrl.st = "subscribed", !.awaits.ctrl = FALSE]
    /\ UNCHANGED <<world, caller, lease, left>>

CtrlFails ==
    /\ sen.ctrl.st \in {"connecting", "subscribed"}
    /\ sen.ctrl.at \notin world.up
    /\ LET s == GuardFailed(sen)
       IN  sen' = IF s.awaits.ctrl THEN LoopFails(s) ELSE s
    /\ caller' = Resumed(caller, sen')
    /\ world' = [world EXCEPT !.news = FALSE]
    /\ UNCHANGED <<lease, left>>

(* The proxy's client waits for its connection, however often it fails. *)
ProxyConnects ==
    /\ sen.proxy = "connecting"
    /\ sen.masters # <<>> /\ sen.masters[1].node \in world.up
    /\ sen' = [sen EXCEPT !.proxy = "up", !.awaits.proxy = FALSE]
    /\ UNCHANGED <<world, caller, lease, left>>

Subscribe ==
    /\ Spend("subscribe")
    /\ sen.proxy = "none" /\ sen.masters # <<>>
    /\ sen' = [sen EXCEPT !.proxy = "connecting"]
    /\ UNCHANGED <<world, caller, lease>>

(* handlePubSubControlChannel *)
ControlMessage ==
    /\ world.news
    /\ sen' = Reset(sen)
    /\ world' = [world EXCEPT !.news = FALSE]
    /\ UNCHANGED <<caller, lease, left>>

Scan ==
    /\ Spend("scan")
    /\ sen.timer
    /\ sen' = Reset(sen)
    /\ UNCHANGED <<world, caller, lease>>

-----------------------------------------------------------------------------
(* close() and destroy(). *)

(* What Dismantle does to the callers: a close() lets them finish. *)
Dismantled(s) ==
    /\ sen' = Dismantle(s)
    /\ IF s.teardown = "close" THEN UNCHANGED <<caller, lease>>
       ELSE /\ caller' = CutOff(caller, 1..s.pool, "throw")
            /\ lease' = LosesSlots(lease, caller, 1..s.pool)

(* Mutant: a destroy() joins the close() in flight. *)
NeverPreempts(kind) == FALSE

(* A destroy() that overlaps a close() does not wait for its drain. *)
Preempts(kind) == kind = "destroy" /\ sen.draining

Close(kind) ==
    /\ sen.everOpen
    /\ Spend(kind)
    /\ LET s == Teardown(sen, kind)
       IN  IF sen.teardown = "none" /\ sen.loop = "idle" THEN Dismantled(s)
           ELSE IF Preempts(kind)
           THEN /\ sen' = Closed(s)
                /\ caller' = CutOff(caller, 1..s.pool, "throw")
                /\ lease' = LosesSlots(lease, caller, 1..s.pool)
           ELSE sen' = s /\ UNCHANGED <<caller, lease>>
    /\ UNCHANGED world

(* Mutant: the loop in flight is not waited for. *)
NotAwaited(s) == TRUE

Awaited(s) == s.loop = "idle"

TeardownProceeds ==
    /\ sen.teardown # "none" /\ ~sen.draining
    /\ Awaited(sen)
    /\ Dismantled(sen)
    /\ UNCHANGED <<world, left>>

Drained ==
    /\ sen.draining
    /\ \A c \in Caller : caller[c].st \notin {"sent", "resetting"}
    /\ sen' = Closed(sen)
    /\ UNCHANGED <<world, caller, lease, left>>

-----------------------------------------------------------------------------
(* The deployment. *)

(* A client whose connection is lost; its WATCH is lost with it. *)
Lost(m) == [m EXCEPT !.st = "down", !.watch = IF m.watch = "none" THEN "none" ELSE "dirty"]

(* The connections of some master clients are lost. *)
Cut(slots) ==
    /\ sen' = [sen EXCEPT !.masters = [i \in 1..Size(sen) |->
                    IF i \in slots THEN Lost(sen.masters[i]) ELSE sen.masters[i]]]
    /\ caller' = CutOff(caller, slots, "error")
    /\ lease' = LosesSlots(lease, caller, slots)

On(n) == {i \in 1..Size(sen) : sen.masters[i].st = "ready" /\ sen.masters[i].node = n}

Drop ==
    /\ Spend("drop")
    /\ \E i \in 1..Size(sen) : sen.masters[i].st = "ready" /\ Cut({i})
    /\ UNCHANGED world

NodeDown(n) ==
    /\ sen.everOpen
    /\ Spend("nodeDown")
    /\ n \in world.up
    /\ world' = [world EXCEPT !.up = @ \ {n}]
    /\ Cut(On(n))

GuardDown(g) ==
    /\ sen.everOpen
    /\ Spend("guardDown")
    /\ g \in world.up
    /\ world' = [world EXCEPT !.up = @ \ {g}]
    /\ UNCHANGED <<sen, caller, lease>>

ComesUp(p) ==
    /\ p \in (Node \cup world.guards) \ world.up
    /\ world' = [world EXCEPT !.up = @ \cup {p}]
    /\ UNCHANGED <<sen, caller, lease, left>>

(* The sentinels promote another node, and tell whoever listens. *)
Failover(n) ==
    /\ sen.everOpen
    /\ Spend("failover")
    /\ n # world.master /\ n \in world.up
    /\ world' = [world EXCEPT !.master = n, !.news = @ \/ sen.ctrl.st = "subscribed"]
    /\ UNCHANGED <<sen, caller, lease>>

-----------------------------------------------------------------------------
InitWith(sc) ==
    /\ left = sc.left
    /\ world = [guards |-> sc.guards, up |-> Node \cup sc.guards,
                master |-> FirstMaster, news |-> FALSE]
    /\ sen = [pool |-> sc.pool, seeds |-> sc.seeds,
              open |-> FALSE, everOpen |-> FALSE, ready |-> FALSE, destroying |-> FALSE,
              loop |-> "idle", initial |-> FALSE, outcome |-> "none",
              count |-> 0, again |-> FALSE, answer |-> NoAnswer,
              awaits |-> NothingAwaited,
              roots |-> sc.seeds,
              ctrl |-> [st |-> "none", at |-> None],
              masters |-> <<>>, proxy |-> "none", timer |-> FALSE,
              teardown |-> "none", draining |-> FALSE]
    /\ lease = [free |-> [i \in 1..sc.pool |-> i], queue |-> <<>>,
                count |-> 0, shared |-> 0, lost |-> {}]
    /\ caller = [c \in Caller |->
                    [st |-> IF c \in sc.callers THEN "idle" ELSE "over", op |-> "none",
                     slot |-> 0, tries |-> 0, how |-> "none",
                     guarded |-> FALSE, retried |-> FALSE, reopened |-> FALSE]]

Init == \E sc \in Scenario : InitWith(sc)

CallerNext(c) ==
    \/ Execute(c) \/ Reply(c) \/ ReadOnly(c) \/ DrainedReply(c)
    \/ Retry(c) \/ Throw(c) \/ ResetDone(c)

LoopNext ==
    \/ Ask \/ Answered \/ Opened \/ Wake
    \/ \E i \in 1..sen.pool : MasterConnects(i) \/ MasterFails(i)
    \/ CtrlConnects \/ CtrlFails \/ ProxyConnects \/ ControlMessage
    \/ TeardownProceeds \/ Drained

Next ==
    \/ LoopNext
    \/ \E c \in Caller : CallerNext(c)
    \/ \E c \in Plain, op \in {"command", "block"} : Command(c, op)
    \/ \E c \in Session : Use(c)
    \/ Connect \/ Subscribe \/ Scan \/ Drop
    \/ \E kind \in {"close", "destroy"} : Close(kind)
    \/ \E n \in Node : NodeDown(n) \/ Failover(n)
    \/ \E g \in Guard : GuardDown(g)
    \/ \E p \in Node \cup Guard : ComesUp(p)

Spec == Init /\ [][Next]_vars

(* Promises and timers settle, connection attempts end, and a node answers *)
(* every command but one that blocks.                                      *)
FairSpec ==
    /\ Spec
    /\ WF_vars(LoopNext)
    /\ WF_vars(\E c \in Caller : caller[c].op # "block" /\ CallerNext(c))
    /\ WF_vars(\E c \in Plain : Execute(c) \/ Retry(c) \/ Throw(c))

-----------------------------------------------------------------------------
(* Properties. *)

(* A slot of the pool is in one place: free, lent to one session, lent to  *)
(* the plain callers together, or being reset (or lost with a reset that   *)
(* failed).  Nobody shares the connection of a session with its WATCH.     *)
Holders(slot) ==
    {c \in Session : caller[c].slot = slot /\ caller[c].st \notin {"idle", "waiting", "over"}}

LeaseExclusive ==
    \A slot \in 1..sen.pool :
        LET places == Cardinality(Holders(slot))
                + Cardinality({i \in DOMAIN lease.free : lease.free[i] = slot})
                + (IF lease.shared = slot THEN 1 ELSE 0)
                + (IF slot \in lease.lost THEN 1 ELSE 0)
                + Cardinality({c \in Plain : caller[c].slot = slot /\ caller[c].st = "resetting"})
        IN  places = 1

(* Readiness means served: when the client is ready and at rest, and no    *)
(* close() or destroy() is under way, the whole pool is of one master, no  *)
(* request to look again was dropped, and unless the last attempt gave up  *)
(* there is a control connection to hear of the next failover.             *)
ReadyMeansServed ==
    (sen.ready /\ sen.loop = "idle" /\ ~sen.destroying) =>
        /\ Size(sen) = sen.pool
        /\ \A i, j \in 1..Size(sen) : sen.masters[i].node = sen.masters[j].node
        /\ sen.outcome = "rejected" \/ (~sen.again /\ sen.ctrl.st \in {"connecting", "subscribed"})

(* A sentinel that ended stays quiet: no loop reopens clients behind its   *)
(* end, whatever was in flight when it was closed.                         *)
ClosedIsQuiet ==
    ~sen.open => /\ sen.loop = "idle" /\ ~sen.ready /\ ~sen.timer
                 /\ sen.masters = <<>> /\ sen.ctrl.st = "none"

(* A transaction runs only under the WATCH of its session, across failed   *)
(* and repeated reconfigurations.  Not covered, see AlwaysGuarded: what    *)
(* execute() sends again after a lost connection or a READONLY error, and  *)
(* a session whose client was closed and connected again since its WATCH.  *)
WatchHonoured ==
    \A c \in Session :
        (caller[c].op = "exec" /\ caller[c].st = "sent"
            /\ ~caller[c].retried /\ ~caller[c].reopened) => caller[c].guarded

(* As docs/transactions.md has it: the transaction aborts if the client    *)
(* reconnected between watch and exec.                                     *)
AlwaysGuarded ==
    \A c \in Session : (caller[c].op = "exec" /\ caller[c].st = "sent") => caller[c].guarded

(* A command comes to an end through failovers and outages: it is answered *)
(* by a master or rejected.  Except behind a session whose client was left *)
(* dirty: the slot waits for the reset, or is lost with it.                *)
CommandsSettle ==
    \A c \in Caller :
        (caller[c].st # "idle" /\ caller[c].op # "block") ~>
            \/ caller[c].st = "over"
            \/ lease.lost # {}
            \/ \E d \in Session : caller[d].st = "resetting"

(* destroy() ends, also over a close() that waits for a blocked command or *)
(* a reconfiguration under way.                                            *)
DestroyEnds == (sen.teardown = "destroy") ~> (sen.teardown = "none")
=============================================================================
