------------------------------- MODULE MultiDb -------------------------------
(***************************************************************************)
(* The multi-database client: one manager in front of several member       *)
(* databases (multi-db/manager.ts), the circuit breaker of each member     *)
(* (circuit.ts, database.ts) and the forwarders that send the callers'     *)
(* commands, WATCH sessions and transactions to the active member          *)
(* (index.ts, with standalone clients as members).                         *)
(*                                                                         *)
(* mgr is the object graph of the manager.  Its synchronous methods are    *)
(* operators on that record; one that may pick among equal candidates      *)
(* returns the set of its outcomes.  Every action is what runs between two *)
(* awaits.  Timers and the clock are actions that may happen at any time.  *)
(***************************************************************************)
EXTENDS Naturals, FiniteSets

CONSTANTS
    Database,       \* every member object there will ever be
    FirstActive,    \* databases[0]
    Heavy,          \* members of weight 1 at first; the others weigh 0
    Command,        \* plain commands of the callers, each sent once
    Policy,         \* initialAvailability
    NumProbes,      \* healthCheck.numProbes
    MinFailures,    \* failureDetector.minNumOfFailures
    MaxAttempts,    \* maxFailoverAttempts
    Scenario,       \* the members to begin with, and how often each external
                    \* event happens
    Early,          \* the events that may come before the client was first ready
    None

ASSUME MultiDbAssumption ==
    /\ \A sc \in Scenario : FirstActive \in sc.dbs /\ sc.dbs \subseteq Database
    /\ None \notin Database
    /\ Policy \in {"ALL", "MAJORITY", "ONE"}
    /\ NumProbes \in Nat \ {0}
    /\ MinFailures \in Nat \ {0}
    /\ MaxAttempts \in Nat \ {0}

VARIABLES
    mgr,        \* the manager with its members; its fields late, listens,
                \* overtaken and tx.unguarded are history the properties speak of
    round,      \* round[d]: the background check in flight for d
    force,      \* the target of the forced switch in flight
    est,        \* est[d]: what the connect() in flight knows of d
    connecting, \* a connect() is in flight
    adding,     \* members an addDatabase() is establishing
    left        \* what is left of the scenario's events

vars == <<mgr, round, force, est, connecting, adding, left>>

-----------------------------------------------------------------------------
(* circuit.ts.  HALF_OPEN is read off the clock: open and aged. *)

Shut == [open |-> FALSE, aged |-> FALSE, probes |-> 0]

State(c) == IF ~c.open THEN "CLOSED" ELSE IF c.aged THEN "HALF_OPEN" ELSE "OPEN"

Opened(c) == IF State(c) = "OPEN" THEN c ELSE [open |-> TRUE, aged |-> FALSE, probes |-> 0]

Probed(c, healthy) ==
    IF State(c) # "HALF_OPEN" THEN c
    ELSE IF ~healthy THEN Opened(c)
    ELSE IF c.probes + 1 >= NumProbes THEN Shut
    ELSE [c EXCEPT !.probes = @ + 1]

-----------------------------------------------------------------------------
(* Selection.  The code breaks ties by the order of its array; any of the  *)
(* heaviest members may be picked here.                                    *)

Healthy(s, ds) == {d \in ds : State(s.circuit[d]) = "CLOSED"}

Selectable(s, ds) ==
    {d \in Healthy(s, ds) : \A e \in Healthy(s, ds) : s.weight[e] <= s.weight[d]}

Required(n) ==
    CASE Policy = "ALL" -> n
      [] Policy = "MAJORITY" -> (n \div 2) + 1
      [] Policy = "ONE" -> 1

NoFailures == [d \in Database |-> 0]

-----------------------------------------------------------------------------
(* The switch and what it takes along. *)

(* Mutant: the backlog of a demoted member is left for its reconnection. *)
KeepQueued(s, d) == s

(* A member that is down gives its unsent backlog back to the callers, a   *)
(* WATCH that waits there included; a ready one has drained it.            *)
RejectQueued(s, d) ==
    IF s.conn[d] = "ready" THEN s
    ELSE [s EXCEPT
        !.cmd = [c \in Command |-> IF @[c] = [st |-> "queued", at |-> d]
                                   THEN [st |-> "lost", at |-> d] ELSE @[c]],
        !.tx.alive = @ /\ s.tx.at # d]

(* Mutant: the switch forgets the watch session. *)
NeverOrphaned(s, target) == FALSE

(* The watch session stays with the member that began it. *)
Orphaned(s, target) == s.watched \notin {None, target} /\ ~s.dirty

Repoint(s, target) ==
    LET from == s.active
        orphan == Orphaned(s, target)
    IN  RejectQueued(
            [s EXCEPT
                !.pinned = IF @ = target THEN @ ELSE None,
                !.active = target,
                !.role = [d \in Database |->
                            CASE d = target -> "ACTIVE"
                              [] d = from /\ @[d] = "ACTIVE" -> "PASSIVE"
                              [] OTHER -> @[d]],
                !.failures = NoFailures,
                !.dirty = @ \/ orphan,
                !.watch = [d \in Database |->
                            IF orphan /\ d = s.watched /\ s.conn[d] = "ready"
                            THEN "none" ELSE @[d]],
                !.moves = {[mv EXCEPT !.latest = FALSE] : mv \in @}],
            from)

(* afterSwitch: the listeners are with the new member at once, the         *)
(* clean-up of the old one waits for the resubscription.  Where an         *)
(* UNSUBSCRIBE of an earlier clean-up has no reply yet, its removal is     *)
(* carried out on what is taken along.  A switch that comes back to such a *)
(* member has its clean-up overtaken by the listeners it gives back.       *)
MovePubSub(s, from, to) ==
    IF s.held # from THEN s
    ELSE IF from \in s.leaving THEN [s EXCEPT !.held = None, !.leaving = @ \ {from}]
    ELSE [s EXCEPT !.held = to,
                   !.sub[to] = TRUE,
                   !.overtaken = @ \/ to \in s.leaving,
                   !.moves = @ \cup {[from |-> from, to |-> to, latest |-> TRUE]}]

SwitchTo(s, target) ==
    IF target = s.active THEN [s EXCEPT !.role[target] = "ACTIVE"]
    ELSE MovePubSub(Repoint(s, target), s.active, target)

Searching == [current |-> TRUE, attempt |-> 1]

(* Mutant: no search is started while one is still asleep. *)
SearchesOnce(ls) == IF ls = {} THEN {Searching} ELSE {[l EXCEPT !.current = FALSE] : l \in ls}

(* searchEpoch: a search that begins supersedes the ones still asleep. *)
Searches(ls) == {[l EXCEPT !.current = FALSE] : l \in ls} \cup {Searching}

StartSearch(s) ==
    [s EXCEPT !.inFlight = TRUE, !.gate = "searching", !.failures = NoFailures,
              !.loops = Searches(@)]

HandleActiveFailure(s) ==
    IF s.inFlight \/ s.gate = "failed" \/ s.torn THEN {s}
    ELSE LET t == [s EXCEPT !.circuit[s.active] = Opened(@)]
             targets == Selectable(t, t.dbs)
         IN  IF targets # {} THEN {SwitchTo(t, d) : d \in targets}
             ELSE {StartSearch(RejectQueued(t, s.active))}

(* Whether an error counts and whether the failure rate is reached is the  *)
(* detector's data: both outcomes are possible.  Only outcomes of the      *)
(* active member are heard, and none while the gate is shut.               *)
OnCommandResult(s, ok, source) ==
    IF ok \/ s.gate # "open" \/ source # s.active THEN {s}
    ELSE LET t == [s EXCEPT !.failures[source] = IF @ < MinFailures THEN @ + 1 ELSE @]
         IN  {s, t} \cup (IF t.failures[source] < MinFailures THEN {}
                          ELSE HandleActiveFailure(t))

Teardown(s) ==
    [s EXCEPT !.torn = TRUE, !.loops = {}, !.timers = {}, !.running = FALSE]

(* The gate is lifted by whoever finds a member while a search sleeps. *)
Rescue(s) ==
    IF s.gate = "searching" THEN [s EXCEPT !.gate = "open", !.inFlight = FALSE] ELSE s

(* healthEpoch: a background round that began earlier drops its verdict. *)
Verified(r, d) == [r EXCEPT ![d] = IF @ = "round" THEN "stale" ELSE @]

-----------------------------------------------------------------------------
InitWith(sc) ==
    /\ mgr = [dbs |-> sc.dbs, active |-> FirstActive,
              role |-> [d \in Database |-> IF d = FirstActive THEN "ACTIVE" ELSE "PASSIVE"],
              circuit |-> [d \in Database |-> Shut],
              weight |-> [d \in Database |-> IF d \in Heavy THEN 1 ELSE 0],
              gate |-> "open", inFlight |-> FALSE, pinned |-> None, loops |-> {},
              failures |-> NoFailures, watched |-> None, dirty |-> FALSE,
              everReady |-> FALSE, torn |-> FALSE, late |-> {},
              running |-> FALSE, timers |-> {},
              conn |-> [d \in Database |-> "closed"],
              cmd |-> [c \in Command |-> [st |-> "new", at |-> None]],
              held |-> None, sub |-> [d \in Database |-> FALSE], moves |-> {},
              leaving |-> {}, listens |-> FALSE, overtaken |-> FALSE,
              watch |-> [d \in Database |-> "none"],
              tx |-> [st |-> "idle", at |-> None, first |-> FALSE, alive |-> TRUE,
                      session |-> FALSE, unguarded |-> FALSE]]
    /\ round = [d \in Database |-> "idle"]
    /\ force = None
    /\ est = [d \in Database |-> "none"]
    /\ connecting = FALSE
    /\ adding = {}
    /\ left = sc.left

Init == \E sc \in Scenario : InitWith(sc)

tasks == <<round, force, est, connecting, adding>>

Spend(event) ==
    /\ event \in DOMAIN left /\ left[event] > 0
    /\ mgr.everReady \/ event \in Early
    /\ left' = [left EXCEPT ![event] = @ - 1]

-----------------------------------------------------------------------------
(* The callers. *)

Dispatch(c) ==
    /\ mgr.cmd[c].st = "new"
    /\ Spend("command")
    /\ LET d == mgr.active
           Becomes(st) == [mgr EXCEPT !.cmd[c] = [st |-> st, at |-> d]]
       IN  \/ mgr.gate # "open" /\ mgr' = Becomes("done")
           \/ mgr.gate = "open" /\ mgr.conn[d] = "ready" /\ mgr' = Becomes("sent")
           \/ mgr.gate = "open" /\ mgr.conn[d] = "down" /\ mgr' = Becomes("queued")
           \/ mgr.gate = "open" /\ mgr.conn[d] \in {"closed", "gone"} /\ mgr' = Becomes("lost")
    /\ UNCHANGED tasks

Settle(c, ok) ==
    LET d == mgr.cmd[c].at IN
    /\ mgr.cmd[c].st = "sent" \/ (mgr.cmd[c].st = "lost" /\ ~ok)
    /\ mgr' \in OnCommandResult([mgr EXCEPT !.cmd[c] = [st |-> "done", at |-> d]], ok, d)
    /\ UNCHANGED <<tasks, left>>

(* subscribe() and its reply, which comes after that of an UNSUBSCRIBE.    *)
Subscribe ==
    /\ Spend("subscribe")
    /\ mgr.gate = "open" /\ mgr.conn[mgr.active] = "ready" /\ mgr.held = None
    /\ mgr.active \notin mgr.leaving
    /\ mgr' = [mgr EXCEPT !.held = mgr.active, !.sub[mgr.active] = TRUE,
                          !.listens = TRUE, !.overtaken = FALSE]
    /\ UNCHANGED tasks

(* Mutant: the clean-up of a superseded move is not skipped. *)
ResubscribedAnyway(s, mv) ==
    IF s.conn[mv.from] # "ready" THEN s
    ELSE [s EXCEPT !.sub[mv.from] = FALSE, !.leaving = @ \cup {mv.from}]

(* The new member is subscribed: UNSUBSCRIBE is sent to the old one.       *)
Resubscribed(s, mv) ==
    IF s.conn[mv.from] # "ready" \/ ~mv.latest THEN s
    ELSE [s EXCEPT !.sub[mv.from] = FALSE, !.leaving = @ \cup {mv.from}]

MoveDone(mv) ==
    LET over == [mgr EXCEPT !.moves = @ \ {mv}]
    IN  /\ mv \in mgr.moves
        /\ \/ mgr' = over                               \* the resubscription failed
           \/ mgr.conn[mv.to] = "ready" /\ mgr' = Resubscribed(over, mv)
        /\ UNCHANGED <<tasks, left>>

(* Its reply deletes the channels from the registry, whoever filled it.    *)
UnsubscribeReply(d) ==
    /\ d \in mgr.leaving /\ mgr.conn[d] = "ready"
    /\ mgr' = [mgr EXCEPT !.leaving = @ \ {d}, !.held = IF @ = d THEN None ELSE @]
    /\ UNCHANGED <<tasks, left>>

-----------------------------------------------------------------------------
(* A WATCH session.  The caller awaits each call before the next.          *)
(* watch[d] is the member client's own record of it: its epoch is live,    *)
(* or dirty once the connection was lost.                                  *)

Watch ==
    /\ mgr.tx.st \in {"idle", "watched"} /\ mgr.gate = "open"
    /\ Spend("watch")
    /\ mgr' = [mgr EXCEPT !.watched = IF @ = None THEN mgr.active ELSE @,
                          !.tx = [@ EXCEPT !.st = "watching", !.at = mgr.active,
                                           !.first = mgr.watched = None,
                                           !.alive = mgr.conn[mgr.active] \in {"ready", "down"}]]
    /\ UNCHANGED tasks

Cleared(s) == [s EXCEPT !.watched = None, !.dirty = FALSE]

WatchReply(ok) ==
    LET d == mgr.tx.at
        failed == [mgr EXCEPT !.tx.st = IF mgr.tx.session THEN "watched" ELSE "idle"]
    IN  /\ mgr.tx.st = "watching"
        /\ ok => mgr.tx.alive /\ mgr.conn[d] = "ready"
        /\ IF ok
           THEN mgr' = [mgr EXCEPT !.watch[d] = IF @ = "none" THEN "live" ELSE @,
                                   !.tx.st = "watched", !.tx.session = TRUE]
           ELSE mgr' \in OnCommandResult(
                            IF mgr.tx.first THEN Cleared(failed) ELSE failed, FALSE, d)
        /\ UNCHANGED <<tasks, left>>

Unwatch ==
    /\ mgr.tx.st = "watched" /\ mgr.gate = "open"
    /\ mgr' = [mgr EXCEPT !.tx = [@ EXCEPT !.st = "unwatching", !.at = mgr.active]]
    /\ UNCHANGED <<tasks, left>>

UnwatchReply(ok) ==
    LET d == mgr.tx.at
        over == [Cleared(mgr) EXCEPT !.tx.st = "idle", !.tx.session = FALSE]
    IN  /\ mgr.tx.st = "unwatching"
        /\ ok => mgr.conn[d] = "ready"
        /\ IF ok THEN mgr' = [over EXCEPT !.watch[d] = "none"]
                 ELSE mgr' \in OnCommandResult(over, FALSE, d)
        /\ UNCHANGED <<tasks, left>>

Multi ==
    /\ mgr.tx.st \in {"idle", "watched"}
    /\ Spend("multi")
    /\ mgr' = [mgr EXCEPT !.tx = [@ EXCEPT !.st = "multi", !.at = mgr.active]]
    /\ UNCHANGED tasks

Exec ==
    LET d == mgr.tx.at
        over == [mgr EXCEPT !.tx.st = "idle", !.tx.session = FALSE]
    IN  /\ mgr.tx.st = "multi"
        /\ IF mgr.gate # "open" THEN mgr' = over
           ELSE IF mgr.dirty THEN mgr' = Cleared(over)
           ELSE IF d # mgr.active THEN mgr' = over
           ELSE mgr' = [mgr EXCEPT        \* the member's own EXEC
                    !.watch[d] = "none",
                    !.tx = [@ EXCEPT !.st = "exec",
                                     !.alive = mgr.watch[d] # "dirty" /\ mgr.conn[d] = "ready",
                                     !.first = mgr.watched = d,
                                     !.unguarded = mgr.tx.unguarded \/
                                         (mgr.tx.session /\ mgr.watch[d] = "none"
                                            /\ mgr.conn[d] = "ready")]]
        /\ UNCHANGED <<tasks, left>>

ExecReply(ok) ==
    LET d == mgr.tx.at
        over == [mgr EXCEPT !.tx.st = "idle", !.tx.session = FALSE]
    IN  /\ mgr.tx.st = "exec"
        /\ ok => mgr.tx.alive
        /\ mgr' \in OnCommandResult(IF mgr.tx.first THEN Cleared(over) ELSE over, ok, d)
        /\ UNCHANGED <<tasks, left>>

-----------------------------------------------------------------------------
(* The members. *)

MemberReady(d) ==
    /\ mgr.conn[d] = "down"
    /\ mgr' = [mgr EXCEPT
            !.conn[d] = "ready",
            !.role[d] = IF @ = "DISCONNECTED" THEN "PASSIVE" ELSE @,
            !.cmd = [c \in Command |-> IF @[c] = [st |-> "queued", at |-> d]
                                       THEN [st |-> "sent", at |-> d] ELSE @[c]]]
    /\ UNCHANGED <<tasks, left>>

(* What a lost connection does to the work of d. *)
Severed(s, d, conn) ==
    [s EXCEPT !.conn[d] = conn,
              !.sub[d] = s.held = d, !.leaving = @ \ {d},
              !.watch[d] = IF @ = "live" THEN "dirty" ELSE @,
              !.cmd = [c \in Command |->
                        IF @[c].at = d /\ (@[c].st = "sent" \/ (@[c].st = "queued" /\ conn # "down"))
                        THEN [st |-> "lost", at |-> d] ELSE @[c]],
              !.tx.alive = @ /\ s.tx.at # d]

MemberDrops(d) ==
    /\ mgr.conn[d] = "ready"
    /\ Spend("drop")
    /\ mgr' \in OnCommandResult(Severed(mgr, d, "down"), FALSE, d)
    /\ UNCHANGED tasks

MemberErrs(d) ==        \* an attempt to reconnect fails
    /\ mgr.conn[d] = "down"
    /\ mgr' \in OnCommandResult(mgr, FALSE, d)
    /\ UNCHANGED <<tasks, left>>

Ended(s, d) == [s EXCEPT !.role[d] = "DISCONNECTED", !.circuit[d] = Opened(@)]

MemberTerminated(d) ==  \* reconnecting was given up
    /\ mgr.conn[d] = "down"
    /\ Spend("drop")
    /\ LET s == Ended(Severed(mgr, d, "closed"), d)
       IN  mgr' \in IF d = s.active /\ s.everReady THEN HandleActiveFailure(s) ELSE {s}
    /\ UNCHANGED tasks

MemberGone(d) ==        \* a removed or torn-down member finishes closing
    /\ mgr.torn \/ d \notin mgr.dbs
    /\ mgr.conn[d] \in {"ready", "down"}
    /\ mgr' = Ended(Severed(mgr, d, "gone"), d)
    /\ UNCHANGED <<tasks, left>>

GraceElapses(d) ==
    /\ State(mgr.circuit[d]) = "OPEN"
    /\ mgr' = [mgr EXCEPT !.circuit[d].aged = TRUE]
    /\ UNCHANGED <<tasks, left>>

-----------------------------------------------------------------------------
(* Background checks, fallback and the search for a member. *)

CheckStart(d) ==
    /\ d \in mgr.timers /\ round[d] = "idle"
    /\ mgr.gate # "failed" /\ ~mgr.torn
    /\ State(mgr.circuit[d]) # "OPEN"
    /\ Spend("check")
    /\ round' = [round EXCEPT ![d] = IF State(mgr.circuit[d]) = "CLOSED" THEN "round" ELSE "probe"]
    /\ UNCHANGED <<mgr, force, est, connecting, adding>>

CheckRound(d, healthy) ==
    /\ round[d] \in {"round", "stale"}
    /\ round' = [round EXCEPT ![d] = "idle"]
    /\ mgr' \in IF healthy \/ round[d] = "stale" THEN {mgr}
                ELSE IF d = mgr.active THEN HandleActiveFailure(mgr)
                ELSE {[mgr EXCEPT !.circuit[d] = Opened(@)]}
    /\ UNCHANGED <<force, est, connecting, adding, left>>

RecoveryProbe(d, healthy) ==
    LET valid == ~mgr.torn /\ d \in mgr.dbs /\ State(mgr.circuit[d]) = "HALF_OPEN"
        c == Probed(mgr.circuit[d], healthy)
    IN  /\ round[d] = "probe"
        /\ mgr' = IF valid THEN [mgr EXCEPT !.circuit[d] = c] ELSE mgr
        /\ round' = [round EXCEPT ![d] = IF valid /\ State(c) = "HALF_OPEN" THEN @ ELSE "idle"]
        /\ UNCHANGED <<force, est, connecting, adding, left>>

MaybeFallback ==        \* the timer may run, or not, as setAutoFallback() last said
    /\ mgr.running /\ mgr.gate = "open" /\ mgr.pinned = None
    /\ \E d \in Selectable(mgr, mgr.dbs) :
        /\ mgr.weight[d] > mgr.weight[mgr.active]
        /\ mgr' = SwitchTo(mgr, d)
    /\ UNCHANGED <<tasks, left>>

SearchWakes(l) ==
    LET targets == Selectable(mgr, mgr.dbs)
        asleep == [mgr EXCEPT !.loops = @ \ {l}]
    IN  /\ l \in mgr.loops
        /\ IF ~l.current \/ mgr.gate # "searching" THEN mgr' = asleep
           ELSE IF targets # {}
                THEN \E d \in targets : mgr' = SwitchTo(Rescue(asleep), d)
           ELSE IF l.attempt < MaxAttempts
                THEN mgr' = [asleep EXCEPT !.loops = @ \cup {[l EXCEPT !.attempt = l.attempt + 1]}]
           ELSE mgr' = [asleep EXCEPT !.gate = "failed", !.inFlight = FALSE,
                                      !.timers = {}, !.running = FALSE]
        /\ UNCHANGED <<tasks, left>>

-----------------------------------------------------------------------------
(* The operator's calls. *)

ForceStart(d) ==
    /\ ~mgr.torn /\ d \in mgr.dbs /\ mgr.gate # "failed" /\ force = None
    /\ Spend("force")
    /\ force' = d
    /\ UNCHANGED <<mgr, round, est, connecting, adding>>

ForceVerdict(healthy) ==
    LET d == force IN
    /\ force # None
    /\ force' = None
    /\ IF healthy /\ mgr.gate # "failed" /\ ~mgr.torn /\ d \in mgr.dbs
       THEN /\ round' = Verified(round, d)
            /\ mgr' = [SwitchTo(Rescue([mgr EXCEPT !.circuit[d] = Shut]), d) EXCEPT !.pinned = d]
       ELSE UNCHANGED <<mgr, round>>
    /\ UNCHANGED <<est, connecting, adding, left>>

ReleasePin ==
    /\ mgr.pinned # None
    /\ mgr' = [mgr EXCEPT !.pinned = None]
    /\ UNCHANGED <<tasks, left>>

SetWeight(d, w) ==
    /\ d \in mgr.dbs /\ w # mgr.weight[d]
    /\ Spend("weight")
    /\ mgr' = [mgr EXCEPT !.weight[d] = w]
    /\ UNCHANGED tasks

(* establishMember: connect unless open, then one probe round. *)
Establishing(s, ds) ==
    [s EXCEPT !.conn = [d \in Database |-> IF d \in ds /\ @[d] = "closed" THEN "down" ELSE @[d]]]

Established(s, d, ok) == [s EXCEPT !.circuit[d] = IF ok THEN Shut ELSE Opened(@)]

ConnectStart ==
    /\ ~mgr.torn /\ ~connecting
    /\ Spend("connect")
    /\ connecting' = TRUE
    /\ est' = [d \in Database |-> IF d \in mgr.dbs THEN "wait" ELSE "none"]
    /\ mgr' = Establishing(mgr, mgr.dbs)
    /\ UNCHANGED <<round, force, adding>>

ConnectVerdict(d, ok) ==
    /\ est[d] = "wait"
    /\ ok => mgr.conn[d] = "ready"
    /\ est' = [est EXCEPT ![d] = IF ok THEN "ok" ELSE "bad"]
    /\ mgr' = Established(mgr, d, ok)
    /\ round' = IF ok THEN Verified(round, d) ELSE round
    /\ UNCHANGED <<force, connecting, adding, left>>

(* Mutant: a failed repeat connect() leaves the traffic where it is. *)
FailConnectOnly(s) == IF ~s.everReady THEN {Teardown(s)} ELSE {s}

FailConnect(s) ==
    IF ~s.everReady THEN {Teardown(s)}
    ELSE IF State(s.circuit[s.active]) # "CLOSED" THEN HandleActiveFailure(s)
    ELSE {s}

Serving(s, target) ==
    LET t == IF s.active = target THEN s
             ELSE MovePubSub(Repoint(s, target), s.active, target)
    IN  [t EXCEPT !.role[target] = "ACTIVE", !.gate = "open", !.inFlight = FALSE,
                  !.running = TRUE, !.timers = t.dbs, !.everReady = TRUE]

ConnectFinish ==
    LET alive == {d \in mgr.dbs : est[d] # "none"}
        ok == {d \in mgr.dbs : est[d] = "ok"}
        targets == Selectable(mgr, ok)
    IN  /\ connecting /\ \A d \in Database : est[d] # "wait"
        /\ connecting' = FALSE
        /\ est' = [d \in Database |-> "none"]
        /\ mgr' \in IF mgr.torn THEN {mgr}
                    ELSE IF Cardinality(ok) < Required(Cardinality(alive)) \/ targets = {}
                         THEN FailConnect(mgr)
                    ELSE {Serving(mgr, d) : d \in targets}
        /\ UNCHANGED <<round, force, adding, left>>

AddDatabase(d) ==
    /\ ~mgr.torn /\ d \notin mgr.dbs /\ mgr.conn[d] = "closed"
    /\ Spend("add")
    /\ mgr' = Establishing([mgr EXCEPT !.dbs = @ \cup {d}, !.circuit[d] = Opened(@)], {d})
    /\ adding' = adding \cup {d}
    /\ UNCHANGED <<round, force, est, connecting>>

AddVerdict(d, ok) ==
    /\ d \in adding
    /\ ok => mgr.conn[d] = "ready"
    /\ adding' = adding \ {d}
    /\ LET s == [Established(mgr, d, ok) EXCEPT
                    !.late = IF ~ok /\ d = mgr.active THEN @ \cup {d} ELSE @]
       IN  mgr' = IF s.running /\ ~s.torn /\ d \in s.dbs
                  THEN [s EXCEPT !.timers = @ \cup {d}] ELSE s
    /\ round' = IF ok THEN Verified(round, d) ELSE round
    /\ UNCHANGED <<force, est, connecting, left>>

(* replaceDatabase() is an addDatabase() and a removeDatabase(), in the    *)
(* order its new id allows.                                                *)
RemoveDatabase(d) ==
    LET Without(s) == [s EXCEPT !.dbs = @ \ {d}, !.timers = @ \ {d},
                                !.conn[d] = IF @ = "closed" THEN "gone" ELSE @] IN
    /\ d \in mgr.dbs /\ Cardinality(mgr.dbs) > 1
    /\ Spend("remove")
    /\ \/ d # mgr.active /\ mgr' = Without(mgr)
       \/ /\ d = mgr.active
          /\ \E t \in Selectable(mgr, mgr.dbs \ {d}) : mgr' = Without(SwitchTo(Rescue(mgr), t))
    /\ UNCHANGED tasks

Close ==                \* close(), quit() or destroy()
    /\ ~mgr.torn
    /\ Spend("close")
    /\ mgr' = Teardown(mgr)
    /\ UNCHANGED tasks

-----------------------------------------------------------------------------
Callers ==
    \/ \E c \in Command : Dispatch(c) \/ \E ok \in BOOLEAN : Settle(c, ok)
    \/ Subscribe \/ Watch \/ Unwatch \/ Multi \/ Exec
    \/ \E ok \in BOOLEAN : WatchReply(ok) \/ UnwatchReply(ok) \/ ExecReply(ok)

Members ==
    \/ \E d \in Database : \/ MemberReady(d) \/ MemberDrops(d) \/ MemberErrs(d)
                           \/ MemberTerminated(d) \/ MemberGone(d) \/ GraceElapses(d)
                           \/ UnsubscribeReply(d)
    \/ \E mv \in mgr.moves : MoveDone(mv)

Background ==
    \/ \E d \in Database : CheckStart(d)
    \/ \E d \in Database, ok \in BOOLEAN : CheckRound(d, ok) \/ RecoveryProbe(d, ok)
    \/ MaybeFallback
    \/ \E l \in mgr.loops : SearchWakes(l)

Operator ==
    \/ \E d \in Database : \/ ForceStart(d) \/ AddDatabase(d) \/ RemoveDatabase(d)
                           \/ \E w \in {0, 1} : SetWeight(d, w)
    \/ \E ok \in BOOLEAN : ForceVerdict(ok)
    \/ ReleasePin \/ ConnectStart \/ ConnectFinish \/ Close
    \/ \E d \in Database, ok \in BOOLEAN : ConnectVerdict(d, ok) \/ AddVerdict(d, ok)

Next == Callers \/ Members \/ Background \/ Operator

Spec == Init /\ [][Next]_vars

(* A timer that was armed fires. *)
FairSpec == Spec /\ WF_vars(\E l \in mgr.loops : SearchWakes(l))

-----------------------------------------------------------------------------
(* Properties. *)

(* Traffic is never served by a member known to be down: once the client   *)
(* is ready and no connect() is under way, an open gate means the active   *)
(* member is in the set, checked in the background and with a closed       *)
(* circuit, and no failover is barred by a guard left behind.  Except for  *)
(* a member that connect() or a forced switch made active while its        *)
(* addDatabase() was under way, and failed: nothing moves traffic then.    *)
ServingActive ==
    (mgr.everReady /\ ~mgr.torn /\ ~connecting /\ mgr.gate = "open") =>
        /\ mgr.active \in mgr.dbs \cap (mgr.timers \cup adding)
        /\ State(mgr.circuit[mgr.active]) = "CLOSED" \/ mgr.active \in mgr.late
        /\ ~mgr.inFlight

(* A switch leaves nothing of the old member behind: no unsent command     *)
(* waits to be replayed on a member that lost the traffic, the detector    *)
(* only charges the active one, and a pin is on the member that serves.    *)
NothingLeftBehind ==
    /\ \A c \in Command : mgr.cmd[c].st = "queued" =>
            mgr.cmd[c].at = mgr.active /\ mgr.gate = "open"
    /\ \A d \in Database \ {mgr.active} : mgr.failures[d] = 0
    /\ mgr.pinned \in {None, mgr.active}

(* An EXEC of a watching caller reaches a member only if that member holds *)
(* the watches: a switch between WATCH and EXEC is always noticed.         *)
WatchHonoured == ~mgr.tx.unguarded

(* A caller's listeners are with a member, and stay subscribed there: a    *)
(* move that a later switch has overtaken unsubscribes nothing it needs.   *)
(* Except where that switch came back to a member whose UNSUBSCRIBE was    *)
(* sent and not answered.                                                  *)
StaysSubscribed ==
    mgr.listens /\ ~mgr.overtaken => mgr.held # None /\ mgr.sub[mgr.held]

(* They are never lost. *)
ListenersKept == mgr.listens => mgr.held # None

(* An outage ends: the gate does not stay between open and failed, however *)
(* rescues and new outages follow each other.                              *)
OutageEnds == (mgr.gate = "searching") ~> (mgr.gate # "searching" \/ mgr.torn)
=============================================================================
