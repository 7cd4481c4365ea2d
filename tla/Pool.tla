-------------------------------- MODULE Pool --------------------------------
(***************************************************************************)
(* A pool of clients (RedisClientPool in                                   *)
(* packages/client/lib/client/pool.ts): tasks borrow a client for their    *)
(* own use, wait for one when none is idle, and the pool grows, shrinks,   *)
(* replaces clients that gave up, drains on close() and is torn down by    *)
(* destroy().                                                              *)
(*                                                                         *)
(* A pooled client is abstracted to what the pool can see of it; module    *)
(* Client says how it gets there.  The coroutines of #create (one per      *)
(* client that is connecting) and of close() (one per closer) suspend, and *)
(* everything between two suspensions is one step.  The name of a client   *)
(* that nothing refers to any more is used again for a new one, so no      *)
(* bound on the number of reconnections is needed.                         *)
(***************************************************************************)
EXTENDS Integers, FiniteSets, Sequences, Filters

CONSTANTS
    Task,             \* tasks of the callers
    Member,           \* bound: names of clients that are referred to at once
    Closer,           \* names of close() calls
    Minimum,          \* the minimum option
    Maximum,          \* the maximum option
    AcquireTimeout,   \* whether acquireTimeout is not 0
    CallsReject,      \* whether the owner of the pool calls _rejectQueued
    MaxDestroy,       \* bound: teardowns in a behaviour
    None

ASSUME PoolAssumption ==
    /\ IsFiniteSet(Member)
    /\ Minimum \in Nat /\ Maximum \in Nat /\ Minimum <= Maximum
    /\ AcquireTimeout \in BOOLEAN /\ CallsReject \in BOOLEAN
    /\ MaxDestroy \in Nat
    /\ None \notin Task \cup Member \cup Closer

VARIABLES
    isOpen,        \* #isOpen
    idle,          \* #idleClients
    inUse,         \* #clientsInUse
    tasks,         \* #tasksQueue
    destroyed,     \* #destroyed
    abandoned,     \* #abandoned
    destroyCount,  \* #destroyCount
    closePromise,  \* #closePromise: a closer, or None
    drainResolve,  \* #drainResolve: the closer it resolves, or None
    cleanup,       \* cleanupTimeout is armed
    creator,       \* Member -> why it is being created, None once it is not
    closer,        \* Closer -> [pc, count, awaits] of a #doClose coroutine
    where,         \* Task -> the client it runs on, or None
    outcome,       \* Task -> what became of the promise
    client         \* Member -> state of the client; "terminated" if its
                   \* strategy gave up (#terminated)

listVars == <<idle, inUse, tasks>>
markVars == <<destroyed, abandoned>>
closeVars == <<isOpen, destroyCount, closePromise, drainResolve, closer>>
taskVars == <<where, outcome>>
vars == <<listVars, markVars, closeVars, taskVars, cleanup, creator, client>>

NotClosing == [pc |-> "none", count |-> 0, awaits |-> {}]

PoolInit ==
    /\ isOpen = FALSE
    /\ idle = <<>>
    /\ inUse = {}
    /\ tasks = <<>>
    /\ destroyed = {}
    /\ abandoned = {}
    /\ destroyCount = 0
    /\ closePromise = None
    /\ drainResolve = None
    /\ cleanup = FALSE
    /\ creator = [m \in Member |-> None]
    /\ closer = [k \in Closer |-> NotClosing]
    /\ where = [t \in Task |-> None]
    /\ outcome = [t \in Task |-> "unused"]
    /\ client = [m \in Member |-> "closed"]

Items(s) == {s[i] : i \in DOMAIN s}
IsClosing == closePromise # None

(* The outcomes when the promises of the tasks in S are settled. *)
Settled(S) == [t \in Task |-> IF t \in S THEN "settled" ELSE outcome[t]]
Closed(S) == [m \in Member |-> IF m \in S THEN "closed" ELSE client[m]]

(* The names that nothing refers to any more, and n of them for new        *)
(* clients.  A client leaves the weak sets #destroyed and #abandoned with  *)
(* the last reference.                                                     *)
Unused == {m \in Member :
    /\ client[m] = "closed"
    /\ m \notin inUse \cup destroyed \cup Items(idle)
    /\ \A k \in Closer : m \notin closer[k].awaits}
Fresh(n) == CHOOSE S \in SUBSET Unused : Cardinality(S) = n

-----------------------------------------------------------------------------
(* #drainResolve?.() *)
SignalDrain ==
    closer' = [k \in Closer |->
        IF k = drainResolve /\ closer[k].pc = "draining"
        THEN [closer[k] EXCEPT !.pc = "drained"]
        ELSE closer[k]]

(* #create, up to client.connect(), of n clients, for which names must be  *)
(* left.  U is what is in use, cl the state of the clients and cr their    *)
(* creators before that.                                                   *)
Create(n, reason, U, cl, cr) ==
    /\ \E S \in SUBSET Unused : Cardinality(S) = n
    /\ inUse' = U \cup Fresh(n)
    /\ client' = [m \in Member |-> IF m \in Fresh(n) THEN "connecting" ELSE cl[m]]
    /\ creator' = [m \in Member |->
         IF m \in Fresh(n) THEN [why |-> reason, count |-> destroyCount] ELSE cr[m]]

NotCreating(m) == [creator EXCEPT ![m] = None]

(* #scheduleCleanup, when there are n clients. *)
ScheduleCleanup(n) == cleanup' = (cleanup \/ n > Minimum)

(* Mutant: the last client to become idle does not wake close() up. *)
BecomeIdleSilently(m) ==
    /\ inUse' = inUse \ {m}
    /\ idle' = Append(idle, m)
    /\ ScheduleCleanup(Len(idle') + Cardinality(inUse'))
    /\ UNCHANGED <<closer, tasks>>

(* The client goes to the idle ones; when that leaves none in use, a       *)
(* close() that waits for it goes on.                                      *)
BecomeIdle(m) ==
    /\ inUse' = inUse \ {m}
    /\ idle' = Append(idle, m)
    /\ IF IsClosing /\ inUse' = {}
       THEN SignalDrain /\ UNCHANGED cleanup
       ELSE ScheduleCleanup(Len(idle') + Cardinality(inUse')) /\ UNCHANGED closer
    /\ UNCHANGED tasks

(* A client that gave up is replaced if somebody waits. *)
ReturnTerminated(m) ==
    /\ IF tasks # <<>>
       THEN /\ Create(1, "replacement", inUse \ {m}, Closed({m}), NotCreating(m))
            /\ UNCHANGED closer
       ELSE /\ inUse' = inUse \ {m}
            /\ client' = Closed({m})
            /\ creator' = NotCreating(m)
            /\ IF IsClosing /\ inUse' = {} THEN SignalDrain ELSE UNCHANGED closer
    /\ abandoned' = abandoned \ {m}
    /\ UNCHANGED <<idle, tasks, cleanup, destroyed>>

(* Mutant: the client is idle before it takes a waiting task. *)
ReturnClientIdleFirst(m, wh) ==
    /\ m \notin destroyed
    /\ idle' = Append(idle, m)
    /\ inUse' = inUse \ {m}
    /\ IF tasks = <<>>
       THEN where' = wh /\ UNCHANGED tasks
       ELSE where' = [wh EXCEPT ![Head(tasks)] = m] /\ tasks' = Tail(tasks)
    /\ creator' = NotCreating(m)
    /\ UNCHANGED <<markVars, closer, cleanup, client>>

(* #returnClient, with the tasks at wh. *)
ReturnClient(m, wh) ==
    \/ /\ m \in destroyed
       /\ where' = wh
       /\ destroyed' = destroyed \ {m}
       /\ creator' = NotCreating(m)
       /\ UNCHANGED <<listVars, abandoned, closer, cleanup, client>>
    \/ /\ m \notin destroyed
       /\ client[m] = "terminated"
       /\ where' = wh
       /\ ReturnTerminated(m)
    \/ /\ m \notin destroyed
       /\ client[m] # "terminated"
       /\ abandoned' = abandoned \ {m}
       /\ IF tasks = <<>> \/ (m \in abandoned /\ client[m] # "ready")
          THEN BecomeIdle(m) /\ where' = wh
          ELSE /\ where' = [wh EXCEPT ![Head(tasks)] = m]
               /\ tasks' = Tail(tasks)
               /\ UNCHANGED <<idle, inUse, closer, cleanup>>
       /\ creator' = NotCreating(m)
       /\ UNCHANGED <<destroyed, client>>

-----------------------------------------------------------------------------
(* connect() *)
Connect ==
    /\ ~isOpen
    /\ destroyCount <= MaxDestroy
    /\ isOpen' = TRUE
    /\ Create(Minimum, "connect", inUse, client, creator)
    /\ UNCHANGED <<idle, tasks, markVars, taskVars, destroyCount, closePromise, drainResolve,
                   closer, cleanup>>

(* The rest of #create, when client.connect() has succeeded; a destroy()   *)
(* may come between that and the step.                                     *)
Connected(m) ==
    /\ creator[m] # None
    /\ \/ /\ client[m] = "connecting"
          /\ m \notin destroyed
          /\ abandoned' = abandoned \ {m}
          /\ creator' = NotCreating(m)
          /\ IF tasks = <<>>
             THEN BecomeIdle(m) /\ UNCHANGED where
             ELSE /\ where' = [where EXCEPT ![Head(tasks)] = m]
                  /\ tasks' = Tail(tasks)
                  /\ UNCHANGED <<idle, inUse, closer, cleanup>>
          /\ client' = [client EXCEPT ![m] = "ready"]
          /\ UNCHANGED destroyed
       \/ m \in destroyed /\ ReturnClient(m, where)
    /\ UNCHANGED <<outcome, isOpen, destroyCount, closePromise, drainResolve>>

(* destroy(), when the creators are cr. *)
DestroyPool(cr) ==
    /\ destroyCount' = destroyCount + 1
    /\ destroyed' = {m \in destroyed \cup inUse : cr[m] # None \/ \E t \in Task : where[t] = m}
    /\ client' = Closed(inUse \cup Items(idle))
    /\ idle' = <<>>
    /\ inUse' = {}
    /\ tasks' = <<>>
    /\ SignalDrain
    /\ drainResolve' = None
    /\ closePromise' = None
    /\ outcome' = Settled(Items(tasks))
    /\ isOpen' = FALSE
    /\ creator' = cr
    /\ abandoned' = abandoned \ inUse
    /\ UNCHANGED <<cleanup, where>>

(* The catch of #create: client m is not in use any more, and when nobody  *)
(* is left to take the waiting tasks they are rejected.                    *)
CreateFailed(m, fallback) ==
    LET last == (IsClosing \/ creator[m].why = "replacement") /\ inUse = {m}
        rejected == (IF last THEN Items(tasks) ELSE {}) \cup fallback
    IN  /\ inUse' = inUse \ {m}
        /\ client' = Closed({m})
        /\ abandoned' = abandoned \ {m}
        /\ creator' = NotCreating(m)
        /\ tasks' = Filter(tasks, Task \ rejected)
        /\ outcome' = Settled(rejected)
        /\ IF last THEN SignalDrain ELSE UNCHANGED closer
        /\ UNCHANGED <<idle, destroyed, isOpen, destroyCount, closePromise,
                       drainResolve, where, cleanup>>

(* client.connect() was rejected: connect() then destroys the pool, and    *)
(* execute() rejects the task the client was created for, wherever it is.  *)
ConnectFails(m) ==
    /\ creator[m] # None
    /\ \/ /\ m \in destroyed
          /\ destroyed' = destroyed \ {m}
          /\ creator' = NotCreating(m)
          /\ UNCHANGED <<listVars, abandoned, closeVars, taskVars, cleanup, client>>
       \/ /\ m \notin destroyed
          /\ creator[m].why = "connect"
          /\ creator[m].count = destroyCount
          /\ DestroyPool(NotCreating(m))
       \/ /\ m \notin destroyed
          /\ creator[m].why \in Task
          /\ CreateFailed(m, {creator[m].why})
       \/ /\ m \notin destroyed
          /\ creator[m].why = "replacement"
          /\ CreateFailed(m, {})

-----------------------------------------------------------------------------
(* totalClients is below the maximum; there are no idle clients here. *)
HasRoom == Cardinality(inUse) < Maximum

(* The number of idle clients at the front that gave up. *)
GaveUp(n) ==
    /\ \A i \in 1..n : client[idle[i]] = "terminated"
    /\ n < Len(idle) => client[idle[n + 1]] # "terminated"

(* execute() *)
Execute(t) ==
    /\ outcome[t] = "unused"
    /\ IF IsClosing \/ ~isOpen
       THEN /\ outcome' = Settled({t})
            /\ UNCHANGED <<listVars, where, creator, client>>
       ELSE /\ outcome' = [outcome EXCEPT ![t] = "pending"]
            /\ \E n \in 0..Len(idle) : LET cl == Closed(Items(SubSeq(idle, 1, n))) IN
                 /\ GaveUp(n)
                 /\ idle' = SubSeq(idle, n + 2, Len(idle))
                 /\ IF n < Len(idle)
                    THEN /\ inUse' = inUse \cup {idle[n + 1]}
                         /\ where' = [where EXCEPT ![t] = idle[n + 1]]
                         /\ client' = cl
                         /\ UNCHANGED <<tasks, creator>>
                    ELSE /\ tasks' = Append(tasks, t)
                         /\ UNCHANGED where
                         /\ IF HasRoom
                            THEN Create(1, t, inUse, cl, creator)
                            ELSE client' = cl /\ UNCHANGED <<inUse, creator>>
    /\ UNCHANGED <<closeVars, markVars, cleanup>>

(* Mutant: a task that timed out is removed and not rejected. *)
TimesOutSilently(t) ==
    /\ AcquireTimeout
    /\ t \in Items(tasks)
    /\ tasks' = Filter(tasks, Task \ {t})
    /\ UNCHANGED <<idle, inUse, markVars, closeVars, taskVars, cleanup, creator, client>>

(* The acquire timeout of a task that waits. *)
TimesOut(t) ==
    /\ AcquireTimeout
    /\ t \in Items(tasks)
    /\ tasks' = Filter(tasks, Task \ {t})
    /\ outcome' = Settled({t})
    /\ UNCHANGED <<idle, inUse, markVars, closeVars, where, cleanup, creator, client>>

(* The promise of a task settles, and its client is returned. *)
TaskEnds(t) ==
    /\ where[t] # None
    /\ outcome' = Settled({t})
    /\ ReturnClient(where[t], [where EXCEPT ![t] = None])
    /\ UNCHANGED <<isOpen, destroyCount, closePromise, drainResolve>>

(* #cleanup *)
Cleanup ==
    LET surplus == Len(idle) + Cardinality(inUse) - Minimum
        toDestroy == IF surplus < Len(idle) THEN surplus ELSE Len(idle)
    IN  /\ cleanup
        /\ cleanup' = FALSE
        /\ IF toDestroy > 0
           THEN /\ client' = Closed(Items(SubSeq(idle, 1, toDestroy)))
                /\ idle' = SubSeq(idle, toDestroy + 1, Len(idle))
           ELSE UNCHANGED <<client, idle>>
        /\ UNCHANGED <<inUse, tasks, markVars, closeVars, taskVars, creator>>

(* _rejectQueued() *)
RejectQueued ==
    /\ CallsReject
    /\ abandoned' = abandoned \cup {m \in inUse : client[m] # "ready"}
    /\ IF \E m \in inUse \cup Items(idle) : client[m] = "ready"
       THEN UNCHANGED <<tasks, outcome>>
       ELSE tasks' = <<>> /\ outcome' = Settled(Items(tasks))
    /\ UNCHANGED <<idle, inUse, destroyed, closeVars, where, cleanup,
                   creator, client>>

-----------------------------------------------------------------------------
(* close() *)
Close(k) ==
    /\ isOpen
    /\ ~IsClosing
    /\ closer[k].pc = "none"
    /\ closePromise' = k
    /\ closer' = [closer EXCEPT ![k] = [pc |-> "starting", count |-> destroyCount, awaits |-> {}]]
    /\ cleanup' = FALSE
    /\ UNCHANGED <<listVars, markVars, taskVars, isOpen, destroyCount, drainResolve,
                   creator, client>>

(* #doClose starts: it waits while clients are in use. *)
StartClose(k) ==
    /\ closer[k].pc = "starting"
    /\ IF closer[k].count = destroyCount /\ inUse # {}
       THEN closer' = [closer EXCEPT ![k].pc = "draining"] /\ drainResolve' = k
       ELSE closer' = [closer EXCEPT ![k].pc = "drained"] /\ UNCHANGED drainResolve
    /\ UNCHANGED <<listVars, markVars, taskVars, isOpen, destroyCount, closePromise,
                   cleanup, creator, client>>

(* Everything has drained: the idle clients are closed. *)
CloseClients(k) ==
    LET closing == {m \in Items(idle) : client[m] # "terminated"} IN
    /\ closer[k].pc = "drained"
    /\ IF closer[k].count # destroyCount
       THEN closer' = [closer EXCEPT ![k] = NotClosing] /\ UNCHANGED client
       ELSE /\ closer' = [closer EXCEPT ![k].pc = "closing", ![k].awaits = closing]
            /\ client' = [m \in Member |->
                 IF m \in closing THEN "closing" ELSE Closed(Items(idle))[m]]
    /\ UNCHANGED <<listVars, markVars, taskVars, isOpen, destroyCount, closePromise,
                   drainResolve, cleanup, creator>>

(* The close() of a client settles. *)
ClientCloses(k, m) ==
    /\ m \in closer[k].awaits
    /\ client' = Closed({m})
    /\ closer' = [closer EXCEPT ![k].awaits = @ \ {m}]
    /\ UNCHANGED <<listVars, markVars, taskVars, isOpen, destroyCount, closePromise,
                   drainResolve, cleanup, creator>>

(* Mutant: a close() that destroy() took over resets the pool all the same.*)
FinishCloseStale(k) ==
    /\ closer[k].pc = "closing"
    /\ closer[k].awaits = {}
    /\ closer' = [closer EXCEPT ![k] = NotClosing]
    /\ idle' = <<>>
    /\ inUse' = {}
    /\ drainResolve' = None
    /\ isOpen' = FALSE
    /\ closePromise' = None
    /\ UNCHANGED <<tasks, markVars, taskVars, destroyCount, cleanup, creator, client>>

(* The end of #doClose, unless a destroy() took over. *)
FinishClose(k) ==
    /\ closer[k].pc = "closing"
    /\ closer[k].awaits = {}
    /\ closer' = [closer EXCEPT ![k] = NotClosing]
    /\ IF closer[k].count # destroyCount
       THEN UNCHANGED <<idle, inUse, drainResolve, isOpen, closePromise>>
       ELSE /\ idle' = <<>>
            /\ inUse' = {}
            /\ drainResolve' = None
            /\ isOpen' = FALSE
            /\ closePromise' = None
    /\ UNCHANGED <<tasks, markVars, taskVars, destroyCount, cleanup, creator, client>>

(* destroy() *)
Destroy ==
    /\ destroyCount < MaxDestroy
    /\ DestroyPool(creator)

-----------------------------------------------------------------------------
(* What a client does on its own: it loses its connection, reconnects, or  *)
(* gives up for good.                                                      *)
Tracked == inUse \cup Items(idle)

ClientDown(m) ==
    /\ m \in Tracked
    /\ client[m] = "ready"
    /\ client' = [client EXCEPT ![m] = "down"]
    /\ UNCHANGED <<listVars, markVars, closeVars, taskVars, cleanup, creator>>

ClientUp(m) ==
    /\ client[m] = "down"
    /\ client' = [client EXCEPT ![m] = "ready"]
    /\ UNCHANGED <<listVars, markVars, closeVars, taskVars, cleanup, creator>>

ClientTerminates(m) ==
    /\ m \in Tracked
    /\ client[m] \in {"ready", "down"}
    /\ client' = [client EXCEPT ![m] = "terminated"]
    /\ UNCHANGED <<listVars, markVars, closeVars, taskVars, cleanup, creator>>

Creation(m) == Connected(m) \/ ConnectFails(m)
CloserStep(k) ==
    \/ StartClose(k)
    \/ CloseClients(k)
    \/ \E m \in Member : ClientCloses(k, m)
    \/ FinishClose(k)

PoolNext ==
    \/ Connect
    \/ Cleanup
    \/ RejectQueued
    \/ Destroy
    \/ \E t \in Task : Execute(t) \/ TimesOut(t) \/ TaskEnds(t)
    \/ \E m \in Member : Creation(m) \/ ClientDown(m) \/ ClientUp(m) \/ ClientTerminates(m)
    \/ \E k \in Closer : Close(k) \/ CloserStep(k)

(* connect() of a client settles, the promise of a task settles, timers    *)
(* fire, and the coroutine of close() is resumed.                          *)
PoolFairness ==
    /\ \A m \in Member : WF_vars(Creation(m))
    /\ \A t \in Task : WF_vars(TaskEnds(t)) /\ WF_vars(TimesOut(t))
    /\ \A k \in Closer : WF_vars(CloserStep(k))

PoolSpec == PoolInit /\ [][PoolNext]_vars /\ PoolFairness

-----------------------------------------------------------------------------
(* Properties.                                                             *)

(* "An exclusive connection": no two tasks run on one client, and a client *)
(* that runs a task is neither idle nor given to a later connect().        *)
Exclusive ==
    \A t \in Task : where[t] # None =>
        /\ \A u \in Task \ {t} : where[u] # where[t]
        /\ where[t] \in inUse \cup destroyed
        /\ where[t] \notin Items(idle)

(* Every client with a connection is known to the pool, or is being closed *)
(* by a close(): whatever races, close() and destroy() reach all of them.  *)
NoLeakedClient ==
    \A m \in Member :
        /\ client[m] \in {"connecting", "ready", "down", "terminated"} => isOpen /\ m \in Tracked
        /\ client[m] = "closing" => \E k \in Closer : m \in closer[k].awaits

(* Every task is settled, when acquireTimeout is not 0. *)
TasksSettle == \A t \in Task : outcome[t] = "pending" ~> outcome[t] # "pending"

(* close() settles, whatever happens to the clients and whoever calls      *)
(* destroy() meanwhile.                                                    *)
CloseSettles == \A k \in Closer : closer[k].pc # "none" ~> closer[k].pc = "none"

=============================================================================
