# A TLA+ development for node-redis

This directory models the stateful parts of the client library in
`packages/client/lib`: the command queue, the reconnecting socket, the client
that joins them, pub/sub, the handoff of a connection under maintenance, the
client-side cache, the pool, and the three clients built on top: cluster,
sentinel and multi-database. TLC checks each model on small instances; TLAPS
proves the safety properties of the queue, the client, the handoff, the cache,
the pool, the sentinel and the multi-database client for every instance.
`PROJECT.json` maps each definition to the lines it translates, and lists the runs, the mutants, the
hazards, the findings and the theorems.

## The system

node-redis is single-threaded. All concurrency comes from coroutines that
suspend at `await`, from event handlers, timers and immediates, and from the
network. Between two suspensions nothing else runs, so such a stretch of code is
one atomic step in the models.

| part | state | operations | talks to |
|---|---|---|---|
| commands queue (`client/commands-queue.ts`) | `#toWrite`, `#waitingForReply`, chain in execution, maintenance timeout, listeners of each command | `addCommand`, `addBatch`, `commandsToWrite`, replies, `flushWaitingForReply`, `flushAll`, cancellation | the client, the decoder |
| socket (`client/socket.ts`) | `#isOpen`, `#isReady`, `#socket`, `#teardownEpoch`, suspended `#connect` loops | `connect`, `close`, `destroy`, `write`, errors | the client through events and the initiator callback |
| client (`client/index.ts`) | scheduled write, selected database, watch epoch, pause, close | `connect`, `sendCommand`, `_executeMulti`, handshake, resubscription, `close`, `destroy` | queue, socket, pub/sub, cache, maintenance, credentials |
| pool (`client/pool.ts`) | idle clients, clients in use, waiting tasks, destroyed/terminated/abandoned marks, close promise | `connect`, `execute`, scale-up, replacement, cleanup, `close`, `destroy` | its clients, multi-db |
| linked lists (`client/linked-list.ts`) | nodes | push, unshift, remove, shift | queue, pool, sentinel |
| pub/sub (`client/pub-sub.ts`) | listeners per channel and pattern, counters of pending subscriptions | subscribe, unsubscribe, resubscribe, messages | queue |
| maintenance manager (`client/enterprise-maintenance-manager.ts`) | how many maintenances are under way | MIGRATING, MOVING, handoff of the socket | client, queue |
| client-side cache (`client/cache.ts`) | entries, promises of values being read | read through, invalidate, clear | client, pool |
| cluster (`cluster/`) | slot map, node clients, running discovery | redirects, discovery, slot migration, pub/sub nodes | clients |
| sentinel (`sentinel/`) | root nodes, master and replica clients, `#anotherReset` | observe, transform, execute, leases | clients |
| multi-db (`multi-db/`) | circuits, active database, search, switch generation | failover, fallback, health checks | clients or pools |
| token manager (`authx/`) | current token, refresh timer | start, refresh, stop | identity provider, client |
| RESP codec, commands, policies, telemetry | | pure translation or observation | |

What is hard about it:

* replies carry no name. Everything depends on `#waitingForReply` being in step
  with what was written to *this* connection, through cancellations, preludes,
  lost connections and initiators that were abandoned;
* a transaction must stay contiguous on one connection and share one fate,
  although timeouts, aborts, `asap` commands, the queue limit and a lost
  connection act on single commands;
* `close()` and `destroy()` may be called while anything is suspended, and
  `connect()` again after that;
* a promise that nobody settles is invisible to a test that does not wait for it.
* a client that follows a deployment (cluster, sentinel, multi-db) is suspended
  in the middle of a reconfiguration most of the time, while callers use the old
  state, further changes arrive and somebody closes it;
* state that lives on a connection (WATCH, subscriptions, key tracking,
  authentication) silently disappears with it, and code that holds the object
  does not see that.

## The modules

| module | models | state and actions |
|---|---|---|
| `Delivery` | what the queue promises its callers (an abstract specification) | `outcome` of each promise, `sent`, `flight`; `Submit`, `Send`, `Answer`, `Cancel`, `Skip`, `Lose`, `Close` |
| `CommandsQueue` | `RedisCommandsQueue` and the connection it writes to | `toWrite`, `waiting`, `chainInExecution`, `armed` (listeners of each command), `maintenance`; one action per operation: `AddRequest`, `AddAsap`, `AddAborted`, `FireListener`, `StartMaintenance`, `EndMaintenance`, `Write`, `WriteUnencodable`, `Reply`, `ConnectionLost`, `ConnectionClosed`. `wire`, `conn` and `log` are the connection and the history of what was written |
| `Filters` | the subsequence of a sequence with the elements of a set | a recursive function, used by the modules that have theorems |
| `Socket` | `RedisSocket` | `loop` holds the suspended `#connect` coroutines; `Created`, `CreateFails`, `Initiated`, `InitiatorFails`, `SocketDied`, `Retry` resume one; `Connect`, `SocketClose`, `SocketDestroy` are the calls, `SocketErrors`, `SocketEnds` the network. `emitted` is what the step emits. It is run as part of `Client` |
| `Client` | `RedisClient`, extending `Socket` | every socket step is conjoined with `Listeners`, the client's handlers for what it emits; adds the queue reduced to single commands, the initiators (`init`, `unanswered`), the write schedule (`scheduledWrite`, `needDrain`), `Close` and `Destroy` |
| `Handoff` | the maintenance manager, and of the client the pause, the swap of sockets and WATCH | `hand` holds the suspended MOVING handlers (`GraceOver`, `TmpConnects`, `TmpFails`, `Swap`); `c` the client with its socket, epoch and watch state; `op` the calls |
| `PubSub` | the registry of `pub-sub.ts` and the part of the queue that carries its commands | `c.reg` (listeners and the flag of an unsubscribe under way), `c.subscribing`, `c.pending`, `c.mode` (the RESP2 decoder callbacks); `srv` is the server's subscriptions and the replies on the wire |
| `Cache` | `cache.ts` and its use in the client | `map` in insertion order, `index`, `load` (the reads under way and their entries), `cl` and `srv` (connections and what the server tracks for them) |
| `Pool` | `RedisClientPool` | `creator` holds the suspended `#create` coroutines, `closer` those of `#doClose`; a client is what the pool sees of it: connecting, ready, down, terminated, closing, closed |
| `Cluster` | `RedisClusterSlots`, the redirections of `RedisCluster._execute`, and the extraction of commands from a queue | `cl` is the slot map, the node objects with their clients and queues, `cl.disc` the suspended discoveries, `cl.mig` the suspended SMIGRATED handlers; `world` is the cluster |
| `Sentinel` | `RedisSentinelInternal`, the wait queue, the pub/sub proxy as far as the loop waits for it | `sen` is the client with its connect loop, `caller` and `lease` the callers and the slots of the pool; `world` is the deployment |
| `MultiDb` | the manager, circuits, member lifecycle and forwarders | `mgr` is the manager with its members, `round`, `force`, `est`, `adding` what is suspended |
| `MC...` | | constants and scenarios of the TLC instances |
| `FilterTheorems` | | what filtering a sequence returns and preserves |
| `CommandsQueueProofs` | | theorems about the queue: its promises, its chains, and that it implements `Delivery` |
| `ClientProofs`, `HandoffProofs`, `CacheProofs`, `PoolProofs`, `SentinelProofs`, `MultiDbProofs` | | theorems about the module of that name |

The modules above the client (`Pool`, `Cluster`, `Sentinel`, `MultiDb`) see a
client as what `Client` shows it to be: it connects or fails, becomes ready, goes
down, reconnects, ends, and settles what was queued on it. `Handoff`, `PubSub` and
`Cache` each keep of the queue and the connection what their properties tell
apart.

Modelling decisions that a reader should know:

* synchronous methods are operators on a record that stands for the object; an
  action is what runs between two awaits;
* a *request* of `CommandsQueue` is what a caller submits in one tick (a command,
  a pipeline, a MULTI, each possibly behind ASKING). Command objects are used
  once, so their options are constants;
* `commandsToWrite` may stop at any command for back pressure, so each command
  written is a step;
* in `Client`, the initiator is a coroutine of its own, because it goes on after
  its attempt has been abandoned. `hello` stands for the commands whose failure
  fails the attempt, `setinfo` for the ones whose errors are ignored;
* `ClientCreated` waits for a scheduled write: an immediate set before runs
  before the event loop polls for a new connection;
* in `Pool`, the names of clients nothing refers to any more are used again, so
  there is no bound on how many are created. `Create` takes a name that is free;
  in `pool_lifecycle` there always is one when the code creates a client, so the
  guard keeps no client from being created;
* in `Cluster`, a node object is an address and a copy number, because an address
  may be seated anew while an older object is still referred to;
* in `Cache`, a value is abstracted to whether the server has written one of its
  keys since. Chunks are decoded synchronously and the reads they answer go on
  afterwards, which is the state "replied" of a read;
* in `Handoff`, a connection has a serial number the code does not see; the epoch
  the code compares is per socket, and two sockets may be in the same epoch. The
  timeout is in two places: the setting of the socket object (`c.setting`) and the
  timeout on its connection (`c.relaxed`), which a new connection does not take over;
* in `Cluster`, a node that is down may be given up by its client or not:
  `NodeFails` has no fairness;
* in `MultiDb`, `leaving` holds the members with an UNSUBSCRIBE in flight; the channels
  are moved and unsubscribed together, as in the code;
* history variables and fields (`strayed`, `c.since`, `mgr.overtaken`, `mgr.late`,
  `tx.unguarded`, `log`) are read by properties only;
* what a reconnect strategy answers, whether an event handler calls `destroy()`,
  when the network fails and what a health check finds are nondeterministic.

Operators named "Mutant" in comments are not used by any specification. Each is
a plausible mistake in one definition; put in the place of that definition, it
makes the property it is paired with in `PROJECT.json` fail.

## What the runs show

Passing runs:

| run | instance | checks |
|---|---|---|
| `queue_wire` | ASKING + MULTI/EXEC, a pipeline with a member that cannot be encoded, an asap command, a command with a prelude; a limit of five; two connections | replies match (`ReplyMatching`), a promise is pending exactly while its command is queued or in flight (`NoCommandLost`), nothing is written twice (`AtMostOnce`), a chain is contiguous and on one connection (`ChainWhole`), a MULTI is never stranded without its EXEC (`MultiNotStranded`), and the queue implements `Delivery` (`ImplementsDelivery`): batches are cancelled whole and only while unsent, replies settle in order, a lost connection takes exactly what was sent and the rest of a started chain |
| `client_session` | two callers, one resubscription, two connections, close and destroy at any point | the handshake comes first on every connection (`HandshakeFirst`); one loop of the current session at most runs, and no socket is connected that is not the client's (`NoLeakedSocket`), with `destroy()` and `connect()` beside loops that sleep or create a socket, until a torn-down loop acts on the new session (`strayed`); every command and every `connect()` settles |
| `pool_lifecycle` | two tasks, at most two clients, one closer, one destroy, acquire timeout, `_rejectQueued` | a client is exclusive to a task, none is leaked, every task and every `close()` settles |
| `handoff_moving` | WATCH and EXEC across a handoff and a drop, two overlapping handoffs, a temporary client that fails, back pressure, destroy | replies come on the current connection, a transaction that was let through was admitted where its WATCH ran; the socket object has the maintenance setting exactly during maintenance, and the timeout on the connection is relaxed exactly while the maintenance that began on it lasts (`RelaxedInMaintenance`); writing resumes |
| `pubsub_registry` | two channels and a pattern, two listeners; overlapping calls, unsubscribe of everything beside a PING, drops, moved listeners; RESP2 and RESP3 | replies stay aligned with commands, the registry ends as the server's subscriptions (`Hears`) and as the calls add up to (`IntentKept`), every call settles |
| `cache_tracking` | two clients, a read of one key and one of two; eviction, expiry, abort, opt-in tracking, drops, FLUSHALL, handoff; the basic and both pooled caches | a value that would be served is current or its invalidation is on its way (`Coherent`), nobody joins a read that has ended (`JoinsLiveRead`) |
| `cluster_routing` | three nodes, three slots, four commands; MOVED, ASK, one and two SMIGRATED, a lost node, a destination lost during SMIGRATED, destroy | no slot without a master, no command stranded or doubled, order of a slot's commands kept by a relocation, nothing left after `destroy()`; if no client waits for ever for its first connection to a node that is down, every command settles whose owner is up |
| `sentinel_failover` | two nodes, one or two sentinels of which one is the seed, a pool of one or two; plain callers and a session with WATCH | a slot is lent once, ready means a whole pool of one master and no dropped request to look again, a closed sentinel is quiet, a transaction runs under its WATCH, commands settle, `destroy()` ends |
| `multidb_failover` | two members, one preferred: outages, a repeated connect, a watching caller, a subscriber, commands, an operator | traffic is served by a healthy member, a switch leaves nothing behind, WATCH is honoured, subscriptions survive overlapping moves until a switch comes back to a member whose UNSUBSCRIBE has no reply yet, an outage ends |

Runs that end in a violation. In each, the property states what a comment, a test
or a page of the documentation says, and TLC finds a behaviour of the code that
does otherwise; `PROJECT.json` quotes the line.

| run | property | what happens |
|---|---|---|
| `cluster_flush` | `RepliesMatch` | a partial slot migration gives up waiting for replies and drops their entries; the connection stays in use, and the late replies are given to later commands |
| `handoff_recovers` | `Recovers` | after a handoff the socket's initiator is a closure of the temporary client; when that socket reconnects, the handshake goes to a queue and a socket nobody reads, and the client never becomes ready |
| `cache_flush` | `CoherentAfterClear` | everything is invalidated in the chunk that answers a read; its entry was dropped but not marked, so the stale value is stored |

### Other disagreements met while modelling

No run is kept for these. Where a constant reproduces one, it is named.

Queue, socket, client and pool:

* the command behind an ASKING is cancelled or refused: ASKING is sent alone and
  applies to the next command (`commands-queue.ts:353-358`). `Delivery` allows it: an
  ASKING that was sent keeps a single command from nothing, and only a batch has to
  be unsent as a whole to be cancelled;
* a full queue refuses the handshake, and callers' commands are written without it
  (`index.ts:937`; `MaxLength = 2` in `Client_session.cfg` violates `HandshakeFirst`);
* an initiator whose commands do not fit the write buffer hangs, because `drain`
  does not write before ready (`index.ts:1962`; `HandshakeFits = FALSE` violates
  `ConnectSettles`);
* `close()` never settles when the connection is lost while it waits
  (`index.ts:2354`); `CommandsSettle` of `Client` therefore exempts a client that is
  draining, and `Pool` assumes that `client.close()` settles;
* a failed scale-up rejects the promise of a task another client is running
  (`pool.ts:540`, against the comment above it);
* a command with a prelude is one entry of `#toWrite` and two of
  `#waitingForReply`, so `pendingCount` can pass `commandsQueueMaxLength`;
* `destroy()` followed by `connect()` while a loop waits before a retry, creates a
  socket or initiates one leaves the torn-down loop beside the new one, because a
  failed attempt and the end of the delay look at `#isOpen` and not at
  `#teardownEpoch` (`socket.ts:263-266`, `296-300`, `316-318`). The old loop then retries
  for the new session, gives up for it, or drops its socket, and its late `error`
  flushes `#waitingForReply` of the new connection. The runs let it happen. The step in
  which an old loop first does so sets the history variable `strayed`, and the
  properties of `Client` hold until then. That it never happens is `NoStrayLoop`,
  violated in the instance of `client_session`;
* `connect()` called while a `close()` waits for the queue to drain has its own
  session closed by that `close()`. The runs set `AwaitsClose`: a caller whose
  `close()` has not settled does not call `connect()`;
* `destroy()` during the initiator is still reported as an `error`;
* in a pool without acquire timeout, when every scale-up fails, a task that
  started none stays queued with no client left. The run has an acquire timeout.

Handoff:

* `exec()` called while writing is paused, or unwritten when the connection drops,
  has consumed the watch epoch (`index.ts:2075-2078`) and is later written on a
  connection without its WATCH; `docs/transactions.md:31` says it aborts. This is
  `GuardedExec`, violated in the scenarios of `handoff_moving`;
* a transaction that times out unwritten gives its WATCH back, because nothing of
  it reached the server (`index.ts:2109-2111`). Under back pressure it may have
  waited behind the WATCH of a later transaction: the connection is replaced, the
  later WATCH succeeds on the new one, and `onCancel` (`index.ts:2112-2117`) adds what
  the old connection watched to it, so the next `exec()` is let through without it
  (`Scenario <- MergingOnly` violates `WatchGuards`);
* `destroy()` during MOVING: the swap inserts an open socket into the destroyed
  client (`DestroyIsFinal` under `Scenario <- DestroyedOnly`);
* when the temporary client cannot connect, the rejection is unhandled and the
  client stays paused, and counts a maintenance for ever (`WritingResumes` exempts it);
* a connection that is made during maintenance has the ordinary timeout: `#createSocket`
  sets `#socketTimeout` whatever `#maintenanceTimeout` is (`socket.ts:393-401`), and
  `setMaintenanceTimeout` changes only the connection there is and returns early when
  the setting is the same (`355-371`). That holds for the connection a handoff brings,
  whose client is told of the maintenance before it connects, and after a reconnection.
  `index.ts:274` describes the option as "a more relaxed timeout (in milliseconds)
  for the socket during a maintenance window". This is `RelaxedThroughout`, violated in the
  scenario `Overlapping` of `handoff_moving`;
* under back pressure a chain may be split across the two sockets; subscriptions
  are not moved to the new socket; a temporary socket that is down at the swap
  never becomes ready.

Pub/sub:

* unsubscribe flags only the channels already in the registry
  (`pub-sub.ts:387-389`), so subscribe, unsubscribe and subscribe of one channel
  within a round trip lose the second subscription (`Scenario <- HastyOnly` violates
  `IntentKept`, and `Aligned`); the scenarios of the run make such calls patiently;
* under RESP2 a subscribe queued across a failed connection leaves the decoder
  plain and the counter at -1, so the RESP2 scenarios have no drop;
* a RESP2 unsubscribe of several channels while no handler is installed, RESET,
  which keeps the listeners, and a rejected subscribe of several channels leave
  registry and server apart.

Cache:

* with `clientSideCache` given as a configuration object, a handoff keeps the cache
  while the new connection tracks nothing (`Scenario <- OwnOnly` violates
  `Coherent`); `docs/client-side-caching.md:3` says "The server will notify the client
  when cached results are no longer valid.";
* two sockets may be in the same epoch, so after a swap the epoch of the
  no-redirect cache may accept entries of the connection before.

Cluster:

* a failed `connect()` leaves the node clients it created open, and a first
  `connect()` that is stale after `destroy()` and `connect()` goes on;
* the default reconnect strategy never gives up (`socket.ts:538-550`), so the promise of
  a first connection to a node that is down stays pending. It blocks rediscovery, which
  waits for every node (`cluster-slots.ts:438`), and the handler of an SMIGRATED whose
  destination is down, which has paused the source (`cluster-slots.ts:479,497`):
  commands for slots whose owner is up wait with them. `CommandsSettle` therefore
  assumes that no client waits so for ever; without this it is `OwnedCommandsSettle`,
  violated in the instance of `cluster_routing`;
* a rediscovery that overtakes an SMIGRATED may reorder commands of a slot, which
  is why `KeepsOrder` is about commands that were not redirected.

Sentinel:

* a rejected `resetIfDirty()` never returns its slot to the pool (`lease.lost`);
* `pubSubProxy.changeNode` is awaited without `connectOrFail` and can block the
  loop; after `destroy()` a late pub/sub client fails with a TypeError
  (`pub-sub-proxy.ts:154`);
* the control channel is subscribed by the pattern `switch-master`
  (`index.ts:1205`), while sentinels publish `+switch-master`; a failover between
  observe and the subscription is seen only by READONLY or a scan;
* `execute()` sends an EXEC again after a lost connection or READONLY although its
  WATCH was consumed, and a session keeps its lease when the client is destroyed and
  connected again: the new master clients know nothing of its WATCH
  (`sentinel/index.ts:1737` looks at the clients it replaces, and there are none), so
  its EXEC is sent without one. `docs/transactions.md:31` says that it aborts. This is
  `AlwaysGuarded`, violated in the scenarios `Watching` and `Reopening`; both cases are
  exceptions in `WatchHonoured`.

Multi-database:

* a member that `connect()` or a forced switch makes active while its
  `addDatabase()` is under way keeps the traffic when that fails (the exception in
  `ServingActive`);
* a switch away from a member sends UNSUBSCRIBE to it and awaits the reply
  (`multi-db/index.ts:722-728`). A switch that comes back before the reply fills the
  registry of that member again, and the reply deletes the channels from it
  (`pub-sub.ts:319-323`, `399-405`): the server stays subscribed and nobody listens. A
  third switch before the reply carries the removal out on what it takes along
  (`pub-sub.ts:532-545`). The comment at `multi-db/index.ts:716-720` is about the earlier
  half of this race only. This is `ListenersKept`, violated in the instance of
  `multidb_failover`; `StaysSubscribed` excepts it (`overtaken`);
* a WATCH called while an un-awaited EXEC or UNWATCH of the same caller is in flight is
  cleared by its reply, so the scenarios await.

Deadlock checking is off in all runs: callers may stop calling, a closed client
may stay closed, and the bounded number of events ends behaviours.

### Bounds, and why they are enough

* The roots of the sentinel are merged from the seeds and what one sentinel said
  (`sentinel/index.ts:1851`), with or without those that are down; `Deaf` has a sentinel
  that is discovered beside the seed. The other scenarios have the seed alone.
* The later modules take their inputs from *scenarios*: how often each external
  event (a call, a lost connection, a failover, a notice) happens. A run explores
  every interleaving of each of its scenarios. A scenario combines the events that
  can disturb each other, two where an overlap is the point.
* `MaxConn = 2` and `MaxAttempt = 2`: what can go wrong between connections happens
  between one and the next. The last attempt is not made to fail, which is also
  what "the network does not fail for ever" means in the liveness properties.
* `MaxDestroy = 1`: a coroutine suspended across one teardown, and the pool
  connected again after it. `Member` has a name for each client that can be
  referred to at once.
* `Copies = 3` node objects per address: a seated one, one that was removed and one
  seated anew. `MaxRedirections = 3` and `Max = 1` rediscovers of the sentinel: one
  more than the changes of a scenario, so that a command both succeeds after a
  redirect and runs out of them.
* `NumProbes = 2`, `MinFailures = 1`, `MaxAttempts = 2` of multi-db: a round of more
  than one probe, a search that wakes twice and gives up.
* Symmetry is used in the cache runs only, which have no liveness property; the
  two clients are interchangeable.

### Fairness

Weak fairness is assumed of what the event loop and a live network do: a suspended
connect loop (timers fire; creating a socket ends by `connectTimeout`; the
initiator ends or its socket dies), a scheduled write, drain and replies on a
connection that stays alive, credentials being provided or refused; in the pool
the end of tasks, of `client.connect()`, of `client.close()` and the acquire timeout (a
task nobody is left to serve is settled by that timeout alone: with `acquireTimeout: 0`,
`client/pool.ts:509`, `TasksSettle` would not hold);
in `MultiDb` the timer of a search; in `Sentinel` the loop and the replies of
commands that do not block; in `Cluster`, `PubSub` and `Handoff` connection attempts
to nodes that are up, replies and timers. Calls of users, network failures, failovers
and what a strategy answers have no fairness: in `Cluster` a client may try a node that is
down for ever.

## What is proved

All theorems are about every value of the constants: any set of commands, tasks,
clients and keys, any scenario, any limit, any number of connections. The types
and places of the constants are assumed (`QueueAssumption`, `RequestAssumption`,
`SocketAssumption`, `ClientAssumption`, `CacheAssumption`, `PoolAssumption`,
`SentinelAssumption`, `MultiDbAssumption`), and TLC evaluates these in the runs.
Where a theorem has a further hypothesis it is named below; each of these excludes
a disagreement listed above, and without it the property is false.

Each theorem follows from an inductive invariant, and the proof that a step keeps
it has one lemma per action or kind of action.

**Queue** (`CommandsQueueProofs`)

* `TypeCorrect`, `RepliesMatch`: `waiting = wire` is inductive with the types.
* `NoCommandIsLost`: a reply removes the entry at the front of `waiting`, and to know
  that a prelude does not settle its command one must know that the entry of the
  command itself follows. `PromiseInv` adds `PreludeFirst`, which says so.
* `WrittenAtMostOnce`, from `LogInv`: what is in the log is not in `toWrite` any more
  and its command object is used.
* `ChainsStayWhole`, from `ChainInv`: the unwritten commands of a chain are a
  contiguous run of the queue (`QueueWhole`), and the run of a chain that has started
  is at the front of it (`StartedInFront`), so that nothing can be written in between.
  `ExecutionWritten` says that `#chainInExecution`, which an `asap` command and a lost
  connection look at, is a chain of which something was written.
* `TransactionsComplete`, from `BatchInv`: the head of a batch is in front of its
  members, only the head has listeners, and the members are cancelled when it is;
  what was written is not cancelled any more.
* `QueueImplementsDelivery`: `Init` implies the initial condition of `Delivery`, and
  every step is one of its steps or leaves what callers see as it is. It rests on
  `DeliveryInv`, both invariants above and that what is in flight was sent. Both
  what was sent and what is in flight are read off the log and `waiting`; the
  fairness of `Delivery` is not part of it.

**Client** (`ClientProofs`)

* `NoSocketLeaks` and `ClosedClientIsQuiet`, from `SocketInv`. Any number of loops may be
  suspended. `Live` are those of the current session, whose attempt began in the
  present `#teardownEpoch`. At most one loop is live (`OneLoop`); a socket that is connected
  is the client's, none is connected while a live loop makes another, and one that is
  being made belongs to a loop that will compare its epoch (`SocketsOwned`). `ClosedIsQuiet` is what the epoch is for: an attempt that is
  pending when the client is closed has an earlier one. Hypotheses: `AwaitsClose`, and
  the theorems hold until `strayed`, because the code does not compare the epoch after a
  failed attempt and after the delay.
* `HandshakeComesFirst`, from `HelloInv`. `HelloSent` lists the states in which the
  handshake of a connection must have been written: the client is ready, a write is
  scheduled that the socket would take, the initiator is past its handshake, or the
  handshake waits for its reply. `InitiatorsFresh` says that nothing of an initiator
  that has not run is queued. Hypotheses as above, and a queue without limit.

**Handoff** (`HandoffProofs`)

* `RepliesComeOnCurrent` is inductive with the types. `TimeoutsRelaxedInMaintenance` needs
  that the setting follows the count, and that a connection is never seen again once
  it was replaced (`Serials`): then the connection on which a maintenance
  began, and no other, is the relaxed one.
* `TransactionsAreGuarded`: the code compares a socket and its epoch, not a connection.
  `Admitted` says when they are the same: a transaction with a WATCH was admitted in
  the epoch of its WATCH, and as long as the client has its socket and epoch it has
  its connection. `Sockets` says that a socket to be inserted is new to everybody.
  `Behind` is why `onCancel` restores the right WATCH: once a transaction waits for
  another connection than its own, all that are queued do and no WATCH has succeeded
  since. This needs that the socket takes everything that is queued, hence the
  hypothesis `NoMerging`: no scenario has both back pressure and a cancellation.

**Cache** (`CacheProofs`)

* `JoinsOnlyLiveReads`, from `EntryInv`: the map, the index and the reads agree; a read
  with an entry is the only one of its entry; every reply on the wire belongs to a
  read that waits for it; a read that has ended left its entry marked or out of date.
  Hypothesis `NoRedirectStays`: the no-redirect cache is not used with a handoff.
* `CacheIsCoherent`, from `Watched`: a value that is on its way or stored is the
  server's and the server tracks all its keys for the connection it came on, or an
  invalidation of it is on the wire, or it will not be served, because its read was
  marked or its connection is gone. Hypotheses `NoRedirectStays` and `OwnStays`: a
  cache given as a configuration object is not used with a handoff either.

**Pool** (`PoolProofs`)

* `TasksAreExclusive` and `ClientsAreTracked`, from `PoolInv`: `#idleClients`,
  `#clientsInUse`, and what creators and closers hold are apart; a task is queued once
  and has one client; a `close()` that drains is alone, and those it waits for are in no
  use.
* `PoolIsBounded`: no more clients than `maximum`, from `SizeInv`. A pool that is not
  open is empty, which a creator relies on that outlived a `destroy()`.

**Sentinel** (`SentinelProofs`). The four properties follow from one inductive
invariant (`SentinelInvariant`), whose parts need each other; no hypothesis beside
`SentinelAssumption`.

* `EndedStaysQuiet` and `ReadyIsServed`, from `Sound`, which is about the client alone.
  `Ended`: a client that is not open, or that drains, has no loop, no clients and no
  timer. `Served` says when the promise of readiness begins: from the moment a round
  opens connections there are master clients, and unless another round was asked for
  the control connection is there or on its way; a lost one asks for another round.
  `Awaiting` says that connections are awaited only in such a round, which is why a
  connection that fails later does not end a loop that is not there.
* `SlotsExclusive`, from `Leased`. `Spread`: every slot of the pool is in the free list,
  with the one caller that owns it, the shared lease, or lost. `Waits`: who waits is in
  the queue once, the plain callers as one entry, and `masterClientCount` counts those
  that share the lease. The lemmas about `Push` and `Release` are stated for any set of
  slots: a release takes the slot out of the set and `Push` adds it again.
* `WatchSurvivesFailover`, from `Watched`: as long as a session's EXEC is not sent, the
  client at its slot has the WATCH, and has it as dirty if the connection of the
  WATCH is gone; where there are no clients, no loop runs before the next `connect()`.
  It rests on `Leased`: nobody else is at the slot whose watch EXEC and the reset clear.

**Multi-database** (`MultiDbProofs`). Again one inductive invariant,
`ManagerInvariant`, under `MultiDbAssumption` only: a part about the manager's record
(`Inner`), which every one of its methods keeps, and a part about what is in flight.

* `OpenGateServes`, from `Served`, `Sound` and `Covered`: the active member is in the set;
  the guard against a second failover is set exactly while a search runs; behind an
  open gate the circuit of the active member is closed; every member of the set has
  its background check, or its `addDatabase()` is under way. `Sound` is suspended while
  a `connect()` is in flight, which opens circuits before it knows whom it activates.
* `SwitchLeavesNothing`, from `Behind`: only a member that is active and down has queued
  commands, which is why rejecting those of the member that is left is enough.
* `WatchSurvivesSwitch`, from `Watches`: a session that is not marked dirty is watched on
  the active member, and its calls go there.
* `ListenersSubscribed`, from `Subscribed`: the latest move goes to the active member, which
  holds the listeners, and comes from another one, so that what it cleans up is not
  theirs; as long as no switch came back to a member whose UNSUBSCRIBE has no reply, no
  reply that is awaited deletes them.

Facts about filtering a sequence are proved by induction. The provers cannot use
the library's induction theorems, which take an operator; `FilterTheorems` states
induction for sets instead (a set of numbers that has 0 and successors has all of
them), from the fact that the order of the numbers is well-founded, and uses it
for the function that `Filter` is defined by.

Only model-checked: the safety properties of `PubSub` and `Cluster`, and all liveness,
because fairness and ENABLED are out of the prover's reach. `Hears` and `IntentKept`
compare the registry with a fold over the whole history of calls, and `Aligned` rests
on counters that agree with how many replies are still on the wire: each needs
an induction over data that no step of the system supplies. `RepliesMatch` of the cluster is
violated. The other four properties of the cluster are not proved: their
invariant would have to relate the map, the node objects, the discoveries and the
migrations at once, through folds over sets of nodes.

## What is not modelled

In the modelled parts: MONITOR and RESET; the ping timer; re-authentication;
sharded pub/sub and the pub/sub nodes of the cluster; replicas, cursors and chains
in the cluster; the replica pool, `reserveClient` and `scanIterator` of the
sentinel; `setAutoFallback` and the window of the failure detector in multi-db;
statistics of the cache; the order of microtasks within one turn of the event
loop, where steps that follow each other in microtasks are merged.

Parts without a module, with the reason, are in `PROJECT.json`: the RESP codec, the
token manager (a token that arrives after a stop would be its hazard), request
and response policies, the HIMPORT registry, legacy mode,
telemetry. Most of the repository's lines are none of these. More than a thousand
files hold the arguments and the reply transformation of one command each;
`commands/index.ts` and `command-metadata-data.ts` are tables of 12,400 lines;
`test-utils` starts servers. They have no state and no control to model, so the map
covers the stateful core and only a small share of all lines.

## Plan

1. An inductive invariant of `Cluster` for `MapWhole` and `DestroyLeavesNothing`,
   which relates the map, the seats, the node objects and what is in flight.
2. `TokenManager`: the refresh timer against stop and a late token.
3. `LinkedList` refining a sequence; a decoder resumed at every split point.
