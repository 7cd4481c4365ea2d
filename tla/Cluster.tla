------------------------------ MODULE Cluster -------------------------------
(***************************************************************************)
(* The cluster client: the slot map and the node clients behind it         *)
(* (cluster/cluster-slots.ts), the MOVED and ASK redirections of a command *)
(* (cluster/index.ts), discovery and rediscovery, the relocation of queued *)
(* commands on an SMIGRATED notification, and destroy().                   *)
(*                                                                         *)
(* cl is the RedisClusterSlots object with its node objects and what is in *)
(* flight; its synchronous methods are operators on that record.  A node   *)
(* object is <<address, copy>>: the same address may be seated anew while  *)
(* an older object is still referred to.  Every action is what runs        *)
(* between two awaits.  Replicas, pub/sub clients and chains are left out. *)
(***************************************************************************)
EXTENDS Naturals, Sequences, FiniteSets, SequencesExt

CONSTANTS
    Node,           \* addresses
    Root,           \* rootNodes
    Slot,
    FirstOwner,     \* FirstOwner[s]: the master of s at first
    SlotOf,         \* SlotOf[c]: the slot of command c; commands are numbered
                    \* in the order they are issued
    MaxRedirections, \* maxCommandRedirections
    Copies,         \* bound: node objects per address
    Scenario,       \* how often each external event happens
    None

Command == DOMAIN SlotOf

ASSUME ClusterAssumption ==
    /\ Root \subseteq Node /\ Root # {}
    /\ FirstOwner \in [Slot -> Node]
    /\ SlotOf \in [Command -> Slot] /\ Command \subseteq Nat
    /\ MaxRedirections \in Nat
    /\ Copies \in Nat \ {0}
    /\ None \notin Node

VARIABLES
    cl,         \* the client
    world,      \* the cluster: who owns a slot, imports it, is up; notifications
                \* on their way; the commands it executed, in order
    left        \* what is left of the scenario's events

vars == <<cl, world, left>>

Object == Node \X (1..Copies)

Address(o) == o[1]

Spend(event) ==
    /\ event \in DOMAIN left
    /\ left[event] > 0
    /\ left' = [left EXCEPT ![event] = @ - 1]

-----------------------------------------------------------------------------
(* Discoveries: that of each connect(), and the single rediscovery. *)

Boot == {"boot1", "boot2"}

NoDiscovery == [st |-> "idle", phase |-> "roots", todo |-> {}, without |-> {},
                answer |-> FirstOwner, awaits |-> {}]

(* rediscover: joins the one in flight. *)
Rediscover(s, phase, todo, without) ==
    IF s.disc["refresh"].st # "idle" THEN s
    ELSE [s EXCEPT !.disc["refresh"] =
            [NoDiscovery EXCEPT !.st = "trying", !.phase = phase, !.todo = todo, !.without = without]]

(* Mutant: only those who asked for a rediscovery that found the cluster   *)
(* are told.                                                               *)
SettledIfOk(s, d, ok) ==
    LET t == [s EXCEPT !.disc[d] = NoDiscovery]
    IN  IF d = "refresh" THEN IF ok THEN [t EXCEPT !.cmd = [c \in Command |->
                IF @[c].st = "moved" THEN [@[c] EXCEPT !.st = "route"] ELSE @[c]]] ELSE t
        ELSE [t EXCEPT !.ready = t.open, !.open = @ /\ ok, !.everReady = @ \/ t.open]

(* The promise of a discovery settles: connect() and the commands that     *)
(* wait for a rediscovery go on, or get its rejection.                     *)
Settled(s, d, ok) ==
    LET t == [s EXCEPT !.disc[d] = NoDiscovery]
    IN  IF d = "refresh"
        THEN [t EXCEPT !.cmd = [c \in Command |->
                CASE @[c].st = "moved" -> [@[c] EXCEPT !.st = IF ok THEN "route" ELSE "failed"]
                  [] @[c].st = "asked" -> [@[c] EXCEPT !.st = IF ok THEN "ask" ELSE "failed"]
                  [] OTHER -> @[c]]]
        ELSE IF ok THEN [t EXCEPT !.ready = @ \/ t.open, !.everReady = @ \/ t.open]
        ELSE [t EXCEPT !.open = FALSE, !.ready = FALSE]

-----------------------------------------------------------------------------
(* Node objects and their clients. *)

Fresh(s, n) == {o \in Object : Address(o) = n /\ s.client[o] = "blank"}

NewObject(s, n) == CHOOSE o \in Fresh(s, n) : \A p \in Fresh(s, n) : o[2] <= p[2]

(* The catch of an SMIGRATED handler resumes what was paused. *)
Abandon(s, k) ==
    [s EXCEPT !.mig[k].st = "idle", !.paused = @ \ {s.mig[k].src}]

(* Clients are destroyed or give up connecting: what they held is          *)
(* rejected, and whoever awaited their connection goes on with the failure.*)
LoseClients(s, os, to) ==
    LET awaited == {o \in os : s.client[o] = "connecting"}
        broken == {k \in DOMAIN s.mig : s.mig[k].st = "connecting" /\ s.mig[k].dst \in os}
        without(f) == [o \in Object |-> IF o \in os THEN <<>> ELSE f[o]]
    IN  [s EXCEPT
            !.client = [o \in Object |-> IF o \in os THEN to ELSE @[o]],
            !.queue = without(@), !.flight = without(@), !.pipe = without(@),
            !.paused = (@ \ os) \ {s.mig[k].src : k \in broken},
            !.cmd = [c \in Command |->
                IF @[c].obj \in os /\ @[c].st \in {"wait", "queued", "sent"}
                THEN [@[c] EXCEPT !.st = "failed"] ELSE @[c]],
            !.disc = [d \in DOMAIN @ |->
                IF @[d].awaits \cap awaited # {}
                THEN [@[d] EXCEPT !.st = "trying", !.awaits = {}] ELSE @[d]],
            !.mig = [k \in DOMAIN @ |-> IF k \in broken THEN [@[k] EXCEPT !.st = "idle"] ELSE @[k]]]

Enqueue(s, c, o) ==
    [s EXCEPT !.queue[o] = Append(@, c), !.cmd[c].st = "queued", !.cmd[c].obj = o]

(* nodeClient, and the command that asked for it. *)
SendTo(s, c, o) ==
    CASE s.client[o] = "none" ->
            [s EXCEPT !.client[o] = "connecting", !.cmd[c].st = "wait", !.cmd[c].obj = o]
      [] s.client[o] = "connecting" -> [s EXCEPT !.cmd[c].st = "wait", !.cmd[c].obj = o]
      [] s.client[o] \in {"ready", "down"} -> Enqueue(s, c, o)
      [] OTHER -> [s EXCEPT !.cmd[c].st = "failed"]

(* getClientAndSlotNumber *)
Route(s, c) ==
    LET o == s.slots[SlotOf[c]]
    IN  IF ~s.ready \/ o = None THEN [s EXCEPT !.cmd[c].st = "failed"]
        ELSE SendTo([s EXCEPT !.cmd[c].asking = FALSE], c, o)

-----------------------------------------------------------------------------
(* Applying an answer of CLUSTER SLOTS. *)

(* Discoveries whose clients are all connected. *)
SettleDone(s) ==
    LET done == {d \in DOMAIN s.disc : s.disc[d].st = "connecting" /\ s.disc[d].awaits = {}}
    IN  FoldSet(LAMBDA d, t : Settled(t, d, TRUE), s, done)

Seat(s, used) ==
    LET new == {NewObject(s, n) : n \in {m \in used : s.seated[m] = None}}
    IN  [s EXCEPT !.seated = [n \in Node |->
                        IF n \in used /\ @[n] = None THEN NewObject(s, n) ELSE @[n]],
                  !.client = [o \in Object |-> IF o \in new THEN "connecting" ELSE @[o]]]

Remap(s, d) ==
    [s EXCEPT !.slots = [x \in Slot |-> s.seated[s.disc[d].answer[x]]]]

Unused(s, d) == {n \in Node : s.seated[n] # None /\ n \notin Range(s.disc[d].answer)}

(* #discover once the shards are there. *)
Apply(s, d) ==
    LET used == Range(s.disc[d].answer)
        seated == Seat(s, used)
        mapped == [Remap(seated, d) EXCEPT
                    !.masters = {seated.seated[n] : n \in used},
                    !.disc[d].st = "connecting",
                    !.disc[d].awaits = {seated.seated[n] : n \in {m \in used : s.seated[m] = None}}]
        dropped == LoseClients(mapped, {s.seated[n] : n \in Unused(s, d)}, "none")
    IN  SettleDone([dropped EXCEPT
            !.seated = [n \in Node |-> IF n \in Unused(s, d) THEN None ELSE @[n]]])

-----------------------------------------------------------------------------
(* #handleSmigrated *)

InSlots(s, o, moving) == SelectSeq(s.queue[o], LAMBDA c : SlotOf[c] \in moving)

(* Mutant: commands are copied, not moved. *)
AllOf(s, o, moving) == s.queue[o]

NotInSlots(s, o, moving) == SelectSeq(s.queue[o], LAMBDA c : SlotOf[c] \notin moving)

(* Mutant: relocated commands go behind what was queued meanwhile. *)
AppendCommands(s, cs, o) ==
    [s EXCEPT !.queue[o] = @ \o cs,
              !.cmd = [c \in Command |-> IF c \in Range(cs) THEN [@[c] EXCEPT !.obj = o] ELSE @[c]]]

PrependCommands(s, cs, o) ==
    [s EXCEPT !.queue[o] = cs \o @,
              !.cmd = [c \in Command |-> IF c \in Range(cs) THEN [@[c] EXCEPT !.obj = o] ELSE @[c]]]

RejectCommands(s, cs) ==
    [s EXCEPT !.cmd = [c \in Command |-> IF c \in Range(cs) THEN [@[c] EXCEPT !.st = "failed"] ELSE @[c]]]

HasClient(s, o) == s.client[o] \notin {"blank", "none"}

Place(s, cs, o) == IF HasClient(s, o) THEN PrependCommands(s, cs, o) ELSE RejectCommands(s, cs)

(* Steps 3 to 5: the map and the queued commands move at once. *)
Move(s, k) ==
    LET src == s.mig[k].src
        dst == s.mig[k].dst
        moving == s.mig[k].slots
        cs == InSlots(s, src, moving)
    IN  Place([s EXCEPT !.slots = [x \in Slot |-> IF x \in moving THEN dst ELSE @[x]],
                        !.queue[src] = NotInSlots(s, src, moving),
                        !.paused = @ \ {dst},
                        !.mig[k].st = "draining"], cs, dst)

(* The queued commands of a source that lost its last slot. *)
MoveRemaining(s, k) ==
    LET src == s.mig[k].src
        owner(c) == s.slots[SlotOf[c]]
        dsts == {owner(c) : c \in Range(s.queue[src])}
        toDst(t, o) == [Place(t, SelectSeq(s.queue[src], LAMBDA c : owner(c) = o), o)
                            EXCEPT !.paused = @ \ {o}]
    IN  FoldSet(LAMBDA o, t : toDst(t, o), [s EXCEPT !.queue[src] = <<>>], dsts)

(* Step 7. *)
CleanUp(s, k) ==
    LET src == s.mig[k].src
        idle == [s EXCEPT !.mig[k].st = "idle"]
    IN  IF ~HasClient(s, src) \/ \E x \in Slot : s.slots[x] = None THEN Abandon(s, k)
        ELSE IF \E x \in Slot : Address(s.slots[x]) = Address(src)
        THEN [idle EXCEPT !.paused = @ \ {src}]
        ELSE LET t == MoveRemaining(idle, k)
             IN  LoseClients([t EXCEPT !.masters = {o \in @ : Address(o) # Address(src)},
                                      !.seated[Address(src)] = None], {src}, "gone")

-----------------------------------------------------------------------------
(* Commands. *)

Issue(c) ==
    /\ cl.cmd[c].st = "idle"
    /\ \A b \in Command : b < c => cl.cmd[b].st # "idle"
    /\ cl.everReady
    /\ Spend("command")
    /\ cl' = Route(cl, c)
    /\ UNCHANGED world

(* After the rediscovery a MOVED error asked for. *)
Reroute(c) ==
    /\ cl.cmd[c].st = "route"
    /\ cl' = Route(cl, c)
    /\ UNCHANGED <<world, left>>

(* After the rediscovery an ASK error asked for. *)
FollowAsk(c) ==
    LET o == cl.seated[cl.cmd[c].to]
    IN  /\ cl.cmd[c].st = "ask"
        /\ cl' = IF o = None THEN [cl EXCEPT !.cmd[c].st = "failed"]
                 ELSE SendTo([cl EXCEPT !.cmd[c].asking = TRUE], c, o)
        /\ UNCHANGED <<world, left>>

Write(o) ==
    LET c == Head(cl.queue[o])
    IN  /\ cl.client[o] = "ready" /\ o \notin cl.paused /\ cl.queue[o] # <<>>
        /\ cl' = [cl EXCEPT !.queue[o] = Tail(@), !.cmd[c].st = "sent",
                            !.flight[o] = Append(@, c), !.pipe[o] = Append(@, c)]
        /\ UNCHANGED <<world, left>>

(* The node answers the oldest request on the connection, and the client   *)
(* gives the answer to the oldest command that waits for one, if any does. *)
Answers(o) == cl.client[o] = "ready" /\ cl.pipe[o] # <<>> /\ Address(o) \in world.up

Received(o) ==
    [cl EXCEPT !.pipe[o] = Tail(@),
               !.flight[o] = IF @ = <<>> THEN @ ELSE Tail(@)]

Asker(o) == Head(cl.pipe[o])

Executes(o) ==
    LET c == Asker(o)
    IN  world.owner[SlotOf[c]] = Address(o) \/ (cl.cmd[c].asking /\ world.ask[SlotOf[c]] = Address(o))

Reply(o) ==
    /\ Answers(o)
    /\ Executes(o)
    /\ cl' = IF cl.flight[o] = <<>> THEN Received(o)
             ELSE LET c == Head(cl.flight[o])
                  IN  [Received(o) EXCEPT !.cmd[c].st = "done", !.cmd[c].got = Asker(o)]
    /\ world' = [world EXCEPT !.log = Append(@, Asker(o))]
    /\ UNCHANGED left

(* The catch of _execute: one more redirection, if there is one left. *)
Redirected(s, c) == [s EXCEPT !.cmd[c].tries = @ + 1]

Exhausted(c) == cl.cmd[c].tries + 1 > MaxRedirections

Moved(o) ==
    /\ Answers(o)
    /\ ~Executes(o)
    /\ LET s == Received(o)
           c == Head(cl.flight[o])
       IN  cl' = IF cl.flight[o] = <<>> THEN s
                 ELSE IF Exhausted(c) THEN [s EXCEPT !.cmd[c].st = "failed"]
                 ELSE Rediscover([Redirected(s, c) EXCEPT !.cmd[c].st = "moved"],
                                 "first", {Address(o)}, {})
    /\ UNCHANGED <<world, left>>

Ask(o) ==
    LET to == world.ask[SlotOf[Asker(o)]]
        s == Received(o)
        c == Head(cl.flight[o])
    IN  /\ Answers(o)
        /\ world.owner[SlotOf[Asker(o)]] = Address(o) /\ to # None
        /\ cl' = IF cl.flight[o] = <<>> THEN s
                 ELSE IF Exhausted(c) THEN [s EXCEPT !.cmd[c].st = "failed"]
                 ELSE IF cl.seated[to] # None
                 THEN SendTo([Redirected(s, c) EXCEPT !.cmd[c].asking = TRUE], c, cl.seated[to])
                 ELSE Rediscover([Redirected(s, c) EXCEPT !.cmd[c].st = "asked", !.cmd[c].to = to],
                                 "first", {Address(o)}, {})
        /\ UNCHANGED <<world, left>>

-----------------------------------------------------------------------------
(* Discovery. *)

Connect(d) ==
    /\ ~cl.open
    /\ cl.disc[d].st = "idle"
    /\ d = "boot2" => cl.disc["boot1"].st # "idle"
    /\ Spend("connect")
    /\ cl' = [cl EXCEPT !.open = TRUE, !.ready = FALSE, !.destroyed = FALSE,
                        !.disc[d] = [NoDiscovery EXCEPT !.st = "trying", !.todo = Root]]
    /\ UNCHANGED world

(* What is tried next: the node that redirected, the nodes that are known, *)
(* the root nodes.                                                         *)
NextPhase(s, d) ==
    CASE s.disc[d].phase = "first" ->
            [s EXCEPT !.disc[d].phase = "known",
                      !.disc[d].todo = {Address(o) : o \in s.masters} \ s.disc[d].without]
      [] s.disc[d].phase = "known" ->
            [s EXCEPT !.disc[d].phase = "roots", !.disc[d].todo = Root]
      [] s.disc[d].phase = "roots" -> Settled(s, d, FALSE)

(* Mutant: the map is reset before the shards are fetched. *)
GetShardsAnew(s, d, n) ==
    [s EXCEPT !.disc[d].todo = @ \ {n},
              !.disc[d].st = IF n \in world.up THEN "fetched" ELSE @,
              !.disc[d].answer = world.owner,
              !.slots = [x \in Slot |-> None]]

(* A node that is up answers; the answer takes a while to arrive. *)
GetShards(s, d, n) ==
    [s EXCEPT !.disc[d].todo = @ \ {n},
              !.disc[d].st = IF n \in world.up THEN "fetched" ELSE @,
              !.disc[d].answer = world.owner]

Fetch(d) ==
    /\ cl.disc[d].st = "trying"
    /\ \/ /\ ~cl.open
          /\ cl' = Settled(cl, d, FALSE)
       \/ /\ cl.open /\ cl.disc[d].todo = {}
          /\ cl' = NextPhase(cl, d)
       \/ /\ cl.open
          /\ \E n \in cl.disc[d].todo : cl' = GetShards(cl, d, n)
    /\ UNCHANGED <<world, left>>

(* Mutant: an answer is applied whether the client is open or not. *)
NeverStale(s) == FALSE

(* destroy() ran while the shards were in flight. *)
Stale(s) == ~s.open

Discover(d) ==
    /\ cl.disc[d].st = "fetched"
    /\ \A n \in Range(cl.disc[d].answer) : cl.seated[n] # None \/ Fresh(cl, n) # {}
    /\ cl' = IF Stale(cl) THEN [cl EXCEPT !.disc[d].st = "trying"] ELSE Apply(cl, d)
    /\ UNCHANGED <<world, left>>

(* onNodeReconnectionAttempt: a client has been reconnecting for a while. *)
TopologyRefresh ==
    LET down == {o \in cl.masters : cl.client[o] = "down" /\ Address(o) \notin world.up}
    IN  /\ cl.open
        /\ Spend("refresh")
        /\ down # {} /\ cl.disc["refresh"].st = "idle"
        /\ cl' = Rediscover(cl, "known",
                    {Address(o) : o \in cl.masters \ down}, {Address(o) : o \in down})
        /\ UNCHANGED world

-----------------------------------------------------------------------------
(* Connections. *)

Waiting(s, o) == SetToSortSeq({c \in Command : s.cmd[c].st = "wait" /\ s.cmd[c].obj = o}, <)

ConnectsOk(s, o) ==
    LET t == FoldLeft(LAMBDA u, c : Enqueue(u, c, o), [s EXCEPT !.client[o] = "ready"], Waiting(s, o))
    IN  SettleDone([t EXCEPT !.disc = [d \in DOMAIN @ |-> [@[d] EXCEPT !.awaits = @ \ {o}]]])

NodeConnects(o) ==
    /\ cl.client[o] = "connecting" /\ Address(o) \in world.up
    /\ cl' = ConnectsOk(cl, o)
    /\ UNCHANGED <<world, left>>

(* The reconnect strategy of a client that never connected gives up, if it *)
(* is one that does: the default one never does.                           *)
NodeFails(o) ==
    /\ cl.client[o] = "connecting" /\ Address(o) \notin world.up
    /\ cl' = LoseClients(cl, {o}, "none")
    /\ UNCHANGED <<world, left>>

NodeReconnects(o) ==
    /\ cl.client[o] = "down" /\ Address(o) \in world.up
    /\ cl' = [cl EXCEPT !.client[o] = "ready"]
    /\ UNCHANGED <<world, left>>

-----------------------------------------------------------------------------
(* SMIGRATED. *)

Smigrated(e) ==
    LET k == e.id
        src == cl.seated[e.from]
        dst == cl.seated[e.to]
        paused == [cl EXCEPT !.paused = @ \cup {src}]
        begun(o) == [paused EXCEPT !.mig[k] = [st |-> "connecting", src |-> src, dst |-> o, slots |-> e.slots]]
        new == NewObject(cl, e.to)
    IN  /\ e \in world.news
        /\ dst = None => Fresh(cl, e.to) # {}
        /\ world' = [world EXCEPT !.news = @ \ {e}]
        /\ cl' = IF src = None THEN cl
                 ELSE IF ~HasClient(cl, src) THEN cl
                 ELSE IF dst = None
                 THEN [begun(new) EXCEPT !.seated[e.to] = new, !.client[new] = "connecting",
                                         !.masters = @ \cup {new}]
                 ELSE IF \A x \in Slot : cl.slots[x] # None /\ Address(cl.slots[x]) # e.to
                 THEN cl
                 ELSE Move(begun(dst), k)
        /\ UNCHANGED left

(* The destination's connection is there. *)
Migrate(k) ==
    /\ cl.mig[k].st = "connecting"
    /\ cl.client[cl.mig[k].dst] # "connecting"
    /\ cl' = Move(cl, k)
    /\ UNCHANGED <<world, left>>

Migrated(k) ==
    /\ cl.mig[k].st = "draining"
    /\ cl.flight[cl.mig[k].src] = <<>>
    /\ cl' = CleanUp(cl, k)
    /\ UNCHANGED <<world, left>>

(* The replies did not come in time: the commands that wait for them are   *)
(* rejected and forgotten, their replies are still to come.                *)
MigrationTimesOut(k) ==
    LET src == cl.mig[k].src
    IN  /\ cl.mig[k].st = "draining"
        /\ cl.flight[src] # <<>>
        /\ Spend("timeout")
        /\ cl' = CleanUp([RejectCommands(cl, cl.flight[src]) EXCEPT !.flight[src] = <<>>], k)
        /\ UNCHANGED world

-----------------------------------------------------------------------------
(* destroy(): the clients of the masters that are known. *)

Destroy ==
    /\ Spend("destroy")
    /\ LET s == [cl EXCEPT !.open = FALSE, !.ready = FALSE]
           t == LoseClients(s, {o \in s.masters : HasClient(s, o)}, "gone")
       IN  cl' = [t EXCEPT !.slots = [x \in Slot |-> None],
                           !.masters = {},
                           !.seated = [n \in Node |-> None],
                           !.destroyed = TRUE]
    /\ UNCHANGED world

-----------------------------------------------------------------------------
(* The cluster. *)

Owning(n) == {x \in Slot : world.owner[x] = n}

(* A slot changes hands without notice, or begins to. *)
Reshard(x, n) ==
    /\ cl.everReady
    /\ Spend("reshard")
    /\ n # world.owner[x] /\ n \in world.up
    /\ world' = [world EXCEPT !.owner[x] = n, !.ask[x] = None]
    /\ UNCHANGED cl

BeginImport(x, n) ==
    /\ cl.everReady
    /\ Spend("import")
    /\ n # world.owner[x] /\ n \in world.up /\ world.ask[x] = None
    /\ world' = [world EXCEPT !.ask[x] = n]
    /\ UNCHANGED cl

(* A live node hands slots to another, and the clients are told. *)
Announce(n, m, xs) ==
    /\ cl.everReady
    /\ Spend("migrate")
    /\ xs # {} /\ xs \subseteq Owning(n) /\ m # n /\ {n, m} \subseteq world.up
    /\ world' = [world EXCEPT
            !.owner = [x \in Slot |-> IF x \in xs THEN m ELSE @[x]],
            !.news = @ \cup {[id |-> left["migrate"], from |-> n, to |-> m, slots |-> xs]}]
    /\ UNCHANGED cl

(* A node goes down; another takes over its slots, now or never. *)
NodeDown(n, m) ==
    LET hit == {o \in Object : Address(o) = n /\ cl.client[o] = "ready"}
    IN  /\ cl.everReady
        /\ Spend("down")
        /\ n \in world.up /\ m \in world.up
        /\ world' = [world EXCEPT
                !.up = @ \ {n},
                !.owner = [x \in Slot |-> IF @[x] = n /\ m # n THEN m ELSE @[x]],
                !.ask = [x \in Slot |-> IF @[x] = n THEN None ELSE @[x]]]
        /\ cl' = [cl EXCEPT
                !.client = [o \in Object |-> IF o \in hit THEN "down" ELSE @[o]],
                !.flight = [o \in Object |-> IF o \in hit THEN <<>> ELSE @[o]],
                !.pipe = [o \in Object |-> IF o \in hit THEN <<>> ELSE @[o]],
                !.cmd = [c \in Command |-> IF @[c].obj \in hit /\ @[c].st = "sent"
                                           THEN [@[c] EXCEPT !.st = "failed"] ELSE @[c]]]

ComesUp(n) ==
    /\ n \notin world.up
    /\ Spend("up")
    /\ world' = [world EXCEPT !.up = @ \cup {n}]
    /\ UNCHANGED cl

-----------------------------------------------------------------------------
Init ==
    /\ \E sc \in Scenario : left = sc
    /\ world = [owner |-> FirstOwner, ask |-> [x \in Slot |-> None], up |-> Node,
                news |-> {}, log |-> <<>>]
    /\ cl = [open |-> FALSE, ready |-> FALSE, everReady |-> FALSE, destroyed |-> FALSE,
             slots |-> [x \in Slot |-> None],
             seated |-> [n \in Node |-> None],
             masters |-> {},
             client |-> [o \in Object |-> "blank"],
             paused |-> {},
             queue |-> [o \in Object |-> <<>>],
             flight |-> [o \in Object |-> <<>>],
             pipe |-> [o \in Object |-> <<>>],
             cmd |-> [c \in Command |-> [st |-> "idle", obj |-> None, tries |-> 0, got |-> None,
                                         asking |-> FALSE, to |-> None]],
             disc |-> [d \in Boot \cup {"refresh"} |-> NoDiscovery],
             mig |-> [k \in 1..2 |-> [st |-> "idle", src |-> None, dst |-> None, slots |-> {}]]]

Progress ==
    \/ \E c \in Command : Reroute(c) \/ FollowAsk(c)
    \/ \E o \in Object : Reply(o) \/ Moved(o) \/ Write(o) \/ NodeConnects(o) \/ NodeReconnects(o)
    \/ \E d \in DOMAIN cl.disc : Fetch(d) \/ Discover(d)
    \/ TopologyRefresh
    \/ \E e \in world.news : Smigrated(e)
    \/ \E k \in DOMAIN cl.mig : Migrate(k) \/ Migrated(k)

Next ==
    \/ Progress
    \/ \E c \in Command : Issue(c)
    \/ \E o \in Object : Ask(o) \/ NodeFails(o)
    \/ \E k \in DOMAIN cl.mig : MigrationTimesOut(k)
    \/ \E d \in Boot : Connect(d)
    \/ Destroy
    \/ \E x \in Slot, n \in Node : Reshard(x, n) \/ BeginImport(x, n)
    \/ \E n, m \in Node, xs \in SUBSET Slot : Announce(n, m, xs)
    \/ \E n, m \in Node : NodeDown(n, m)
    \/ \E n \in Node : ComesUp(n)

Spec == Init /\ [][Next]_vars

(* Nodes that are up accept and reply, and promises settle.  Nothing makes *)
(* a client give up a node that is down.                                   *)
FairSpec == Spec /\ WF_vars(Progress)

-----------------------------------------------------------------------------
(* Properties. *)

(* A ready client can route: no discovery leaves a slot without a master,  *)
(* however discoveries and migrations interleave.                          *)
MapWhole == cl.ready => \A x \in Slot : cl.slots[x] # None

(* No command is stranded or doubled: one that is queued is in one queue,  *)
(* once, and that of a client that exists; one that is not is in none; a   *)
(* client is paused only while a migration that will resume it is under way.*)
Places(c) == {<<o, i>> \in Object \X (1..Len(SlotOf)) :
                i \in DOMAIN cl.queue[o] /\ cl.queue[o][i] = c}

NothingStranded ==
    /\ \A c \in Command :
        IF cl.cmd[c].st = "queued"
        THEN /\ cl.client[cl.cmd[c].obj] \in {"connecting", "ready", "down"}
             /\ \E i \in 1..Len(SlotOf) : Places(c) = {<<cl.cmd[c].obj, i>>}
        ELSE Places(c) = {}
    /\ \A o \in cl.paused : \E k \in DOMAIN cl.mig : cl.mig[k].st # "idle" /\ cl.mig[k].src = o

(* A migration keeps the order of the commands of a slot: wherever they    *)
(* are relocated to they are queued, and unless one was redirected they    *)
(* run, in the order they were issued in.                                  *)
Direct(c) == cl.cmd[c].tries = 0

InOrder(seq, S) == \A i, j \in DOMAIN seq : (i < j /\ {seq[i], seq[j]} \subseteq S) => seq[i] < seq[j]

KeepsOrder ==
    \A x \in Slot :
        LET ofSlot == {c \in Command : SlotOf[c] = x}
        IN  /\ \A o \in Object : InOrder(cl.queue[o], {c \in ofSlot : Direct(c)})
            /\ (\A c \in ofSlot : Direct(c)) => InOrder(world.log, ofSlot)

(* destroy() leaves nothing behind: once what was in flight has ended, no  *)
(* client of a closed cluster is alive.                                    *)
Quiet == /\ \A d \in DOMAIN cl.disc : cl.disc[d].st = "idle"
         /\ \A k \in DOMAIN cl.mig : cl.mig[k].st = "idle"

DestroyLeavesNothing ==
    (cl.destroyed /\ ~cl.open /\ Quiet) =>
        \A o \in Object : cl.client[o] \in {"blank", "none", "gone"}

(* The reply a command settles with is its own: commands share the         *)
(* connection of a node, and a migration may give up waiting for some.     *)
RepliesMatch == \A c \in Command : cl.cmd[c].st = "done" => cl.cmd[c].got = c

(* A client waits for its first connection to a node that is down. *)
Unreachable == \E o \in Object : cl.client[o] = "connecting" /\ Address(o) \notin world.up

Over(c) == cl.cmd[c].st \in {"idle", "done", "failed"} \/ world.owner[SlotOf[c]] \notin world.up

(* The commands that were issued come to an end, however the cluster       *)
(* changes under them, unless the node that owns their slot stays down and *)
(* nobody takes over, or a client waits for ever for its first connection  *)
(* to a node that is down.                                                 *)
CommandsSettle == ([]<>~Unreachable) => <>[](\A c \in Command : Over(c))

(* Those whose owner is up do, whatever else is down. *)
OwnedCommandsSettle == <>[](\A c \in Command : Over(c))

=============================================================================
