-------------------------------- MODULE Cache --------------------------------
(***************************************************************************)
(* Client-side caching (client/cache.ts, and its use in client/index.ts):  *)
(* the cache one client owns or several clients of a pool share, the reads *)
(* that fill it, and the server that tracks what a connection has read and *)
(* pushes invalidations down the same connection as the replies.           *)
(*                                                                         *)
(* A value is abstracted to whether the server has written one of its keys *)
(* since it was read.  A chunk of a socket is decoded synchronously, and   *)
(* the reads it answers go on only afterwards (their promises resolve):    *)
(* this is the state "replied" of a read.                                  *)
(***************************************************************************)
EXTENDS Integers, Sequences, FiniteSets, Filters

CONSTANTS
    Client,
    Key,
    Command,        \* cacheable reads, one for each cache key
    KeysOf,         \* KeysOf[cmd]: the keys the read depends on
    Scenario,       \* the cache's settings, and how often each event happens
    None

ASSUME CacheAssumption ==
    KeysOf \in [Command -> (SUBSET Key) \ {{}}]

VARIABLES
    conf,       \* the provider, its tracking mode and maxEntries (0: no limit)
    map,        \* #cacheKeyToEntryMap, in insertion order: a sequence of entries
    index,      \* #keyToCacheKeySetMap
    load,       \* the reads, in the order they were called
    cl,         \* the clients' connections
    srv,        \* the keys the server tracks for each client
    left        \* what is left of the scenario's events

vars == <<conf, map, index, load, cl, srv, left>>

Spend(event) ==
    /\ event \in DOMAIN left
    /\ left[event] > 0
    /\ left' = [left EXCEPT ![event] = @ - 1]

-----------------------------------------------------------------------------
(* The cache: s is a record of map, index and load. *)

Cache == [map |-> map, index |-> index, load |-> load]

Becomes(s) == map' = s.map /\ index' = s.index /\ load' = s.load

Entries(s) == {s.map[i] : i \in DOMAIN s.map}
Cached(s) == {e.cmd : e \in Entries(s)}
EntryOf(s, cmd) == CHOOSE e \in Entries(s) : e.cmd = cmd

(* PooledNoRedirectClientSideCache: an entry is its connection's. *)
OfItsConnection(e) ==
    \/ conf.provider # "noredirect"
    \/ cl[e.by].up /\ cl[e.by].epoch = e.epoch

(* validate(): the promise entry is an object its read keeps. *)
Valid(s, e) ==
    /\ ~(IF e.value THEN e.bad ELSE s.load[e.load].bad)
    /\ OfItsConnection(e)

(* entry.invalidate() *)
Invalidated(s, cmds) ==
    [s EXCEPT !.load = [n \in DOMAIN @ |->
        IF \E e \in Entries(s) : e.cmd \in cmds /\ ~e.value /\ e.load = n
        THEN [@[n] EXCEPT !.bad = TRUE] ELSE @[n]]]

Removed(s, cmds) ==
    [s EXCEPT !.map = Filter(@, {e \in Entries(s) : e.cmd \notin cmds}),
              !.index = [k \in Key |-> @[k] \ cmds]]

(* delete *)
Delete(s, cmds) == Removed(Invalidated(s, cmds), cmds)

(* get drops an entry that is no longer valid. *)
Get(s, cmd) ==
    IF cmd \in Cached(s) /\ ~Valid(s, EntryOf(s, cmd)) THEN Delete(s, {cmd}) ELSE s

(* lru: get moves the entry to the end. *)
Touched(s, cmd) ==
    [s EXCEPT !.map = Append(Filter(@, {e \in Entries(s) : e.cmd # cmd}), EntryOf(s, cmd))]

(* set: overwrites in place (a Map keeps the position of its keys) and     *)
(* makes room by dropping the oldest entry.                                *)
Set(s, e) ==
    LET old == e.cmd \in Cached(s)
        t == IF old THEN [Invalidated(s, {e.cmd}) EXCEPT !.index = [k \in Key |-> @[k] \ {e.cmd}]] ELSE s
        full == conf.max > 0 /\ Len(t.map) - (IF old THEN 1 ELSE 0) >= conf.max
        u == IF full THEN Delete(t, {Head(t.map).cmd}) ELSE t
    IN  [u EXCEPT
            !.map = IF e.cmd \in Cached(u)
                    THEN [i \in DOMAIN @ |-> IF @[i].cmd = e.cmd THEN e ELSE @[i]]
                    ELSE Append(@, e),
            !.index = [k \in Key |-> IF k \in KeysOf[e.cmd] THEN @[k] \cup {e.cmd} ELSE @[k]]]

(* clear: unlike delete it does not mark the entries, so a read in flight  *)
(* takes its own for valid (recorded as cleared).                          *)
Clear(s) ==
    [s EXCEPT !.map = <<>>,
              !.index = [k \in Key |-> {}],
              !.load = [n \in DOMAIN @ |->
                  IF \E e \in Entries(s) : ~e.value /\ e.load = n
                  THEN [@[n] EXCEPT !.cleared = TRUE] ELSE @[n]]]

(* Mutant: the entries are dropped, but not marked. *)
InvalidateUnmarked(s, k) == IF k = None THEN Clear(s) ELSE Removed(s, s.index[k])

(* invalidate *)
Invalidate(s, k) == IF k = None THEN Clear(s) ELSE Delete(s, s.index[k])

(* onError and onClose of the provider. *)
Emptied(s) == IF conf.provider = "noredirect" THEN s ELSE Clear(s)

-----------------------------------------------------------------------------
(* A read: handleCache.  Microtasks run before the next event of the loop, *)
(* so everything but the rest of a chunk and calls waits for Settling.     *)

Settled(n) == load[n].st \in {"done", "threw"}

Settling ==
    {n \in DOMAIN load : \/ load[n].st \in {"replied", "failed"}
                         \/ load[n].st = "joined" /\ Settled(load[n].leader)}

Quiet == Settling = {}

NewLoad(c, cmd) ==
    [cmd |-> cmd, by |-> c, epoch |-> cl[c].epoch, st |-> "queued", leader |-> Len(load) + 1,
     bad |-> FALSE, cleared |-> FALSE, fresh |-> TRUE, storable |-> TRUE]

NewEntry(n, l, value) ==
    [cmd |-> l.cmd, load |-> n, value |-> value, bad |-> FALSE, by |-> l.by,
     epoch |-> IF value THEN cl[l.by].epoch ELSE l.epoch]

(* 2b1: served from the cache; 2b2: waits for the read in flight. *)
Hit(s, cmd) == Becomes(Touched(s, cmd))

Join(c, s, cmd) ==
    Becomes([Touched(s, cmd) EXCEPT !.load =
        Append(@, [NewLoad(c, cmd) EXCEPT !.st = "joined", !.leader = EntryOf(s, cmd).load])])

(* 3a *)
Miss(c, s, cmd) ==
    LET t == [s EXCEPT !.load = Append(@, NewLoad(c, cmd))]
    IN  Becomes(Set(t, NewEntry(Len(t.load), NewLoad(c, cmd), FALSE)))

Read(c, cmd) ==
    LET s == Get(Cache, cmd)
        found == cmd \in Cached(s)
    IN  /\ ~cl[c].closed
        /\ Spend("read")
        /\ \/ found /\ EntryOf(s, cmd).value /\ Hit(s, cmd)
           \/ found /\ ~EntryOf(s, cmd).value /\ Join(c, s, cmd)
           \/ ~found /\ Miss(c, s, cmd)
        /\ UNCHANGED <<conf, cl, srv>>

(* The entry a read of leader n may still overwrite. *)
StillValid(n) ==
    /\ ~load[n].bad
    /\ OfItsConnection([by |-> load[n].by, epoch |-> load[n].epoch])

(* 3c: the entry is validated again, and tracking must be confirmed. *)
Stores(n) == load[n].storable /\ StillValid(n)

Finish(s, n, st) == [s EXCEPT !.load[n].st = st]

Resume(n) ==
    /\ load[n].st = "replied"
    /\ LET s == Finish(Cache, n, "done")
       IN  Becomes(IF Stores(n) THEN Set(s, NewEntry(n, load[n], TRUE))
                   ELSE IF ~load[n].storable /\ StillValid(n) THEN Delete(s, {load[n].cmd})
                   ELSE s)
    /\ UNCHANGED <<conf, cl, srv, left>>

(* Mutant: a read that fails leaves its entry. *)
FailedKept(s, n) == s

(* The catch of a read that failed. *)
Failed(s, n) == IF StillValid(n) THEN Delete(s, {load[n].cmd}) ELSE s

ResumeFailed(n) ==
    /\ load[n].st = "failed"
    /\ Becomes(Failed(Finish(Cache, n, "threw"), n))
    /\ UNCHANGED <<conf, cl, srv, left>>

(* A read that waited for another resumes after it and validates the same  *)
(* entry, which the first one normally replaced or deleted.                *)
ResumeJoined(n) ==
    /\ load[n].st = "joined"
    /\ Settled(load[n].leader)
    /\ LET m == load[n].leader
           s == Finish(Cache, n, load[m].st)
       IN  Becomes(IF load[m].st = "done" /\ StillValid(m)
                   THEN Set(s, NewEntry(m, [load[m] EXCEPT !.by = load[n].by], TRUE))
                   ELSE s)
    /\ UNCHANGED <<conf, cl, srv, left>>

-----------------------------------------------------------------------------
(* The clients' connections. *)

Fail(s, ns) ==
    [s EXCEPT !.load = [n \in DOMAIN @ |->
        IF n \in ns THEN [@[n] EXCEPT !.st = "failed"] ELSE @[n]]]

(* The next message of the chunk: a reply, or an invalidation pushed.      *)
Receive(c) ==
    LET m == Head(cl[c].wire)
    IN  /\ cl[c].wire # <<>>
        /\ \A n \in Settling : load[n].by = c /\ load[n].st = "replied"
        /\ cl' = [cl EXCEPT ![c].wire = Tail(@)]
        /\ \/ /\ m.reply
              /\ load' = [load EXCEPT ![m.load].st = "replied", ![m.load].storable = m.ok]
              /\ UNCHANGED <<map, index>>
           \/ ~m.reply /\ Becomes(Invalidate(Cache, m.key))
        /\ UNCHANGED <<conf, srv, left>>

(* The socket fails: what was written is rejected (of what is queued, any  *)
(* part may have been), and the provider hears onError.                    *)
Drop(c) ==
    /\ Quiet
    /\ cl[c].up
    /\ Spend("drop")
    /\ \E lost \in SUBSET {n \in DOMAIN load : load[n].by = c /\ load[n].st = "queued"} :
        Becomes(Fail(Emptied(Cache),
            lost \cup {n \in DOMAIN load : load[n].by = c /\ load[n].st = "sent"}))
    /\ cl' = [cl EXCEPT ![c].up = FALSE, ![c].wire = <<>>]
    /\ srv' = [srv EXCEPT ![c] = {}]
    /\ UNCHANGED conf

Reconnect(c) ==
    /\ Quiet
    /\ ~cl[c].up /\ ~cl[c].closed
    /\ cl' = [cl EXCEPT ![c].up = TRUE, ![c].epoch = @ + 1]
    /\ UNCHANGED <<conf, map, index, load, srv, left>>

(* destroy(): everything of this client is rejected; onClose. *)
Destroy(c) ==
    /\ Quiet
    /\ ~cl[c].closed
    /\ Spend("destroy")
    /\ Becomes(Emptied(Fail(Cache,
          {n \in DOMAIN load : load[n].by = c /\ load[n].st \in {"queued", "sent"}})))
    /\ cl' = [cl EXCEPT ![c].up = FALSE, ![c].closed = TRUE, ![c].wire = <<>>]
    /\ srv' = [srv EXCEPT ![c] = {}]
    /\ UNCHANGED conf

(* MOVING: with nothing in flight the client goes on with the socket of a  *)
(* duplicate, in its first epoch.  The duplicate's destroy() calls onClose *)
(* on the provider the two share, or, when the options only configure the  *)
(* cache, on the duplicate's own.                                          *)
Handoff(c) ==
    /\ Quiet
    /\ ~cl[c].closed
    /\ \A n \in DOMAIN load : load[n].by = c => load[n].st # "sent"
    /\ Spend("handoff")
    /\ Becomes(IF conf.provider = "own" THEN Cache ELSE Emptied(Cache))
    /\ cl' = [cl EXCEPT ![c].up = TRUE, ![c].epoch = 1, ![c].wire = <<>>]
    /\ srv' = [srv EXCEPT ![c] = {}]
    /\ UNCHANGED conf

(* A read that is still queued is aborted, or its timeout runs out. *)
Abort(n) ==
    /\ load[n].st = "queued"
    /\ Spend("abort")
    /\ Becomes(Fail(Cache, {n}))
    /\ UNCHANGED <<conf, cl, srv>>

(* The time to live of the entry at position i runs out. *)
Expire(i) ==
    /\ Spend("expire")
    /\ IF map[i].value
       THEN map' = [map EXCEPT ![i].bad = TRUE] /\ UNCHANGED load
       ELSE load' = [load EXCEPT ![map[i].load].bad = TRUE] /\ UNCHANGED map
    /\ UNCHANGED <<conf, index, cl, srv>>

-----------------------------------------------------------------------------
(* The server. *)

Reply(n, ok) == [reply |-> TRUE, load |-> n, key |-> None, ok |-> ok]
Push(k) == [reply |-> FALSE, load |-> 0, key |-> k, ok |-> TRUE]

(* A read is executed and its keys tracked.  With OPTIN the CLIENT CACHING *)
(* before it may fail, and then they are not.                              *)
Execute(n) ==
    LET c == load[n].by
    IN  /\ load[n].st = "queued"
        /\ cl[c].up
        /\ \E ok \in IF conf.mode = "optin" THEN BOOLEAN ELSE {TRUE} :
            /\ srv' = IF ok THEN [srv EXCEPT ![c] = @ \cup KeysOf[load[n].cmd]] ELSE srv
            /\ cl' = [cl EXCEPT ![c].wire = Append(@, Reply(n, ok))]
        /\ load' = [load EXCEPT ![n].st = "sent"]
        /\ UNCHANGED <<conf, map, index, left>>

Staled(ks) ==
    [n \in DOMAIN load |->
        IF load[n].st # "queued" /\ KeysOf[load[n].cmd] \cap ks # {}
        THEN [load[n] EXCEPT !.fresh = FALSE] ELSE load[n]]

(* Somebody writes a key. *)
Write(k) ==
    /\ Spend("write")
    /\ load' = Staled({k})
    /\ cl' = [c \in Client |-> IF k \in srv[c] THEN [cl[c] EXCEPT !.wire = Append(@, Push(k))]
                               ELSE cl[c]]
    /\ srv' = [c \in Client |-> srv[c] \ {k}]
    /\ UNCHANGED <<conf, map, index>>

(* FLUSHALL is pushed as a null to every connection that tracks. *)
FlushAll ==
    /\ Spend("flushall")
    /\ load' = Staled(Key)
    /\ cl' = [c \in Client |-> IF cl[c].up THEN [cl[c] EXCEPT !.wire = Append(@, Push(None))]
                               ELSE cl[c]]
    /\ srv' = [c \in Client |-> {}]
    /\ UNCHANGED <<conf, map, index>>

-----------------------------------------------------------------------------
Init ==
    /\ \E s \in Scenario : conf = s.conf /\ left = s.events
    /\ map = <<>>
    /\ index = [k \in Key |-> {}]
    /\ load = <<>>
    /\ \E c \in Client :           \* a basic cache is one client's
        cl = [d \in Client |->
                 LET shared == conf.provider \in {"pooled", "noredirect"} \/ d = c
                 IN  [up |-> shared, closed |-> ~shared, epoch |-> 1, wire |-> <<>>]]
    /\ srv = [c \in Client |-> {}]

Next ==
    \/ \E c \in Client : \/ \E cmd \in Command : Read(c, cmd)
                         \/ Receive(c) \/ Drop(c) \/ Reconnect(c) \/ Destroy(c) \/ Handoff(c)
    \/ \E n \in DOMAIN load : Resume(n) \/ ResumeFailed(n) \/ ResumeJoined(n) \/ Execute(n) \/ Abort(n)
    \/ \E i \in DOMAIN map : Expire(i)
    \/ \E k \in Key : Write(k)
    \/ FlushAll

Spec == Init /\ [][Next]_vars

-----------------------------------------------------------------------------
(* Properties. *)

Told(e) ==
    \E i \in DOMAIN cl[load[e.load].by].wire :
        LET m == cl[load[e.load].by].wire[i] IN ~m.reply /\ (m.key = None \/ m.key \in KeysOf[e.cmd])

(* A value get() would serve is the server's, or the invalidation that     *)
(* removes it is on its way: nothing stale stays in the cache.  Reads that *)
(* were in flight when the cache was cleared are left out: see             *)
(* CoherentAfterClear.                                                     *)
Coherent ==
    \A i \in DOMAIN map :
        LET e == map[i]
        IN  e.value /\ Valid(Cache, e) /\ ~load[e.load].cleared => load[e.load].fresh \/ Told(e)

(* The same for every value, as the comment in handleCache has it: a reply *)
(* is saved only while its entry is "in cache and hasn't been deleted".    *)
CoherentAfterClear ==
    \A i \in DOMAIN map :
        LET e == map[i]
        IN  e.value /\ Valid(Cache, e) => load[e.load].fresh \/ Told(e)

(* A promise that get() hands out is one of a read still under way: no     *)
(* caller joins a read that has already failed, or been answered.          *)
JoinsLiveRead ==
    \A i \in DOMAIN map :
        ~map[i].value /\ Valid(Cache, map[i]) => ~Settled(map[i].load)

==============================================================================
