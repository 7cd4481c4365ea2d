------------------------------ MODULE PoolProofs ------------------------------
(***************************************************************************)
(* A pool lends a client to one task at a time, keeps track of every       *)
(* client that has a connection, and never has more than maximum of them,  *)
(* however tasks, reconnections, close() and destroy() interleave.         *)
(***************************************************************************)
EXTENDS Pool, FilterTheorems, FiniteSetTheorems, TLAPS

Reason == [why : Task \cup {"connect", "replacement"}, count : Nat]
Closing == [pc : {"none", "starting", "draining", "drained", "closing"},
            count : Nat, awaits : SUBSET Member]

(* The types of the variables the argument is about. *)
PoolType ==
    /\ isOpen \in BOOLEAN
    /\ idle \in Seq(Member)
    /\ inUse \in SUBSET Member
    /\ tasks \in Seq(Task)
    /\ destroyed \in SUBSET Member
    /\ destroyCount \in Nat
    /\ closePromise \in Closer \cup {None}
    /\ creator \in [Member -> Reason \cup {None}]
    /\ closer \in [Closer -> Closing]
    /\ where \in [Task -> Member \cup {None}]
    /\ outcome \in [Task -> {"unused", "pending", "settled"}]
    /\ client \in [Member -> {"closed", "connecting", "ready", "down", "terminated", "closing"}]

Distinct(s) == \A i, j \in DOMAIN s : s[i] = s[j] => i = j

(* #idleClients, #clientsInUse and #destroyed hold different clients, and  *)
(* the first holds none twice.                                             *)
ListsApart ==
    /\ Distinct(idle)
    /\ Items(idle) \cap inUse = {}
    /\ destroyed \cap (inUse \cup Items(idle)) = {}

(* A task that waits does so once, and runs nowhere. *)
WaitingOnce ==
    /\ Distinct(tasks)
    /\ \A t \in Items(tasks) : where[t] = None
    /\ \A t \in Task : outcome[t] = "unused" => t \notin Items(tasks) /\ where[t] = None

(* A client that a task runs on, or that is being created, is in use or    *)
(* was destroyed meanwhile, and it is only one of the two, for one task.   *)
OneOwner ==
    /\ \A t \in Task : where[t] # None =>
         /\ where[t] \in inUse \cup destroyed
         /\ creator[where[t]] = None
         /\ \A u \in Task : where[u] = where[t] => u = t
    /\ \A m \in Member : creator[m] # None =>
         /\ m \in inUse \cup destroyed
         /\ m \in inUse => client[m] = "connecting"

(* A close() that no destroy() has overtaken is the only one; once it has  *)
(* drained the pool nothing comes into use again, and what it left idle is *)
(* closed or being closed.                                                 *)
CloserAlone ==
    /\ closePromise # None => isOpen
    /\ \A k \in Closer :
         /\ closer[k].count <= destroyCount
         /\ closer[k].pc # "closing" => closer[k].awaits = {}
         /\ closer[k].pc # "none" /\ closer[k].count = destroyCount =>
              /\ closePromise = k
              /\ closer[k].pc \in {"drained", "closing"} => inUse = {}
              /\ closer[k].pc = "closing" => \A m \in Items(idle) :
                   client[m] = "closed" \/ (client[m] = "closing" /\ m \in closer[k].awaits)
         /\ \A m \in closer[k].awaits :
              /\ m \notin inUse
              /\ m \in Items(idle) => closer[k].count = destroyCount

PoolInv == PoolType /\ ListsApart /\ WaitingOnce /\ OneOwner /\ CloserAlone /\ NoLeakedClient

(* A pool that is not open has no clients. *)
ClosedIsEmpty == ~isOpen => inUse = {} /\ idle = <<>>

(* Whatever is reconnected, replaced or created for a task, there are      *)
(* never more clients than the maximum option allows.                      *)
WithinMaximum == Len(idle) + Cardinality(inUse) <= Maximum
-----------------------------------------------------------------------------
(* Sequences without repetitions, as #idleClients and #tasksQueue are used.*)

(* push() at the end of a list. *)
LEMMA AppendItems ==
    ASSUME NEW S, NEW s \in Seq(S), NEW x \in S
    PROVE  /\ Append(s, x) \in Seq(S)
           /\ Len(Append(s, x)) = Len(s) + 1
           /\ Items(Append(s, x)) = Items(s) \cup {x}
           /\ Distinct(s) /\ x \notin Items(s) => Distinct(Append(s, x))
<1> DEFINE a == Append(s, x)
           n == Len(s)
<1>1. /\ a \in Seq(S) /\ Len(a) = n + 1 /\ n \in Nat
      /\ DOMAIN a = 1..(n + 1) /\ DOMAIN s = 1..n
      /\ \A i \in 1..n : a[i] = s[i]
      /\ a[n + 1] = x
  OBVIOUS
<1> HIDE DEF a, n
<1>2. Items(a) = Items(s) \cup {x}
  <2>1. ASSUME NEW y \in Items(a) PROVE y \in Items(s) \cup {x}
    <3>1. PICK i \in 1..(n + 1) : y = a[i]
      BY <2>1, <1>1 DEF Items
    <3>2. i \in 1..n \/ i = n + 1
      BY <1>1
    <3>3. QED
      BY <3>1, <3>2, <1>1 DEF Items
  <2>2. ASSUME NEW y \in Items(s) \cup {x} PROVE y \in Items(a)
    <3>1. CASE y = x
      <4>1. n + 1 \in DOMAIN a
        BY <1>1
      <4>2. QED
        BY <4>1, <3>1, <1>1 DEF Items
    <3>2. CASE y \in Items(s)
      <4>1. PICK i \in 1..n : y = s[i]
        BY <3>2, <1>1 DEF Items
      <4>2. i \in DOMAIN a /\ a[i] = s[i]
        BY <1>1
      <4>3. QED
        BY <4>1, <4>2 DEF Items
    <3>3. QED
      BY <3>1, <3>2
  <2>3. QED
    BY <2>1, <2>2
<1>3. ASSUME Distinct(s), x \notin Items(s) PROVE Distinct(a)
  <2>1. SUFFICES ASSUME NEW i \in DOMAIN a, NEW j \in DOMAIN a, a[i] = a[j] PROVE i = j
    BY DEF Distinct
  <2>2. (i \in DOMAIN s \/ i = n + 1) /\ (j \in DOMAIN s \/ j = n + 1)
    BY <1>1
  <2>3. \A k \in DOMAIN s : a[k] \in Items(s) /\ a[k] = s[k]
    BY <1>1 DEF Items
  <2>4. QED
    BY <2>1, <2>2, <2>3, <1>1, <1>3 DEF Distinct
<1>4. QED
  BY <1>1, <1>2, <1>3 DEF a, n

(* A list is cut after its first n elements. *)
LEMMA SplitItems ==
    ASSUME NEW S, NEW s \in Seq(S), NEW n \in 0..Len(s)
    PROVE  /\ SubSeq(s, n + 1, Len(s)) \in Seq(S)
           /\ Len(SubSeq(s, n + 1, Len(s))) = Len(s) - n
           /\ Items(s) = Items(SubSeq(s, 1, n)) \cup Items(SubSeq(s, n + 1, Len(s)))
           /\ Distinct(s) => /\ Distinct(SubSeq(s, n + 1, Len(s)))
                             /\ Items(SubSeq(s, 1, n)) \cap Items(SubSeq(s, n + 1, Len(s))) = {}
<1> DEFINE l == Len(s)
           b == SubSeq(s, n + 1, l)
           a == SubSeq(s, 1, n)
<1>0. l \in Nat /\ n \in Nat /\ n <= l /\ DOMAIN s = 1..l
  OBVIOUS
<1>1. /\ b \in Seq(S) /\ Len(b) = l - n /\ DOMAIN b = 1..(l - n)
      /\ \A i \in 1..(l - n) : b[i] = s[i + n]
  <2>1. n + 1 \in Int /\ l \in Int /\ \A i \in (n + 1)..l : s[i] \in S
    BY <1>0
  <2>2. b \in Seq(S) /\ Len(b) = (IF n + 1 <= l THEN l - (n + 1) + 1 ELSE 0)
        /\ \A i \in 1..Len(b) : b[i] = s[n + 1 + i - 1]
    BY <1>0
  <2> HIDE DEF b, l
  <2>3. Len(b) = l - n /\ DOMAIN b = 1..Len(b)
    BY <2>2, <1>0
  <2>4. ASSUME NEW i \in 1..(l - n) PROVE b[i] = s[i + n]
    <3>1. i \in 1..Len(b) /\ n + 1 + i - 1 = i + n
      BY <2>3, <1>0
    <3>2. QED
      BY <3>1, <2>2
  <2>5. QED
    BY <2>2, <2>3, <2>4
<1>2. /\ DOMAIN a = 1..n
      /\ \A i \in 1..n : a[i] = s[i]
  BY <1>0
<1> HIDE DEF a, b, l
<1>3. \A y : y \in Items(a) <=> \E i \in 1..n : y = s[i]
  BY <1>2 DEF Items
<1>4. \A y : y \in Items(b) <=> \E i \in (n + 1)..l : y = s[i]
  <2>1. ASSUME NEW y, y \in Items(b) PROVE \E i \in (n + 1)..l : y = s[i]
    <3>1. PICK i \in 1..(l - n) : y = b[i]
      BY <2>1, <1>1 DEF Items
    <3>2. i + n \in (n + 1)..l /\ y = s[i + n]
      BY <3>1, <1>1, <1>0
    <3>3. QED
      BY <3>2
  <2>2. ASSUME NEW y, NEW i \in (n + 1)..l, y = s[i] PROVE y \in Items(b)
    <3>1. i - n \in 1..(l - n) /\ (i - n) + n = i
      BY <1>0
    <3>2. i - n \in DOMAIN b /\ b[i - n] = y
      BY <3>1, <2>2, <1>1
    <3>3. QED
      BY <3>2 DEF Items
  <2>3. QED
    BY <2>1, <2>2
<1>5. \A y : y \in Items(s) <=> \E i \in 1..l : y = s[i]
  BY <1>0 DEF Items
<1>6. \A i : i \in 1..l <=> i \in 1..n \/ i \in (n + 1)..l
  BY <1>0
<1>7. Items(s) = Items(a) \cup Items(b)
  BY <1>3, <1>4, <1>5, <1>6
<1>8. ASSUME Distinct(s) PROVE Distinct(b) /\ Items(a) \cap Items(b) = {}
  <2>1. Distinct(b)
    <3>1. SUFFICES ASSUME NEW i \in 1..(l - n), NEW j \in 1..(l - n), b[i] = b[j] PROVE i = j
      BY <1>1 DEF Distinct
    <3>2. i + n \in DOMAIN s /\ j + n \in DOMAIN s /\ s[i + n] = s[j + n]
      BY <3>1, <1>0, <1>1
    <3>3. i + n = j + n
      BY <3>2, <1>8 DEF Distinct
    <3>4. QED
      BY <3>3, <1>0
  <2>2. ASSUME NEW y \in Items(a) \cap Items(b) PROVE FALSE
    <3>1. PICK i \in 1..n : y = s[i]
      BY <1>3
    <3>2. PICK j \in (n + 1)..l : y = s[j]
      BY <1>4
    <3>3. i \in DOMAIN s /\ j \in DOMAIN s /\ i # j
      BY <1>0
    <3>4. QED
      BY <3>1, <3>2, <3>3, <1>8 DEF Distinct
  <2>3. QED
    BY <2>1, <2>2
<1>9. QED
  BY <1>1, <1>7, <1>8 DEF a, b, l

(* shift() of a list that is not empty. *)
LEMMA TailItems ==
    ASSUME NEW S, NEW s \in Seq(S), s # <<>>
    PROVE  /\ Head(s) \in S /\ Tail(s) \in Seq(S)
           /\ Items(s) = {Head(s)} \cup Items(Tail(s))
           /\ Distinct(s) => Distinct(Tail(s)) /\ Head(s) \notin Items(Tail(s))
<1>1. Len(s) \in Nat /\ Len(s) > 0 /\ 1 \in 0..Len(s)
  OBVIOUS
<1>2. SubSeq(s, 1 + 1, Len(s)) = Tail(s)
  BY <1>1
<1>3. Items(SubSeq(s, 1, 1)) = {Head(s)}
  <2> DEFINE a == SubSeq(s, 1, 1)
  <2>1. DOMAIN a = {1} /\ a[1] = Head(s)
    BY <1>1
  <2> HIDE DEF a
  <2>2. Items(a) = {Head(s)}
    BY <2>1 DEF Items
  <2>3. QED
    BY <2>2 DEF a
<1>4. /\ Items(s) = Items(SubSeq(s, 1, 1)) \cup Items(SubSeq(s, 1 + 1, Len(s)))
      /\ Distinct(s) => /\ Distinct(SubSeq(s, 1 + 1, Len(s)))
                        /\ Items(SubSeq(s, 1, 1)) \cap Items(SubSeq(s, 1 + 1, Len(s))) = {}
  BY ONLY <1>1, SplitItems, s \in Seq(S)
<1>5. Head(s) \in S /\ Tail(s) \in Seq(S)
  OBVIOUS
<1> DEFINE a == SubSeq(s, 1, 1)
           b == SubSeq(s, 1 + 1, Len(s))
<1>6. /\ Items(s) = Items(a) \cup Items(b)
      /\ Distinct(s) => Distinct(b) /\ Items(a) \cap Items(b) = {}
  BY <1>4
<1>7. Items(a) = {Head(s)} /\ b = Tail(s)
  BY <1>2, <1>3
<1> HIDE DEF a, b
<1>8. QED
  BY ONLY <1>5, <1>6, <1>7

(* Nothing is repeated in what remains of a list. *)
LEMMA FilterItems ==
    ASSUME NEW S, NEW s \in Seq(S), NEW keep
    PROVE  /\ Filter(s, keep) \in Seq(S)
           /\ Items(Filter(s, keep)) = Items(s) \cap keep
           /\ Distinct(s) => Distinct(Filter(s, keep))
<1>1. ASSUME NEW q \in Seq(S)
      PROVE  Filter(q, keep) \in Seq(S) /\ Items(Filter(q, keep)) = Items(q) \cap keep
  BY FilterType, SMTT(60) DEF Items
<1> DEFINE P == {q \in Seq(S) : Distinct(q) => Distinct(Filter(q, keep))}
<1>2. <<>> \in P
  BY FilterEmpty DEF Distinct
<1>3. ASSUME NEW q \in Seq(S), NEW x \in S, q \in P PROVE Append(q, x) \in P
  <2>0. Append(q, x) \in Seq(S) /\ Items(Append(q, x)) = Items(q) \cup {x}
    BY AppendItems
  <2>1. SUFFICES ASSUME Distinct(Append(q, x)) PROVE Distinct(Filter(Append(q, x), keep))
    BY <2>0
  <2>2. Distinct(q) /\ x \notin Items(q)
    <3> DEFINE a == Append(q, x)
    <3>1. /\ Len(q) \in Nat /\ DOMAIN a = 1..(Len(q) + 1) /\ DOMAIN q = 1..Len(q)
          /\ a[Len(q) + 1] = x /\ \A i \in 1..Len(q) : a[i] = q[i]
      OBVIOUS
    <3>2. \A i, j \in DOMAIN a : a[i] = a[j] => i = j
      BY <2>1 DEF Distinct
    <3> HIDE DEF a
    <3>3. \A i \in DOMAIN q : i \in DOMAIN a /\ a[i] = q[i] /\ i # Len(q) + 1
      BY <3>1
    <3>4. Len(q) + 1 \in DOMAIN a
      BY <3>1
    <3>5. QED
      BY <3>1, <3>2, <3>3, <3>4 DEF Distinct, Items
  <2>3. Filter(q, keep) \in Seq(S) /\ Items(Filter(q, keep)) = Items(q) \cap keep
    BY <1>1
  <2>4. Distinct(Filter(q, keep)) /\ x \notin Items(Filter(q, keep))
    BY <2>2, <2>3, <1>3
  <2>5. Distinct(Append(Filter(q, keep), x))
    BY <2>3, <2>4, AppendItems
  <2>6. QED
    BY <2>4, <2>5, FilterAppend
<1>4. Seq(S) \subseteq P
  <2> HIDE DEF P
  <2>1. QED
    BY <1>2, <1>3, SeqSetInduction
<1>5. QED
  BY <1>1, <1>4
-----------------------------------------------------------------------------
(* What the parts of an action leave alone.                                *)

(* Names for new clients are taken from those nothing refers to. *)
LEMMA FreshUnused ==
    ASSUME NEW n, \E S \in SUBSET Unused : Cardinality(S) = n
    PROVE  Fresh(n) \in SUBSET Unused /\ Cardinality(Fresh(n)) = n
BY DEF Fresh

(* Nothing runs on a name that nothing refers to, or creates it. *)
LEMMA UnusedFree ==
    ASSUME PoolInv, NEW m \in Unused
    PROVE  /\ m \in Member
           /\ m \notin inUse /\ m \notin destroyed /\ m \notin Items(idle)
           /\ creator[m] = None
           /\ \A t \in Task : where[t] # m
           /\ \A k \in Closer : m \notin closer[k].awaits
<1>1. /\ m \in Member
      /\ m \notin inUse /\ m \notin destroyed /\ m \notin Items(idle)
      /\ \A k \in Closer : m \notin closer[k].awaits
  BY DEF Unused
<1>2. m # None
  BY <1>1, PoolAssumption
<1>3. QED
  BY <1>1, <1>2 DEF PoolInv, OneOwner

(* What #drainResolve?.() may have done to the closers by the end of a     *)
(* step: it wakes the one that drains, once no client is in use.           *)
Drains ==
    /\ closer' \in [Closer -> Closing]
    /\ \A k \in Closer :
         /\ closer'[k].count = closer[k].count
         /\ closer'[k].awaits = closer[k].awaits
         /\ \/ closer'[k].pc = closer[k].pc
            \/ closer[k].pc = "draining" /\ closer'[k].pc = "drained" /\ inUse' = {}

(* The drain signal is given when no client is in use. *)
LEMMA DrainSignal ==
    ASSUME PoolType, (SignalDrain /\ inUse' = {}) \/ closer' = closer
    PROVE  Drains
<1>1. CASE closer' = closer
  BY <1>1 DEF Drains, PoolType
<1>2. CASE SignalDrain /\ inUse' = {}
  <2>1. ASSUME NEW k \in Closer
        PROVE  /\ closer'[k] \in Closing
               /\ closer'[k].count = closer[k].count
               /\ closer'[k].awaits = closer[k].awaits
               /\ closer'[k].pc = closer[k].pc \/ (closer[k].pc = "draining" /\ closer'[k].pc = "drained")
    <3>1. closer[k] \in Closing
      BY DEF PoolType
    <3>2. closer'[k] = closer[k]
          \/ (closer[k].pc = "draining" /\ closer'[k] = [closer[k] EXCEPT !.pc = "drained"])
      BY <1>2 DEF SignalDrain
    <3>3. QED
      BY <3>1, <3>2 DEF Closing
  <2>2. closer' = [k \in Closer |-> closer'[k]]
    BY <1>2 DEF SignalDrain
  <2>3. QED
    BY <1>2, <2>1, <2>2 DEF Drains
<1>3. QED
  BY <1>1, <1>2

(* A step that brings nothing into use while a close() drains or closes,   *)
(* and touches no client that is closing but to close it, leaves the       *)
(* closers right.                                                          *)
LEMMA CloserKept ==
    ASSUME PoolInv, Drains,
           destroyCount' = destroyCount, closePromise' = closePromise,
           closePromise # None => isOpen',
           closePromise # None /\ inUse = {} => inUse' = {},
           \A m \in inUse' : m \in inUse \/ (\A k \in Closer : m \notin closer[k].awaits),
           Items(idle') \subseteq Items(idle) \cup inUse,
           \A m \in Items(idle) : client[m] \in {"closed", "closing"} =>
                client'[m] \in {"closed", client[m]}
    PROVE  CloserAlone'
<1>1. closePromise' # None => isOpen'
  OBVIOUS
<1>2. ASSUME NEW k \in Closer
      PROVE  /\ closer'[k].count <= destroyCount'
             /\ closer'[k].pc # "closing" => closer'[k].awaits = {}
  BY DEF PoolInv, CloserAlone, Drains
<1>3. ASSUME NEW k \in Closer, closer'[k].pc # "none", closer'[k].count = destroyCount'
      PROVE  /\ closePromise' = k
             /\ closer'[k].pc \in {"drained", "closing"} => inUse' = {}
             /\ closer'[k].pc = "closing" => \A m \in Items(idle') :
                  client'[m] = "closed" \/ (client'[m] = "closing" /\ m \in closer'[k].awaits)
  <2>1. closer[k].pc # "none" /\ closer[k].count = destroyCount
    BY <1>3 DEF Drains
  <2>2. closePromise' = k
    BY <2>1 DEF PoolInv, CloserAlone
  <2>3. k # None
    BY PoolAssumption
  <2>4. closer'[k].pc \in {"drained", "closing"} => inUse' = {}
    BY <2>1, <2>2, <2>3 DEF PoolInv, CloserAlone, Drains
  <2>5. ASSUME closer'[k].pc = "closing", NEW m \in Items(idle')
        PROVE  client'[m] = "closed" \/ (client'[m] = "closing" /\ m \in closer'[k].awaits)
    <3>1. closer[k].pc = "closing"
      BY <2>5 DEF Drains
    <3>2. m \in Items(idle)
      BY <3>1, <2>1 DEF PoolInv, CloserAlone
    <3>3. client[m] = "closed" \/ (client[m] = "closing" /\ m \in closer[k].awaits)
      BY <2>1, <3>1, <3>2 DEF PoolInv, CloserAlone
    <3>4. QED
      BY <3>2, <3>3 DEF Drains
  <2>6. QED
    BY <2>2, <2>4, <2>5
<1>4. ASSUME NEW k \in Closer, NEW m \in closer'[k].awaits
      PROVE  m \notin inUse' /\ (m \in Items(idle') => closer'[k].count = destroyCount')
  <2>1. m \in closer[k].awaits /\ m \notin inUse
        /\ (m \in Items(idle) => closer[k].count = destroyCount)
    BY <1>4 DEF PoolInv, CloserAlone, Drains
  <2>2. QED
    BY <2>1 DEF Drains
<1>5. QED
  BY <1>1, <1>2, <1>3, <1>4 DEF CloserAlone

(* A client loses its connection, reconnects or gives up. *)
LEMMA ClientSteps ==
    ASSUME PoolInv, NEW m \in Member, ClientDown(m) \/ ClientUp(m) \/ ClientTerminates(m)
    PROVE  PoolInv'
<1> USE DEF PoolInv
<1>1. /\ UNCHANGED <<listVars, markVars, closeVars, taskVars, creator>>
      /\ client[m] \in {"ready", "down"}
      /\ \E st \in {"ready", "down", "terminated"} : client' = [client EXCEPT ![m] = st]
  BY DEF ClientDown, ClientUp, ClientTerminates
<1>2. UNCHANGED <<isOpen, idle, inUse, tasks, destroyed, destroyCount, closePromise, closer,
                  where, outcome, creator>>
  BY <1>1 DEF listVars, markVars, closeVars, taskVars
<1>3. \A n \in Member : n # m => client'[n] = client[n]
  BY <1>1 DEF PoolType
<1>4. client'[m] \in {"ready", "down", "terminated"}
  BY <1>1 DEF PoolType
<1>5. PoolType'
  BY <1>1, <1>2 DEF PoolType
<1>6. ListsApart' /\ WaitingOnce'
  BY <1>2 DEF ListsApart, WaitingOnce
<1>7. OneOwner'
  BY <1>1, <1>2, <1>3 DEF OneOwner
<1>8. CloserAlone'
  <2>1. Drains
    BY <1>2, DrainSignal
  <2>2. \A n \in Items(idle) : client[n] \in {"closed", "closing"} => client'[n] = client[n]
    <3>1. Items(idle) \subseteq Member
      BY DEF PoolType, Items
    <3>2. QED
      BY <3>1, <1>1, <1>3
  <2>3. QED
    BY <1>2, <2>1, <2>2, CloserKept DEF CloserAlone
<1>9. NoLeakedClient'
  <2>1. isOpen /\ m \in Tracked
    BY <1>1 DEF NoLeakedClient
  <2>2. Tracked' = Tracked
    BY <1>2 DEF Tracked
  <2>3. QED
    BY <1>2, <1>3, <1>4, <2>1, <2>2 DEF NoLeakedClient
<1>10. QED
  BY <1>5, <1>6, <1>7, <1>8, <1>9

(* The number of clients in use is a number. *)
LEMMA InUseFinite ==
    ASSUME PoolType
    PROVE  IsFiniteSet(inUse) /\ Cardinality(inUse) \in Nat
BY PoolAssumption, FS_Subset, FS_CardinalityType DEF PoolType

(* #cleanup destroys the idle clients it removes. *)
LEMMA CleanupStep ==
    ASSUME PoolInv, Cleanup
    PROVE  PoolInv'
<1> USE DEF PoolInv
<1>1. UNCHANGED <<isOpen, inUse, tasks, destroyed, destroyCount, closePromise, closer,
                  where, outcome, creator>>
  BY DEF Cleanup, markVars, closeVars, taskVars
<1>2. PICK A \in SUBSET Items(idle) :
        /\ idle' \in Seq(Member)
        /\ Items(idle) = A \cup Items(idle')
        /\ Distinct(idle')
        /\ A \cap Items(idle') = {}
        /\ client' = Closed(A)
  <2>1. CASE UNCHANGED <<client, idle>>
    <3>1. client' = Closed({})
      BY <2>1 DEF Closed, PoolType
    <3>2. QED
      BY <2>1, <3>1 DEF PoolType, ListsApart
  <2>2. CASE ~ UNCHANGED <<client, idle>>
    <3> DEFINE surplus == Len(idle) + Cardinality(inUse) - Minimum
               d == IF surplus < Len(idle) THEN surplus ELSE Len(idle)
    <3>1. /\ d > 0
          /\ client' = Closed(Items(SubSeq(idle, 1, d)))
          /\ idle' = SubSeq(idle, d + 1, Len(idle))
      BY <2>2 DEF Cleanup
    <3>2. d \in 0..Len(idle)
      <4>1. Cardinality(inUse) \in Nat /\ Minimum \in Nat /\ Len(idle) \in Nat
        BY InUseFinite, PoolAssumption DEF PoolType
      <4>2. QED
        BY <3>1, <4>1
    <3> HIDE DEF d
    <3>3. /\ idle' \in Seq(Member)
          /\ Items(idle) = Items(SubSeq(idle, 1, d)) \cup Items(idle')
          /\ Distinct(idle')
          /\ Items(SubSeq(idle, 1, d)) \cap Items(idle') = {}
      BY <3>1, <3>2, SplitItems DEF PoolType, ListsApart
    <3>4. QED
      BY <3>1, <3>3
  <2>3. QED
    BY <2>1, <2>2
<1>3. Items(idle) \subseteq Member
  BY DEF Items, PoolType
<1>4. \A m \in Member : client'[m] = IF m \in A THEN "closed" ELSE client[m]
  BY <1>2 DEF Closed
<1>5. PoolType'
  BY <1>1, <1>2 DEF PoolType, Closed
<1>6. ListsApart'
  BY <1>1, <1>2 DEF ListsApart
<1>7. WaitingOnce'
  BY <1>1 DEF WaitingOnce
<1>8. OneOwner'
  BY <1>1, <1>2, <1>4 DEF OneOwner, ListsApart
<1>9. CloserAlone'
  <2>1. Drains
    BY <1>1, DrainSignal
  <2>2. QED
    BY <1>1, <1>2, <1>3, <1>4, <2>1, CloserKept DEF CloserAlone
<1>10. NoLeakedClient'
  <2>1. \A m \in Member : m \in Tracked => m \in Tracked' \/ m \in A
    BY <1>1, <1>2 DEF Tracked
  <2>2. QED
    BY <1>1, <1>4, <2>1 DEF NoLeakedClient
<1>11. QED
  BY <1>5, <1>6, <1>7, <1>8, <1>9, <1>10

(* Waiting tasks are settled and removed. *)
LEMMA TasksRemoved ==
    ASSUME PoolInv, NEW R \in SUBSET Task,
           UNCHANGED <<isOpen, idle, inUse, destroyed, destroyCount, closePromise, closer,
                       where, creator, client>>,
           outcome' = Settled(R),
           tasks' = Filter(tasks, Task \ R) \/ tasks' = <<>> \/ tasks' = tasks
    PROVE  PoolInv'
<1> USE DEF PoolInv
<1>1. tasks' \in Seq(Task) /\ Items(tasks') \subseteq Items(tasks) /\ Distinct(tasks')
  <2>1. CASE tasks' = Filter(tasks, Task \ R)
    BY <2>1, FilterItems DEF PoolType, WaitingOnce
  <2>2. CASE tasks' = <<>>
    BY <2>2 DEF Items, Distinct
  <2>3. CASE tasks' = tasks
    BY <2>3 DEF PoolType, WaitingOnce
  <2>4. QED
    BY <2>1, <2>2, <2>3
<1>2. PoolType'
  BY <1>1 DEF PoolType, Settled
<1>3. ListsApart'
  BY DEF ListsApart
<1>4. WaitingOnce'
  <2>1. \A t \in Task : outcome'[t] = "unused" => outcome[t] = "unused"
    BY DEF Settled, PoolType
  <2>2. QED
    BY <1>1, <2>1 DEF WaitingOnce
<1>5. OneOwner'
  BY DEF OneOwner
<1>6. CloserAlone'
  BY DEF CloserAlone
<1>7. NoLeakedClient'
  BY DEF NoLeakedClient, Tracked
<1>8. QED
  BY <1>2, <1>3, <1>4, <1>5, <1>6, <1>7

(* The acquire timeout, and _rejectQueued(). *)
LEMMA TimesOutStep ==
    ASSUME PoolInv, NEW t \in Task, TimesOut(t)
    PROVE  PoolInv'
BY TasksRemoved DEF TimesOut, markVars, closeVars

(* _rejectQueued settles every task that waits, unless a client is ready.  *)
LEMMA RejectQueuedStep ==
    ASSUME PoolInv, RejectQueued
    PROVE  PoolInv'
<1>1. UNCHANGED <<isOpen, idle, inUse, destroyed, destroyCount, closePromise, closer,
                  where, creator, client>>
  BY DEF RejectQueued, closeVars
<1>2. CASE UNCHANGED <<tasks, outcome>>
  <2>1. outcome' = Settled({})
    BY <1>2 DEF PoolInv, PoolType, Settled
  <2>2. {} \in SUBSET Task
    OBVIOUS
  <2>3. QED
    BY <1>1, <1>2, <2>1, <2>2, TasksRemoved
<1>3. CASE tasks' = <<>> /\ outcome' = Settled(Items(tasks))
  <2>1. Items(tasks) \in SUBSET Task
    BY DEF PoolInv, PoolType, Items
  <2>2. QED
    BY <1>1, <1>3, <2>1, TasksRemoved
<1>4. QED
  BY <1>2, <1>3 DEF RejectQueued

(* close() begins: it is the only one, as none has begun since the last    *)
(* destroy() that is not over.                                             *)
LEMMA CloseStep ==
    ASSUME PoolInv, NEW k \in Closer, Close(k)
    PROVE  PoolInv'
<1> USE DEF PoolInv
<1>1. UNCHANGED <<isOpen, idle, inUse, tasks, destroyed, destroyCount, where, outcome,
                  creator, client>>
  BY DEF Close, listVars, markVars, taskVars
<1>2. /\ closePromise = None /\ closePromise' = k /\ isOpen
      /\ closer[k].awaits = {}
      /\ \A j \in Closer \ {k} : closer'[j] = closer[j]
      /\ closer'[k] = [pc |-> "starting", count |-> destroyCount, awaits |-> {}]
  BY DEF Close, IsClosing, PoolType, CloserAlone
<1>3. \A j \in Closer : closer[j].pc # "none" => closer[j].count # destroyCount
  BY <1>2, PoolAssumption DEF CloserAlone
<1>4. PoolType'
  BY <1>1, <1>2 DEF PoolType, Close, Closing
<1>5. ListsApart' /\ WaitingOnce' /\ OneOwner'
  BY <1>1 DEF ListsApart, WaitingOnce, OneOwner
<1>6. CloserAlone'
  BY <1>1, <1>2, <1>3 DEF CloserAlone, PoolType
<1>7. NoLeakedClient'
  BY <1>1, <1>2 DEF NoLeakedClient, Tracked
<1>8. QED
  BY <1>4, <1>5, <1>6, <1>7

(* #doClose waits, or finds that nothing is in use. *)
LEMMA StartCloseStep ==
    ASSUME PoolInv, NEW k \in Closer, StartClose(k)
    PROVE  PoolInv'
<1> USE DEF PoolInv
<1>1. UNCHANGED <<isOpen, idle, inUse, tasks, destroyed, destroyCount, closePromise, where,
                  outcome, creator, client>>
  BY DEF StartClose, listVars, markVars, taskVars
<1>2. /\ \A j \in Closer \ {k} : closer'[j] = closer[j]
      /\ closer[k].pc = "starting"
      /\ closer'[k].count = closer[k].count /\ closer'[k].awaits = closer[k].awaits
      /\ \/ closer'[k].pc = "draining"
         \/ closer'[k].pc = "drained" /\ (closer[k].count = destroyCount => inUse = {})
      /\ closer' \in [Closer -> Closing]
  <2>1. PICK x \in {"draining", "drained"} :
          /\ closer' = [closer EXCEPT ![k].pc = x]
          /\ x = "drained" /\ closer[k].count = destroyCount => inUse = {}
    BY DEF StartClose
  <2>2. closer[k] \in Closing /\ closer \in [Closer -> Closing]
    BY DEF PoolType
  <2>3. closer'[k] = [closer[k] EXCEPT !.pc = x] /\ \A j \in Closer \ {k} : closer'[j] = closer[j]
    BY <2>1, <2>2
  <2>4. /\ closer'[k].pc = x /\ closer'[k].count = closer[k].count
        /\ closer'[k].awaits = closer[k].awaits /\ closer'[k] \in Closing
    BY <2>2, <2>3 DEF Closing
  <2>5. closer' \in [Closer -> Closing]
    BY <2>1, <2>2, <2>4
  <2>6. QED
    BY <2>1, <2>3, <2>4, <2>5 DEF StartClose
<1>3. PoolType'
  BY <1>1, <1>2 DEF PoolType
<1>4. ListsApart' /\ WaitingOnce' /\ OneOwner'
  BY <1>1 DEF ListsApart, WaitingOnce, OneOwner
<1>5. CloserAlone'
  BY <1>1, <1>2 DEF CloserAlone
<1>6. NoLeakedClient'
  BY <1>1, <1>2 DEF NoLeakedClient, Tracked
<1>7. QED
  BY <1>3, <1>4, <1>5, <1>6

(* The idle clients are closed, unless destroy() has taken over. *)
LEMMA CloseClientsStep ==
    ASSUME PoolInv, NEW k \in Closer, CloseClients(k)
    PROVE  PoolInv'
<1> USE DEF PoolInv
<1>1. UNCHANGED <<isOpen, idle, inUse, tasks, destroyed, destroyCount, closePromise, where,
                  outcome, creator>>
  BY DEF CloseClients, listVars, markVars, taskVars
<1>2. /\ \A j \in Closer \ {k} : closer'[j] = closer[j]
      /\ closer[k].pc = "drained" /\ closer[k].awaits = {}
  BY DEF CloseClients, PoolType, CloserAlone
<1>3. Items(idle) \subseteq Member
  BY DEF PoolType, Items
<1>4. ListsApart' /\ WaitingOnce'
  BY <1>1 DEF ListsApart, WaitingOnce
<1>5. CASE closer[k].count # destroyCount
  <2>1. closer' = [closer EXCEPT ![k] = NotClosing] /\ client' = client
    BY <1>5 DEF CloseClients
  <2>2. closer'[k] = NotClosing
    BY <2>1 DEF PoolType
  <2>3. PoolType'
    BY <1>1, <2>1 DEF PoolType, NotClosing, Closing
  <2>4. OneOwner'
    BY <1>1, <2>1 DEF OneOwner
  <2>5. CloserAlone'
    BY <1>1, <1>2, <2>1, <2>2 DEF CloserAlone, NotClosing, PoolType
  <2>6. NoLeakedClient'
    BY <1>1, <1>2, <2>1, <2>2 DEF NoLeakedClient, Tracked
  <2>7. QED
    BY <1>4, <2>3, <2>4, <2>5, <2>6
<1>6. CASE closer[k].count = destroyCount
  <2> DEFINE C == {m \in Items(idle) : client[m] # "terminated"}
  <2>1. /\ closer' = [closer EXCEPT ![k].pc = "closing", ![k].awaits = C]
        /\ client' = [m \in Member |-> IF m \in C THEN "closing" ELSE Closed(Items(idle))[m]]
    BY <1>6 DEF CloseClients
  <2>2. \A m \in Member : client'[m] = IF m \in C THEN "closing"
                                       ELSE IF m \in Items(idle) THEN "closed" ELSE client[m]
    BY <2>1 DEF Closed
  <2>3. C \subseteq Items(idle) /\ C \in SUBSET Member
    BY <1>3
  <2>4. inUse = {} /\ closePromise = k
    BY <1>2, <1>6 DEF CloserAlone
  <2> HIDE DEF C
  <2>5. closer' \in [Closer -> Closing] /\ closer'[k].pc = "closing" /\ closer'[k].awaits = C
        /\ closer'[k].count = closer[k].count
    BY <2>1, <2>3, ZenonT(60) DEF PoolType, Closing
  <2>6. PoolType'
    <3>1. client' \in [Member -> {"closed", "connecting", "ready", "down", "terminated", "closing"}]
      BY <2>1, <2>2 DEF PoolType
    <3>2. QED
      BY <1>1, <2>5, <3>1 DEF PoolType
  <2>7. OneOwner'
    BY <1>1, <2>4 DEF OneOwner
  <2>8. CloserAlone'
    <3>1. ASSUME NEW j \in Closer \ {k}
          PROVE  closer[j].pc # "none" => closer[j].count # destroyCount
      BY <2>4 DEF CloserAlone
    <3>2. QED
      BY <1>1, <1>2, <1>3, <1>6, <2>2, <2>3, <2>4, <2>5, <3>1 DEF CloserAlone
  <2>9. NoLeakedClient'
    <3>1. Tracked' = Tracked
      BY <1>1 DEF Tracked
    <3>2. ASSUME NEW m \in Member, client'[m] = "closing"
          PROVE  \E j \in Closer : m \in closer'[j].awaits
      <4>1. CASE m \in C
        BY <4>1, <2>5
      <4>2. CASE m \notin C
        <5>1. client[m] = "closing"
          BY <4>2, <2>2, <3>2
        <5>2. PICK j \in Closer : m \in closer[j].awaits
          BY <5>1 DEF NoLeakedClient
        <5>3. j # k
          BY <5>2, <1>2
        <5>4. QED
          BY <5>2, <5>3, <1>2
      <4>3. QED
        BY <4>1, <4>2
    <3>3. QED
      BY <1>1, <2>2, <3>1, <3>2 DEF NoLeakedClient
  <2>10. QED
    BY <1>4, <2>6, <2>7, <2>8, <2>9
<1>7. QED
  BY <1>5, <1>6

(* The close() of one client settles. *)
LEMMA ClientClosesStep ==
    ASSUME PoolInv, NEW k \in Closer, NEW m \in Member, ClientCloses(k, m)
    PROVE  PoolInv'
<1> USE DEF PoolInv
<1>1. UNCHANGED <<isOpen, idle, inUse, tasks, destroyed, destroyCount, closePromise, where,
                  outcome, creator>>
  BY DEF ClientCloses, listVars, markVars, taskVars
<1>2. /\ \A j \in Closer \ {k} : closer'[j] = closer[j]
      /\ m \in closer[k].awaits /\ m \notin inUse
      /\ closer'[k].awaits = closer[k].awaits \ {m}
      /\ closer'[k].pc = closer[k].pc /\ closer'[k].count = closer[k].count
      /\ closer' \in [Closer -> Closing]
  <2>1. closer' = [closer EXCEPT ![k].awaits = @ \ {m}] /\ m \in closer[k].awaits
    BY DEF ClientCloses
  <2>2. closer[k] \in Closing /\ closer \in [Closer -> Closing]
    BY DEF PoolType
  <2>3. closer'[k] = [closer[k] EXCEPT !.awaits = closer[k].awaits \ {m}]
        /\ \A j \in Closer \ {k} : closer'[j] = closer[j]
    BY <2>1, <2>2
  <2>4. /\ closer'[k].pc = closer[k].pc /\ closer'[k].count = closer[k].count
        /\ closer'[k].awaits = closer[k].awaits \ {m} /\ closer'[k] \in Closing
    BY <2>2, <2>3 DEF Closing
  <2>5. closer' \in [Closer -> Closing]
    BY <2>1, <2>2, <2>4
  <2>6. QED
    BY <2>1, <2>3, <2>4, <2>5 DEF CloserAlone
<1>3. \A n \in Member : client'[n] = IF n = m THEN "closed" ELSE client[n]
  BY DEF ClientCloses, Closed
<1>4. PoolType'
  BY <1>1, <1>2 DEF PoolType, ClientCloses, Closed
<1>5. ListsApart' /\ WaitingOnce'
  BY <1>1 DEF ListsApart, WaitingOnce
<1>6. OneOwner'
  BY <1>1, <1>2, <1>3 DEF OneOwner
<1>7. CloserAlone'
  <2>1. Items(idle) \subseteq Member
    BY DEF PoolType, Items
  <2>2. QED
    BY <1>1, <1>2, <1>3, <2>1 DEF CloserAlone
<1>8. NoLeakedClient'
  <2>1. Tracked' = Tracked
    BY <1>1 DEF Tracked
  <2>2. QED
    BY <1>1, <1>2, <1>3, <2>1 DEF NoLeakedClient
<1>9. QED
  BY <1>4, <1>5, <1>6, <1>7, <1>8

(* The end of #doClose: all that it forgets is closed. *)
LEMMA FinishCloseStep ==
    ASSUME PoolInv, NEW k \in Closer, FinishClose(k)
    PROVE  PoolInv'
<1> USE DEF PoolInv
<1>1. UNCHANGED <<tasks, destroyed, destroyCount, where, outcome, creator, client>>
  BY DEF FinishClose, markVars, taskVars
<1>2. /\ \A j \in Closer \ {k} : closer'[j] = closer[j]
      /\ closer'[k] = NotClosing
      /\ closer[k].pc = "closing" /\ closer[k].awaits = {}
      /\ closer' \in [Closer -> Closing]
  BY DEF FinishClose, PoolType, Closing, NotClosing
<1>3. WaitingOnce'
  BY <1>1 DEF WaitingOnce
<1>4. CASE closer[k].count # destroyCount
  <2>1. UNCHANGED <<idle, inUse, isOpen, closePromise>>
    BY <1>4 DEF FinishClose
  <2>2. PoolType'
    BY <1>1, <1>2, <2>1 DEF PoolType
  <2>3. ListsApart' /\ OneOwner'
    BY <1>1, <2>1 DEF ListsApart, OneOwner
  <2>4. CloserAlone'
    BY <1>1, <1>2, <2>1 DEF CloserAlone, NotClosing, PoolType
  <2>5. NoLeakedClient'
    BY <1>1, <1>2, <2>1 DEF NoLeakedClient, Tracked
  <2>6. QED
    BY <1>3, <2>2, <2>3, <2>4, <2>5
<1>5. CASE closer[k].count = destroyCount
  <2>1. idle' = <<>> /\ inUse' = {} /\ isOpen' = FALSE /\ closePromise' = None
    BY <1>5 DEF FinishClose
  <2>2. inUse = {} /\ closePromise = k /\ \A m \in Items(idle) : client[m] = "closed"
    BY <1>2, <1>5 DEF CloserAlone
  <2>3. PoolType'
    <3>1. idle' \in Seq(Member) /\ inUse' \in SUBSET Member
      BY <2>1
    <3>2. QED
      BY <1>1, <1>2, <2>1, <3>1 DEF PoolType
  <2>4. Items(idle') = {} /\ Distinct(idle')
    BY <2>1 DEF Items, Distinct
  <2>5. ListsApart' /\ OneOwner'
    BY <1>1, <2>1, <2>2, <2>4 DEF ListsApart, OneOwner
  <2>6. CloserAlone'
    <3>1. \A j \in Closer \ {k} : closer[j].pc # "none" => closer[j].count # destroyCount
      BY <2>2 DEF CloserAlone
    <3>2. QED
      BY <1>1, <1>2, <2>1, <2>4, <3>1 DEF CloserAlone, NotClosing, PoolType
  <2>7. NoLeakedClient'
    <3>1. \A m \in Tracked : client[m] = "closed"
      BY <2>2 DEF Tracked
    <3>2. QED
      BY <1>1, <1>2, <3>1 DEF NoLeakedClient
  <2>8. QED
    BY <1>3, <2>3, <2>5, <2>6, <2>7
<1>6. QED
  BY <1>4, <1>5

(* destroy(), when cr is left of the creators: a client that a task or a   *)
(* creator still holds is remembered, and every closer is overtaken.       *)
LEMMA DestroyStep ==
    ASSUME PoolInv, NEW cr, DestroyPool(cr),
           cr = creator \/ \E m \in Member : cr = NotCreating(m)
    PROVE  PoolInv'
<1> USE DEF PoolInv
<1>1. /\ cr \in [Member -> Reason \cup {None}]
      /\ \A m \in Member : cr[m] # None => creator[m] = cr[m]
  BY DEF NotCreating, PoolType
<1>2. /\ idle' = <<>> /\ inUse' = {} /\ tasks' = <<>> /\ isOpen' = FALSE
      /\ closePromise' = None /\ destroyCount' = destroyCount + 1
      /\ where' = where /\ creator' = cr
      /\ destroyed' = {m \in destroyed \cup inUse : cr[m] # None \/ \E t \in Task : where[t] = m}
      /\ client' = Closed(inUse \cup Items(idle))
      /\ outcome' = Settled(Items(tasks))
  BY DEF DestroyPool
<1>3. Items(idle') = {} /\ Items(tasks') = {} /\ Distinct(idle') /\ Distinct(tasks')
  BY <1>2 DEF Items, Distinct
<1>4. Drains
  <2>1. SignalDrain
    BY DEF DestroyPool
  <2>2. QED
    BY <1>2, <2>1, DrainSignal
<1>5. \A m \in Member : client'[m] = IF m \in inUse \cup Items(idle) THEN "closed" ELSE client[m]
  BY <1>2 DEF Closed
<1>6. PoolType'
  <2>1. client' \in [Member -> {"closed", "connecting", "ready", "down", "terminated", "closing"}]
    BY <1>2 DEF PoolType, Closed
  <2>2. outcome' \in [Task -> {"unused", "pending", "settled"}]
    BY <1>2 DEF PoolType, Settled
  <2>3. /\ idle' \in Seq(Member) /\ tasks' \in Seq(Task) /\ inUse' \in SUBSET Member
        /\ destroyed' \in SUBSET Member /\ destroyCount' \in Nat
    BY <1>2 DEF PoolType
  <2>4. QED
    BY <1>1, <1>2, <1>4, <2>1, <2>2, <2>3 DEF PoolType, Drains
<1>7. ListsApart'
  BY <1>2, <1>3 DEF ListsApart
<1>8. WaitingOnce'
  <2>1. \A t \in Task : outcome'[t] = "unused" => outcome[t] = "unused"
    BY <1>2 DEF Settled, PoolType
  <2>2. QED
    BY <1>2, <1>3, <2>1 DEF WaitingOnce
<1>9. OneOwner'
  <2>1. ASSUME NEW t \in Task, where[t] # None
        PROVE  where[t] \in destroyed' /\ cr[where[t]] = None
    <3>1. where[t] \in Member
      BY <2>1 DEF PoolType
    <3>2. QED
      BY <3>1, <2>1, <1>1, <1>2 DEF OneOwner
  <2>2. ASSUME NEW m \in Member, cr[m] # None PROVE m \in destroyed'
    BY <1>1, <1>2, <2>2 DEF OneOwner
  <2>3. QED
    BY <1>2, <2>1, <2>2 DEF OneOwner
<1>10. CloserAlone'
  <2>1. \A k \in Closer : closer'[k].count # destroyCount' /\ closer'[k].count <= destroyCount'
    BY <1>2, <1>4 DEF Drains, CloserAlone, PoolType, Closing
  <2>2. \A k \in Closer : closer'[k].pc # "closing" => closer'[k].awaits = {}
    BY <1>4 DEF Drains, CloserAlone
  <2>3. QED
    BY <1>2, <1>3, <2>1, <2>2 DEF CloserAlone
<1>11. NoLeakedClient'
  BY <1>4, <1>5 DEF NoLeakedClient, Tracked, Drains
<1>12. QED
  BY <1>6, <1>7, <1>8, <1>9, <1>10, <1>11
-----------------------------------------------------------------------------
(* Clients are created, lent and returned.                                 *)

ClientStates == {"closed", "connecting", "ready", "down", "terminated", "closing"}

(* What #create does: the n clients of F are in use and connecting. *)
Created(n, U, cl, cr) ==
    \E F \in SUBSET Unused :
        /\ Cardinality(F) = n
        /\ inUse' = U \cup F /\ inUse' \in SUBSET Member
        /\ client' \in [Member -> ClientStates]
        /\ creator' \in [Member -> Reason \cup {None}]
        /\ \A m \in Member : client'[m] = IF m \in F THEN "connecting" ELSE cl[m]
        /\ \A m \in Member : m \notin F => creator'[m] = cr[m]

(* #create takes names for its clients that nothing refers to, and changes *)
(* nothing else.                                                           *)
LEMMA CreateEffect ==
    ASSUME PoolInv, NEW n, NEW reason \in Task \cup {"connect", "replacement"},
           NEW U \in SUBSET Member, NEW cl \in [Member -> ClientStates],
           NEW cr \in [Member -> Reason \cup {None}], Create(n, reason, U, cl, cr)
    PROVE  Created(n, U, cl, cr)
<1>1. Fresh(n) \in SUBSET Unused /\ Cardinality(Fresh(n)) = n
  BY FreshUnused DEF Create
<1>2. Fresh(n) \in SUBSET Member
  BY <1>1 DEF Unused
<1>3. [why |-> reason, count |-> destroyCount] \in Reason
  BY DEF Reason, PoolInv, PoolType
<1>4. /\ inUse' = U \cup Fresh(n)
      /\ client' = [m \in Member |-> IF m \in Fresh(n) THEN "connecting" ELSE cl[m]]
      /\ creator' = [m \in Member |->
           IF m \in Fresh(n) THEN [why |-> reason, count |-> destroyCount] ELSE cr[m]]
  BY DEF Create
<1>5. client' \in [Member -> ClientStates]
  BY <1>4 DEF ClientStates
<1>6. creator' \in [Member -> Reason \cup {None}]
  BY <1>3, <1>4
<1>7. QED
  BY <1>1, <1>2, <1>4, <1>5, <1>6 DEF Created

(* connect() creates the minimum of clients. *)
LEMMA ConnectStep ==
    ASSUME PoolInv, Connect
    PROVE  PoolInv'
<1> USE DEF PoolInv
<1>1. /\ UNCHANGED <<idle, tasks, destroyed, where, outcome, destroyCount, closePromise, closer>>
      /\ ~isOpen /\ isOpen' = TRUE
  BY DEF Connect, markVars, taskVars
<1>2. closePromise = None
  BY <1>1 DEF CloserAlone
<1>3. PICK F \in SUBSET Unused :
             /\ Cardinality(F) = Minimum
             /\ inUse' = inUse \cup F /\ inUse' \in SUBSET Member
             /\ client' \in [Member -> ClientStates]
             /\ creator' \in [Member -> Reason \cup {None}]
             /\ \A m \in Member : client'[m] = IF m \in F THEN "connecting" ELSE client[m]
             /\ \A m \in Member : m \notin F => creator'[m] = creator[m]
  <2>1. Create(Minimum, "connect", inUse, client, creator)
    BY DEF Connect
  <2>2. client \in [Member -> ClientStates] /\ creator \in [Member -> Reason \cup {None}]
        /\ inUse \in SUBSET Member
    BY DEF PoolType, ClientStates
  <2>3. "connect" \in Task \cup {"connect", "replacement"}
    OBVIOUS
  <2> HIDE DEF PoolInv
  <2>4. Created(Minimum, inUse, client, creator)
    BY <2>1, <2>2, <2>3, CreateEffect
  <2>5. QED
    BY <2>4 DEF Created
<1>4. \A m \in F : /\ m \in Member
                   /\ m \notin inUse /\ m \notin destroyed /\ m \notin Items(idle)
                   /\ creator[m] = None
                   /\ \A t \in Task : where[t] # m
                   /\ \A k \in Closer : m \notin closer[k].awaits
  BY UnusedFree
<1>5. PoolType'
  BY <1>1, <1>3 DEF PoolType, ClientStates
<1>6. ListsApart'
  BY <1>1, <1>3, <1>4 DEF ListsApart
<1>7. WaitingOnce'
  BY <1>1 DEF WaitingOnce
<1>8. OneOwner'
  <2>1. ASSUME NEW t \in Task, where[t] # None PROVE where[t] \in Member \ F
    BY <2>1, <1>4 DEF PoolType
  <2>2. QED
    BY <1>1, <1>3, <2>1 DEF OneOwner
<1>9. CloserAlone'
  <2>1. Drains
    BY <1>1, DrainSignal
  <2>2. \A m \in Items(idle) : client'[m] = client[m]
    <3>1. Items(idle) \subseteq Member
      BY DEF PoolType, Items
    <3>2. QED
      BY <3>1, <1>3, <1>4
  <2>3. QED
    BY <1>1, <1>2, <1>3, <1>4, <2>1, <2>2, CloserKept
<1>10. NoLeakedClient'
  BY <1>1, <1>3 DEF NoLeakedClient, Tracked
<1>11. QED
  BY <1>5, <1>6, <1>7, <1>8, <1>9, <1>10

(* A task that ends, or a creation, gives the client m up. *)
GivesUp(m, wh) ==
    /\ wh \in [Task -> Member \cup {None}]
    /\ \A u \in Task : wh[u] \in {where[u], None} /\ wh[u] # m

(* Promises are settled and no others are made. *)
Settles ==
    /\ outcome' \in [Task -> {"unused", "pending", "settled"}]
    /\ \A t \in Task : outcome'[t] \in {outcome[t], "settled"}

(* A client that was given up serves the first task that waits. *)
LEMMA HandedOn ==
    ASSUME PoolInv, NEW m \in inUse, NEW wh, GivesUp(m, wh), Settles,
           tasks # <<>>, where' = [wh EXCEPT ![Head(tasks)] = m], tasks' = Tail(tasks),
           creator' = NotCreating(m),
           client' = client \/ (client[m] = "connecting" /\ client' = [client EXCEPT ![m] = "ready"]),
           UNCHANGED <<isOpen, idle, inUse, destroyed, destroyCount, closePromise, closer>>
    PROVE  PoolInv'
<1> USE DEF PoolInv
<1> DEFINE h == Head(tasks)
<1>1. /\ h \in Task /\ tasks' \in Seq(Task) /\ Items(tasks) = {h} \cup Items(tasks')
      /\ Distinct(tasks') /\ h \notin Items(tasks')
  BY TailItems DEF PoolType, WaitingOnce
<1> HIDE DEF h
<1>2. where' = [wh EXCEPT ![h] = m] /\ wh \in [Task -> Member \cup {None}]
  BY DEF h, GivesUp
<1>3. m \in Member /\ m # None /\ m \notin destroyed /\ m \notin Items(idle)
  BY PoolAssumption DEF PoolType, ListsApart
<1>4. where[h] = None
  BY <1>1 DEF WaitingOnce
<1>5. \A u \in Task : where'[u] = (IF u = h THEN m ELSE wh[u])
                      /\ (u # h => where'[u] \in {where[u], None} /\ where'[u] # m)
  BY <1>1, <1>2 DEF GivesUp
<1>6. \A n \in Member : creator'[n] = IF n = m THEN None ELSE creator[n]
  BY <1>3 DEF PoolType, NotCreating
<1>7. \A n \in Member : n # m => client'[n] = client[n]
  BY DEF PoolType
<1>8. PoolType'
  <2>1. where' \in [Task -> Member \cup {None}]
    BY <1>1, <1>2, <1>3
  <2>2. creator' \in [Member -> Reason \cup {None}]
    BY DEF NotCreating, PoolType
  <2>3. client' \in [Member -> {"closed", "connecting", "ready", "down", "terminated", "closing"}]
    BY DEF PoolType
  <2>4. QED
    BY <1>1, <2>1, <2>2, <2>3 DEF PoolType, Settles
<1>9. ListsApart'
  BY DEF ListsApart
<1>10. WaitingOnce'
  <2>1. \A t \in Items(tasks') : t \in Task /\ t # h /\ t \in Items(tasks)
    BY <1>1 DEF Items
  <2>2. \A t \in Items(tasks') : where'[t] = None
    BY <2>1, <1>5 DEF WaitingOnce
  <2>3. \A t \in Task : outcome'[t] = "unused" =>
            outcome[t] = "unused" /\ t # h /\ t \notin Items(tasks) /\ where[t] = None
    BY <1>1 DEF WaitingOnce, Settles
  <2>4. QED
    BY <1>1, <1>5, <2>2, <2>3 DEF WaitingOnce
<1>11. OneOwner'
  <2>1. ASSUME NEW u \in Task, where'[u] # None
        PROVE  /\ where'[u] \in inUse \cup destroyed
               /\ creator'[where'[u]] = None
               /\ \A v \in Task : where'[v] = where'[u] => v = u
    <3>1. CASE u = h
      BY <3>1, <1>1, <1>3, <1>5, <1>6
    <3>2. CASE u # h
      <4>1. where'[u] = where[u] /\ where[u] \in Member /\ where[u] # None /\ where[u] # m
        BY <3>2, <2>1, <1>5 DEF PoolType
      <4>2. QED
        BY <4>1, <1>5, <1>6 DEF OneOwner
    <3>3. QED
      BY <3>1, <3>2
  <2>2. ASSUME NEW n \in Member, creator'[n] # None
        PROVE  n \in inUse \cup destroyed /\ (n \in inUse => client'[n] = "connecting")
    BY <2>2, <1>6, <1>7 DEF OneOwner
  <2>3. QED
    BY <2>1, <2>2 DEF OneOwner
<1>12. CloserAlone'
  <2>1. Drains
    BY DrainSignal
  <2>2. \A n \in Items(idle) : client'[n] = client[n]
    <3>1. Items(idle) \subseteq Member
      BY DEF PoolType, Items
    <3>2. QED
      BY <3>1, <1>3, <1>7
  <2>3. QED
    BY <2>1, <2>2, CloserKept DEF CloserAlone
<1>13. NoLeakedClient'
  <2>1. Tracked' = Tracked /\ m \in Tracked
    BY DEF Tracked
  <2>2. QED
    BY <1>3, <1>7, <2>1 DEF NoLeakedClient, PoolType
<1>14. QED
  BY <1>8, <1>9, <1>10, <1>11, <1>12, <1>13

(* A client that was given up becomes idle, and wakes close() when it was  *)
(* the last.                                                               *)
LEMMA Rests ==
    ASSUME PoolInv, NEW m \in inUse, NEW wh, GivesUp(m, wh), Settles,
           BecomeIdle(m), where' = wh,
           creator' = NotCreating(m),
           client' = client \/ (client[m] = "connecting" /\ client' = [client EXCEPT ![m] = "ready"]),
           UNCHANGED <<isOpen, destroyed, destroyCount, closePromise>>
    PROVE  PoolInv'
<1> USE DEF PoolInv
<1>1. m \in Member /\ m # None /\ m \notin destroyed /\ m \notin Items(idle)
  BY PoolAssumption DEF PoolType, ListsApart
<1>2. /\ inUse' = inUse \ {m} /\ tasks' = tasks /\ idle' \in Seq(Member)
      /\ Items(idle') = Items(idle) \cup {m} /\ Distinct(idle')
  BY <1>1, AppendItems DEF BecomeIdle, PoolType, ListsApart
<1>3. Drains
  BY DrainSignal DEF BecomeIdle
<1>4. \A n \in Member : creator'[n] = IF n = m THEN None ELSE creator[n]
  BY <1>1 DEF PoolType, NotCreating
<1>5. \A n \in Member : n # m => client'[n] = client[n]
  BY DEF PoolType
<1>6. PoolType'
  <2>1. creator' \in [Member -> Reason \cup {None}]
    BY DEF NotCreating, PoolType
  <2>2. client' \in [Member -> {"closed", "connecting", "ready", "down", "terminated", "closing"}]
    BY DEF PoolType
  <2>3. QED
    BY <1>2, <1>3, <2>1, <2>2 DEF PoolType, Settles, GivesUp, Drains
<1>7. ListsApart'
  BY <1>1, <1>2 DEF ListsApart
<1>8. WaitingOnce'
  <2>1. Items(tasks) \subseteq Task
    BY DEF PoolType, Items
  <2>2. QED
    BY <1>2, <2>1 DEF WaitingOnce, Settles, GivesUp
<1>9. OneOwner'
  <2>1. ASSUME NEW u \in Task, where'[u] # None
        PROVE  where'[u] = where[u] /\ where[u] \in Member /\ where[u] # None /\ where[u] # m
    BY <2>1 DEF PoolType, GivesUp
  <2>2. ASSUME NEW u \in Task, where'[u] # None
        PROVE  /\ where'[u] \in inUse' \cup destroyed
               /\ creator'[where'[u]] = None
               /\ \A v \in Task : where'[v] = where'[u] => v = u
    BY <2>1, <2>2, <1>2, <1>4 DEF OneOwner
  <2>3. ASSUME NEW n \in Member, creator'[n] # None
        PROVE  n \in inUse' \cup destroyed /\ (n \in inUse' => client'[n] = "connecting")
    BY <2>3, <1>2, <1>4, <1>5 DEF OneOwner
  <2>4. QED
    BY <2>2, <2>3 DEF OneOwner
<1>10. CloserAlone'
  <2>1. \A n \in Items(idle) : client'[n] = client[n]
    <3>1. Items(idle) \subseteq Member
      BY DEF PoolType, Items
    <3>2. QED
      BY <3>1, <1>1, <1>5
  <2>2. Items(idle') \subseteq Items(idle) \cup inUse
    BY <1>2
  <2>3. QED
    BY <1>2, <1>3, <2>1, <2>2, CloserKept DEF CloserAlone
<1>11. NoLeakedClient'
  <2>1. Tracked' = Tracked /\ m \in Tracked
    BY <1>2 DEF Tracked
  <2>2. QED
    BY <1>1, <1>3, <1>5, <2>1 DEF NoLeakedClient, PoolType, Drains
<1>12. QED
  BY <1>6, <1>7, <1>8, <1>9, <1>10, <1>11

(* A client that was given up leaves the pool, closed. *)
LEMMA Leaves ==
    ASSUME PoolInv, NEW m \in inUse, NEW wh, GivesUp(m, wh), Settles, Drains,
           where' = wh, inUse' = inUse \ {m}, client' = Closed({m}), creator' = NotCreating(m),
           tasks' \in Seq(Task), Items(tasks') \subseteq Items(tasks), Distinct(tasks'),
           UNCHANGED <<isOpen, idle, destroyed, destroyCount, closePromise>>
    PROVE  PoolInv'
<1> USE DEF PoolInv
<1>1. m \in Member /\ m # None /\ m \notin destroyed /\ m \notin Items(idle)
  BY PoolAssumption DEF PoolType, ListsApart
<1>2. \A n \in Member : creator'[n] = IF n = m THEN None ELSE creator[n]
  BY <1>1 DEF PoolType, NotCreating
<1>3. \A n \in Member : client'[n] = IF n = m THEN "closed" ELSE client[n]
  BY DEF Closed
<1>4. PoolType'
  <2>1. creator' \in [Member -> Reason \cup {None}]
    BY DEF NotCreating, PoolType
  <2>2. client' \in [Member -> {"closed", "connecting", "ready", "down", "terminated", "closing"}]
    BY DEF PoolType, Closed
  <2>3. QED
    BY <2>1, <2>2 DEF PoolType, Settles, GivesUp, Drains
<1>5. ListsApart'
  BY DEF ListsApart
<1>6. WaitingOnce'
  <2>1. Items(tasks) \subseteq Task
    BY DEF PoolType, Items
  <2>2. QED
    BY <2>1 DEF WaitingOnce, Settles, GivesUp
<1>7. OneOwner'
  <2>1. ASSUME NEW u \in Task, where'[u] # None
        PROVE  where'[u] = where[u] /\ where[u] \in Member /\ where[u] # None /\ where[u] # m
    BY <2>1 DEF PoolType, GivesUp
  <2>2. ASSUME NEW u \in Task, where'[u] # None
        PROVE  /\ where'[u] \in inUse' \cup destroyed
               /\ creator'[where'[u]] = None
               /\ \A v \in Task : where'[v] = where'[u] => v = u
    BY <2>1, <2>2, <1>2 DEF OneOwner
  <2>3. ASSUME NEW n \in Member, creator'[n] # None
        PROVE  n \in inUse' \cup destroyed /\ (n \in inUse' => client'[n] = "connecting")
    BY <2>3, <1>2, <1>3 DEF OneOwner
  <2>4. QED
    BY <2>2, <2>3 DEF OneOwner
<1>8. CloserAlone'
  <2>1. Items(idle) \subseteq Member
    BY DEF PoolType, Items
  <2>2. QED
    BY <1>1, <1>3, <2>1, CloserKept DEF CloserAlone
<1>9. NoLeakedClient'
  <2>1. \A n \in Member : n # m /\ n \in Tracked => n \in Tracked'
    BY DEF Tracked
  <2>2. QED
    BY <1>3, <2>1 DEF NoLeakedClient, Drains
<1>10. QED
  BY <1>4, <1>5, <1>6, <1>7, <1>8, <1>9

(* A client that was destroyed meanwhile is forgotten when it is given up. *)
LEMMA Forgotten ==
    ASSUME PoolInv, NEW m \in destroyed, NEW wh, GivesUp(m, wh), Settles,
           where' = wh, destroyed' = destroyed \ {m}, creator' = NotCreating(m),
           UNCHANGED <<isOpen, idle, inUse, tasks, destroyCount, closePromise, closer, client>>
    PROVE  PoolInv'
<1> USE DEF PoolInv
<1>1. m \in Member /\ m # None
  BY PoolAssumption DEF PoolType
<1>2. \A n \in Member : creator'[n] = IF n = m THEN None ELSE creator[n]
  BY <1>1 DEF PoolType, NotCreating
<1>3. PoolType'
  <2>1. creator' \in [Member -> Reason \cup {None}]
    BY DEF NotCreating, PoolType
  <2>2. QED
    BY <2>1 DEF PoolType, Settles, GivesUp
<1>4. ListsApart'
  BY DEF ListsApart
<1>5. WaitingOnce'
  <2>1. Items(tasks) \subseteq Task
    BY DEF PoolType, Items
  <2>2. QED
    BY <2>1 DEF WaitingOnce, Settles, GivesUp
<1>6. OneOwner'
  <2>1. ASSUME NEW u \in Task, where'[u] # None
        PROVE  where'[u] = where[u] /\ where[u] \in Member /\ where[u] # None /\ where[u] # m
    BY <2>1 DEF PoolType, GivesUp
  <2>2. ASSUME NEW u \in Task, where'[u] # None
        PROVE  /\ where'[u] \in inUse \cup destroyed'
               /\ creator'[where'[u]] = None
               /\ \A v \in Task : where'[v] = where'[u] => v = u
    BY <2>1, <2>2, <1>2 DEF OneOwner
  <2>3. ASSUME NEW n \in Member, creator'[n] # None
        PROVE  n \in inUse \cup destroyed' /\ (n \in inUse => client[n] = "connecting")
    BY <2>3, <1>2 DEF OneOwner
  <2>4. QED
    BY <2>2, <2>3 DEF OneOwner
<1>7. CloserAlone'
  BY DEF CloserAlone
<1>8. NoLeakedClient'
  BY DEF NoLeakedClient, Tracked
<1>9. QED
  BY <1>3, <1>4, <1>5, <1>6, <1>7, <1>8

(* A client that gave up is replaced while tasks wait. *)
LEMMA Replaced ==
    ASSUME PoolInv, NEW m \in inUse, NEW wh, GivesUp(m, wh), Settles,
           where' = wh, isOpen,
           Created(1, inUse \ {m}, Closed({m}), NotCreating(m)),
           UNCHANGED <<isOpen, idle, tasks, destroyed, destroyCount, closePromise, closer>>
    PROVE  PoolInv'
<1> USE DEF PoolInv
<1>1. m \in Member /\ m # None /\ m \notin destroyed /\ m \notin Items(idle)
  BY PoolAssumption DEF PoolType, ListsApart
<1>2. PICK F \in SUBSET Unused :
        /\ inUse' = (inUse \ {m}) \cup F /\ inUse' \in SUBSET Member
        /\ client' \in [Member -> ClientStates]
        /\ creator' \in [Member -> Reason \cup {None}]
        /\ \A n \in Member : client'[n] = IF n \in F THEN "connecting" ELSE Closed({m})[n]
        /\ \A n \in Member : n \notin F => creator'[n] = NotCreating(m)[n]
  BY DEF Created
<1>3. \A n \in F : /\ n \in Member
                   /\ n \notin inUse /\ n \notin destroyed /\ n \notin Items(idle)
                   /\ creator[n] = None
                   /\ \A t \in Task : where[t] # n
                   /\ \A k \in Closer : n \notin closer[k].awaits
  BY UnusedFree
<1>4. \A n \in Member : client'[n] = IF n \in F THEN "connecting"
                                     ELSE IF n = m THEN "closed" ELSE client[n]
  BY <1>2 DEF Closed
<1>5. \A n \in Member : n \notin F => creator'[n] = IF n = m THEN None ELSE creator[n]
  BY <1>1, <1>2 DEF NotCreating, PoolType
<1>6. PoolType'
  BY <1>2 DEF PoolType, ClientStates, Settles, GivesUp
<1>7. ListsApart'
  BY <1>2, <1>3 DEF ListsApart
<1>8. WaitingOnce'
  <2>1. Items(tasks) \subseteq Task
    BY DEF PoolType, Items
  <2>2. QED
    BY <2>1 DEF WaitingOnce, Settles, GivesUp
<1>9. OneOwner'
  <2>1. ASSUME NEW u \in Task, where'[u] # None
        PROVE  /\ where'[u] = where[u] /\ where[u] \in Member /\ where[u] # None
               /\ where[u] # m /\ where[u] \notin F
    BY <2>1, <1>3 DEF PoolType, GivesUp
  <2>2. ASSUME NEW u \in Task, where'[u] # None
        PROVE  /\ where'[u] \in inUse' \cup destroyed
               /\ creator'[where'[u]] = None
               /\ \A v \in Task : where'[v] = where'[u] => v = u
    BY <2>1, <2>2, <1>2, <1>5 DEF OneOwner
  <2>3. ASSUME NEW n \in Member, creator'[n] # None
        PROVE  n \in inUse' \cup destroyed /\ (n \in inUse' => client'[n] = "connecting")
    BY <2>3, <1>2, <1>4, <1>5 DEF OneOwner
  <2>4. QED
    BY <2>2, <2>3 DEF OneOwner
<1>10. CloserAlone'
  <2>1. Drains
    BY DrainSignal
  <2>2. Items(idle) \subseteq Member
    BY DEF PoolType, Items
  <2>3. \A n \in Items(idle) : client'[n] = client[n]
    BY <1>1, <1>3, <1>4, <2>2
  <2>4. QED
    BY <1>2, <1>3, <2>1, <2>3, CloserKept DEF CloserAlone
<1>11. NoLeakedClient'
  <2>1. \A n \in Member : n # m /\ n \in Tracked => n \in Tracked'
    BY <1>2 DEF Tracked
  <2>2. F \subseteq Tracked'
    BY <1>2 DEF Tracked
  <2>3. QED
    BY <1>4, <2>1, <2>2 DEF NoLeakedClient
<1>12. QED
  BY <1>6, <1>7, <1>8, <1>9, <1>10, <1>11

(* #returnClient *)
LEMMA ReturnClientStep ==
    ASSUME PoolInv, NEW m \in inUse \cup destroyed, NEW wh, GivesUp(m, wh), Settles,
           ReturnClient(m, wh), UNCHANGED <<isOpen, destroyCount, closePromise>>
    PROVE  PoolInv'
<1>1. CASE m \in destroyed
  <2>1. UNCHANGED <<idle, inUse, tasks, closer, client>> /\ where' = wh
        /\ destroyed' = destroyed \ {m} /\ creator' = NotCreating(m)
    BY <1>1 DEF ReturnClient, listVars
  <2>2. QED
    BY <1>1, <2>1, Forgotten
<1>2. CASE m \notin destroyed /\ client[m] = "terminated"
  <2>0. m \in inUse /\ m \in Member
    BY <1>2 DEF PoolInv, PoolType
  <2>1. ReturnTerminated(m) /\ where' = wh /\ UNCHANGED <<idle, tasks, destroyed>>
    BY <1>2 DEF ReturnClient, ReturnTerminated
  <2>2. isOpen
    BY <1>2, <2>0 DEF PoolInv, NoLeakedClient
  <2>3. CASE tasks # <<>>
    <3>1. Create(1, "replacement", inUse \ {m}, Closed({m}), NotCreating(m)) /\ closer' = closer
      BY <2>1, <2>3 DEF ReturnTerminated
    <3>2. inUse \ {m} \in SUBSET Member
      BY DEF PoolInv, PoolType
    <3>3. Closed({m}) \in [Member -> ClientStates]
      BY DEF PoolInv, PoolType, Closed, ClientStates
    <3>4. NotCreating(m) \in [Member -> Reason \cup {None}]
      BY DEF PoolInv, PoolType, NotCreating
    <3>5. "replacement" \in Task \cup {"connect", "replacement"}
      OBVIOUS
    <3>6. Created(1, inUse \ {m}, Closed({m}), NotCreating(m))
      BY <3>1, <3>2, <3>3, <3>4, <3>5, CreateEffect
    <3>7. QED
      BY <2>0, <2>1, <2>2, <3>1, <3>6, Replaced
  <2>4. CASE tasks = <<>>
    <3>1. /\ inUse' = inUse \ {m} /\ client' = Closed({m}) /\ creator' = NotCreating(m)
          /\ (SignalDrain /\ inUse' = {}) \/ closer' = closer
      BY <2>1, <2>4 DEF ReturnTerminated
    <3>2. Drains
      BY <3>1, DrainSignal DEF PoolInv
    <3>3. tasks' \in Seq(Task) /\ Items(tasks') \subseteq Items(tasks) /\ Distinct(tasks')
      BY <2>1 DEF PoolInv, PoolType, WaitingOnce
    <3>4. QED
      BY <2>0, <2>1, <3>1, <3>2, <3>3, Leaves
  <2>5. QED
    BY <2>3, <2>4
<1>3. CASE m \notin destroyed /\ client[m] # "terminated"
  <2>1. m \in inUse /\ UNCHANGED <<destroyed, client>> /\ creator' = NotCreating(m)
    BY <1>3 DEF ReturnClient
  <2>2. CASE BecomeIdle(m) /\ where' = wh
    BY <2>1, <2>2, Rests
  <2>3. CASE /\ tasks # <<>> /\ where' = [wh EXCEPT ![Head(tasks)] = m]
             /\ tasks' = Tail(tasks)
             /\ UNCHANGED <<idle, inUse, closer, cleanup>>
    BY <2>1, <2>3, HandedOn
  <2>4. QED
    BY <1>3, <2>2, <2>3 DEF ReturnClient
<1>4. QED
  BY <1>1, <1>2, <1>3

(* The promise of a task settles. *)
LEMMA TaskEndsStep ==
    ASSUME PoolInv, NEW t \in Task, TaskEnds(t)
    PROVE  PoolInv'
<1> DEFINE m == where[t]
           wh == [where EXCEPT ![t] = None]
<1>1. m # None /\ m \in Member /\ m \in inUse \cup destroyed
  BY DEF TaskEnds, PoolInv, PoolType, OneOwner
<1>2. GivesUp(m, wh)
  BY <1>1 DEF GivesUp, PoolInv, PoolType, OneOwner
<1>3. Settles
  BY DEF TaskEnds, Settled, Settles, PoolInv, PoolType
<1>4. ReturnClient(m, wh) /\ UNCHANGED <<isOpen, destroyCount, closePromise>>
  BY DEF TaskEnds
<1> HIDE DEF m, wh
<1>5. QED
  BY <1>1, <1>2, <1>3, <1>4, ReturnClientStep

(* A creation holds its client alone. *)
LEMMA CreationGivesUp ==
    ASSUME PoolInv, NEW m \in Member, creator[m] # None
    PROVE  m \in inUse \cup destroyed /\ GivesUp(m, where)
<1>1. m # None
  BY PoolAssumption
<1>2. QED
  BY <1>1 DEF PoolInv, PoolType, OneOwner, GivesUp

(* A client has connected. *)
LEMMA ConnectedStep ==
    ASSUME PoolInv, NEW m \in Member, Connected(m)
    PROVE  PoolInv'
<1>1. /\ creator[m] # None
      /\ UNCHANGED <<outcome, isOpen, destroyCount, closePromise>>
  BY DEF Connected
<1>2. m \in inUse \cup destroyed /\ GivesUp(m, where)
  BY <1>1, CreationGivesUp
<1>3. Settles
  BY <1>1 DEF Settles, PoolInv, PoolType
<1>4. CASE m \in destroyed /\ ReturnClient(m, where)
  BY <1>1, <1>2, <1>3, <1>4, ReturnClientStep
<1>5. CASE m \notin destroyed
  <2>1. /\ client[m] = "connecting" /\ destroyed' = destroyed
        /\ creator' = NotCreating(m)
        /\ client' = [client EXCEPT ![m] = "ready"]
        /\ m \in inUse
    BY <1>2, <1>5 DEF Connected
  <2>2. CASE BecomeIdle(m) /\ where' = where
    BY <1>1, <1>2, <1>3, <2>1, <2>2, Rests
  <2>3. CASE /\ tasks # <<>> /\ where' = [where EXCEPT ![Head(tasks)] = m]
             /\ tasks' = Tail(tasks)
             /\ UNCHANGED <<idle, inUse, closer, cleanup>>
    BY <1>1, <1>2, <1>3, <2>1, <2>3, HandedOn
  <2>4. QED
    BY <1>5, <2>2, <2>3 DEF Connected
<1>6. QED
  BY <1>4, <1>5 DEF Connected

(* The catch of #create. *)
LEMMA CreateFailedStep ==
    ASSUME PoolInv, NEW m \in Member, creator[m] # None, m \notin destroyed,
           NEW fallback \in SUBSET Task, CreateFailed(m, fallback)
    PROVE  PoolInv'
<1> DEFINE last == (IsClosing \/ creator[m].why = "replacement") /\ inUse = {m}
           rejected == (IF last THEN Items(tasks) ELSE {}) \cup fallback
<1>1. /\ inUse' = inUse \ {m} /\ client' = Closed({m}) /\ creator' = NotCreating(m)
      /\ tasks' = Filter(tasks, Task \ rejected)
      /\ outcome' = Settled(rejected)
      /\ IF last THEN SignalDrain ELSE closer' = closer
      /\ UNCHANGED <<idle, destroyed, isOpen, destroyCount, closePromise, where>>
  BY DEF CreateFailed
<1>2. last => inUse' = {}
  BY <1>1
<1> HIDE DEF last, rejected
<1>3. Drains
  BY <1>1, <1>2, DrainSignal DEF PoolInv
<1>4. m \in inUse /\ GivesUp(m, where)
  BY CreationGivesUp
<1>5. Settles
  BY <1>1 DEF Settles, Settled, PoolInv, PoolType
<1>6. tasks' \in Seq(Task) /\ Items(tasks') \subseteq Items(tasks) /\ Distinct(tasks')
  <2>1. tasks \in Seq(Task) /\ Distinct(tasks)
    BY DEF PoolInv, PoolType, WaitingOnce
  <2>2. QED
    BY <1>1, <2>1, FilterItems
<1>7. QED
  BY <1>1, <1>3, <1>4, <1>5, <1>6, Leaves

(* client.connect() was rejected. *)
LEMMA ConnectFailsStep ==
    ASSUME PoolInv, NEW m \in Member, ConnectFails(m)
    PROVE  PoolInv'
<1>1. creator[m] # None
  BY DEF ConnectFails
<1>2. CASE m \in destroyed
  <2>1. /\ destroyed' = destroyed \ {m} /\ creator' = NotCreating(m)
        /\ UNCHANGED <<idle, inUse, tasks, isOpen, destroyCount, closePromise, closer,
                       where, outcome, client>>
    BY <1>2 DEF ConnectFails, listVars, closeVars, taskVars
  <2>2. GivesUp(m, where)
    BY <1>1, CreationGivesUp
  <2>3. Settles
    BY <2>1 DEF Settles, PoolInv, PoolType
  <2>4. QED
    BY <1>2, <2>1, <2>2, <2>3, Forgotten
<1>3. CASE m \notin destroyed
  <2>1. CASE DestroyPool(NotCreating(m))
    BY <2>1, DestroyStep
  <2>2. CASE creator[m].why \in Task /\ CreateFailed(m, {creator[m].why})
    <3>1. {creator[m].why} \in SUBSET Task
      BY <2>2
    <3>2. QED
      BY <1>1, <1>3, <2>2, <3>1, CreateFailedStep
  <2>3. CASE CreateFailed(m, {})
    <3>1. {} \in SUBSET Task
      OBVIOUS
    <3>2. QED
      BY <1>1, <1>3, <2>3, <3>1, CreateFailedStep
  <2>4. QED
    BY <1>3, <2>1, <2>2, <2>3 DEF ConnectFails
<1>4. QED
  BY <1>2, <1>3

(* The first idle client that has not given up, and those before it. *)
LEMMA TakeIdle ==
    ASSUME NEW S, NEW s \in Seq(S), Distinct(s), NEW n \in 0..Len(s), n < Len(s)
    PROVE  /\ s[n + 1] \in Items(s) /\ s[n + 1] \in S
           /\ s[n + 1] \notin Items(SubSeq(s, 1, n))
           /\ SubSeq(s, n + 2, Len(s)) \in Seq(S)
           /\ Distinct(SubSeq(s, n + 2, Len(s)))
           /\ s[n + 1] \notin Items(SubSeq(s, n + 2, Len(s)))
           /\ Items(s) = Items(SubSeq(s, 1, n)) \cup {s[n + 1]} \cup Items(SubSeq(s, n + 2, Len(s)))
           /\ Items(SubSeq(s, 1, n)) \cap Items(SubSeq(s, n + 2, Len(s))) = {}
<1> DEFINE b == SubSeq(s, n + 1, Len(s))
           a == SubSeq(s, 1, n)
           c == SubSeq(s, n + 2, Len(s))
<1>1. b \in Seq(S) /\ Items(s) = Items(a) \cup Items(b) /\ Distinct(b) /\ Items(a) \cap Items(b) = {}
  BY SplitItems
<1>2. Len(s) \in Nat /\ n \in Nat
  OBVIOUS
<1>3. b # <<>> /\ Head(b) = s[n + 1] /\ Tail(b) = c
  <2>1. Len(b) = Len(s) - n
    BY <1>2
  <2>2. \A i \in 1..Len(b) : b[i] = s[n + i]
    BY <1>2
  <2>3. Tail(b) = c
    BY <1>2, <2>1
  <2>4. 1 \in 1..Len(b) /\ Len(b) > 0
    BY <1>2, <2>1
  <2>5. b[1] = s[n + 1]
    BY <2>2, <2>4
  <2> HIDE DEF b
  <2>6. b # <<>> /\ Head(b) = b[1]
    BY <1>1, <2>4
  <2>7. QED
    BY <2>3, <2>5, <2>6
<1> HIDE DEF a, b, c
<1>4. Head(b) \in S /\ Tail(b) \in Seq(S) /\ Items(b) = {Head(b)} \cup Items(Tail(b))
      /\ Distinct(Tail(b)) /\ Head(b) \notin Items(Tail(b))
  BY ONLY <1>1, <1>3, TailItems
<1>5. QED
  BY <1>1, <1>3, <1>4 DEF a, c

(* A task takes an idle client. *)
LEMMA Borrows ==
    ASSUME PoolInv, NEW t \in Task, outcome[t] = "unused", ~IsClosing,
           outcome' = [outcome EXCEPT ![t] = "pending"],
           NEW n \in 0..Len(idle), n < Len(idle),
           idle' = SubSeq(idle, n + 2, Len(idle)),
           inUse' = inUse \cup {idle[n + 1]},
           where' = [where EXCEPT ![t] = idle[n + 1]],
           client' = Closed(Items(SubSeq(idle, 1, n))),
           UNCHANGED <<isOpen, tasks, destroyed, destroyCount, closePromise, closer, creator>>
    PROVE  PoolInv'
<1> USE DEF PoolInv
<1> DEFINE A == Items(SubSeq(idle, 1, n))
           x == idle[n + 1]
<1>1. /\ x \in Items(idle) /\ x \in Member /\ x \notin A
      /\ idle' \in Seq(Member) /\ Distinct(idle') /\ x \notin Items(idle')
      /\ Items(idle) = A \cup {x} \cup Items(idle')
      /\ A \cap Items(idle') = {}
  BY TakeIdle DEF PoolType, ListsApart
<1> HIDE DEF A, x
<1>2. inUse' = inUse \cup {x} /\ where' = [where EXCEPT ![t] = x] /\ client' = Closed(A)
  BY DEF A, x
<1>3. x # None /\ x \notin inUse /\ x \notin destroyed
  BY <1>1, PoolAssumption DEF ListsApart
<1>4. \A m \in Member : client'[m] = IF m \in A THEN "closed" ELSE client[m]
  BY <1>2 DEF Closed
<1>5. t \notin Items(tasks) /\ where[t] = None
  BY DEF WaitingOnce
<1>6. \A u \in Task : where'[u] = IF u = t THEN x ELSE where[u]
  BY <1>2 DEF PoolType
<1>7. \A u \in Task : where[u] # x
  BY <1>3 DEF OneOwner
<1>8. creator[x] = None
  BY <1>1, <1>3 DEF OneOwner
<1>9. PoolType'
  <2>1. where' \in [Task -> Member \cup {None}]
    BY <1>1, <1>2 DEF PoolType
  <2>2. client' \in [Member -> {"closed", "connecting", "ready", "down", "terminated", "closing"}]
    BY <1>2 DEF PoolType, Closed
  <2>3. QED
    BY <1>1, <1>2, <2>1, <2>2 DEF PoolType
<1>10. ListsApart'
  BY <1>1, <1>2, <1>3 DEF ListsApart
<1>11. WaitingOnce'
  <2>1. Items(tasks) \subseteq Task
    BY DEF PoolType, Items
  <2>2. QED
    BY <1>5, <1>6, <2>1 DEF WaitingOnce, PoolType
<1>12. OneOwner'
  <2>1. ASSUME NEW u \in Task, where'[u] # None
        PROVE  /\ where'[u] \in inUse' \cup destroyed
               /\ creator[where'[u]] = None
               /\ \A v \in Task : where'[v] = where'[u] => v = u
    BY <2>1, <1>2, <1>6, <1>7, <1>8 DEF OneOwner
  <2>2. ASSUME NEW m \in Member, creator[m] # None
        PROVE  m \in inUse' \cup destroyed /\ (m \in inUse' => client'[m] = "connecting")
    <3>1. m # x /\ m \in inUse \cup destroyed /\ (m \in inUse => client[m] = "connecting")
      BY <2>2, <1>8 DEF OneOwner
    <3>2. m \in inUse => m \notin A
      BY <1>1 DEF ListsApart
    <3>3. QED
      BY <3>1, <3>2, <1>2, <1>4
  <2>3. QED
    BY <2>1, <2>2 DEF OneOwner
<1>13. CloserAlone'
  <2>1. Drains
    BY DrainSignal
  <2>2. closePromise = None
    BY DEF IsClosing
  <2>3. \A k \in Closer : x \notin closer[k].awaits
    <3>1. SUFFICES ASSUME NEW k \in Closer, x \in closer[k].awaits PROVE FALSE
      OBVIOUS
    <3>2. closer[k].pc = "closing" /\ closer[k].count = destroyCount
      BY <1>1, <3>1 DEF CloserAlone
    <3>3. closePromise = k
      BY <3>2 DEF CloserAlone
    <3>4. QED
      BY <2>2, <3>3, PoolAssumption
  <2>4. Items(idle) \subseteq Member
    BY DEF PoolType, Items
  <2>5. QED
    BY <1>1, <1>2, <1>4, <2>1, <2>2, <2>3, <2>4, CloserKept
<1>14. NoLeakedClient'
  <2>1. \A m \in Member : m \in Tracked => m \in Tracked' \/ m \in A
    BY <1>1, <1>2 DEF Tracked
  <2>2. QED
    BY <1>4, <2>1 DEF NoLeakedClient
<1>15. QED
  BY <1>9, <1>10, <1>11, <1>12, <1>13, <1>14

(* A task waits, and the clients of F are created. *)
LEMMA Waits ==
    ASSUME PoolInv, NEW t \in Task, outcome[t] = "unused", ~IsClosing, isOpen,
           outcome' = [outcome EXCEPT ![t] = "pending"],
           idle' = <<>>, tasks' = Append(tasks, t),
           NEW F \in SUBSET Unused,
           inUse' = inUse \cup F, inUse' \in SUBSET Member,
           client' \in [Member -> ClientStates],
           creator' \in [Member -> Reason \cup {None}],
           \A m \in Member : client'[m] = IF m \in F THEN "connecting" ELSE Closed(Items(idle))[m],
           \A m \in Member : m \notin F => creator'[m] = creator[m],
           UNCHANGED <<isOpen, where, destroyed, destroyCount, closePromise, closer>>
    PROVE  PoolInv'
<1> USE DEF PoolInv
<1>1. \A m \in F : /\ m \in Member
                   /\ m \notin inUse /\ m \notin destroyed /\ m \notin Items(idle)
                   /\ creator[m] = None
                   /\ \A u \in Task : where[u] # m
                   /\ \A k \in Closer : m \notin closer[k].awaits
  BY UnusedFree
<1>2. t \notin Items(tasks) /\ where[t] = None
  BY DEF WaitingOnce
<1>3. tasks' \in Seq(Task) /\ Items(tasks') = Items(tasks) \cup {t} /\ Distinct(tasks')
  BY <1>2, AppendItems DEF PoolType, WaitingOnce
<1>4. Items(idle') = {} /\ Distinct(idle') /\ idle' \in Seq(Member)
  BY DEF Items, Distinct
<1>5. \A m \in Member : client'[m] = IF m \in F THEN "connecting"
                                     ELSE IF m \in Items(idle) THEN "closed" ELSE client[m]
  BY DEF Closed
<1>6. PoolType'
  <2>1. outcome' \in [Task -> {"unused", "pending", "settled"}]
    BY DEF PoolType
  <2>2. QED
    BY <1>3, <1>4, <2>1 DEF PoolType, ClientStates
<1>7. ListsApart'
  BY <1>1, <1>4 DEF ListsApart
<1>8. WaitingOnce'
  BY <1>2, <1>3 DEF WaitingOnce, PoolType
<1>9. OneOwner'
  <2>1. ASSUME NEW u \in Task, where[u] # None PROVE where[u] \in Member \ F
    BY <2>1, <1>1 DEF PoolType
  <2>2. ASSUME NEW m \in Member, creator'[m] # None
        PROVE  m \in inUse' \cup destroyed /\ (m \in inUse' => client'[m] = "connecting")
    BY <2>2, <1>5 DEF OneOwner, ListsApart
  <2>3. ASSUME NEW u \in Task, where[u] # None
        PROVE  /\ where[u] \in inUse' \cup destroyed
               /\ creator'[where[u]] = None
               /\ \A v \in Task : where[v] = where[u] => v = u
    BY <2>1, <2>3 DEF OneOwner
  <2>4. QED
    BY <2>2, <2>3 DEF OneOwner
<1>10. CloserAlone'
  <2>1. Drains
    BY DrainSignal
  <2>2. closePromise = None
    BY DEF IsClosing
  <2>3. Items(idle) \subseteq Member
    BY DEF PoolType, Items
  <2>4. \A m \in Items(idle) : client'[m] = "closed"
    BY <1>1, <1>5, <2>3
  <2>5. QED
    BY <1>1, <1>4, <2>1, <2>2, <2>4, CloserKept
<1>11. NoLeakedClient'
  <2>1. \A m \in Member : m \in Tracked => m \in inUse' \/ m \in Items(idle)
    BY DEF Tracked
  <2>2. inUse' \subseteq Tracked' /\ F \subseteq inUse'
    BY DEF Tracked
  <2>3. QED
    BY <1>5, <2>1, <2>2 DEF NoLeakedClient
<1>12. QED
  BY <1>6, <1>7, <1>8, <1>9, <1>10, <1>11

(* execute() *)
LEMMA ExecuteStep ==
    ASSUME PoolInv, NEW t \in Task, Execute(t)
    PROVE  PoolInv'
<1>1. /\ outcome[t] = "unused"
      /\ UNCHANGED <<isOpen, destroyCount, closePromise, closer, destroyed>>
  BY DEF Execute, closeVars, markVars
<1>2. CASE IsClosing \/ ~isOpen
  <2>1. outcome' = Settled({t}) /\ UNCHANGED <<idle, inUse, tasks, where, creator, client>>
    BY <1>2 DEF Execute, listVars
  <2>2. {t} \in SUBSET Task
    OBVIOUS
  <2>3. QED
    BY <1>1, <2>1, <2>2, TasksRemoved
<1>3. CASE ~IsClosing /\ isOpen
  <2>1. outcome' = [outcome EXCEPT ![t] = "pending"]
    BY <1>3 DEF Execute
  <2>2. PICK n \in 0..Len(idle) :
          LET cl == Closed(Items(SubSeq(idle, 1, n))) IN
             /\ idle' = SubSeq(idle, n + 2, Len(idle))
             /\ IF n < Len(idle)
                THEN /\ inUse' = inUse \cup {idle[n + 1]}
                     /\ where' = [where EXCEPT ![t] = idle[n + 1]]
                     /\ client' = cl
                     /\ UNCHANGED <<tasks, creator>>
                ELSE /\ tasks' = Append(tasks, t)
                     /\ UNCHANGED where
                     /\ IF HasRoom
                        THEN Create(1, t, inUse, cl, creator)
                        ELSE client' = cl /\ UNCHANGED <<inUse, creator>>
    BY <1>3 DEF Execute
  <2>3. CASE n < Len(idle)
    <3>1. /\ idle' = SubSeq(idle, n + 2, Len(idle))
          /\ inUse' = inUse \cup {idle[n + 1]}
          /\ where' = [where EXCEPT ![t] = idle[n + 1]]
          /\ client' = Closed(Items(SubSeq(idle, 1, n)))
          /\ UNCHANGED <<tasks, creator>>
      BY <2>2, <2>3
    <3>2. QED
      BY <1>1, <1>3, <2>1, <2>3, <3>1, Borrows
  <2>4. CASE ~(n < Len(idle))
    <3>0. idle \in Seq(Member) /\ client \in [Member -> ClientStates] /\ inUse \in SUBSET Member
          /\ creator \in [Member -> Reason \cup {None}]
      BY DEF PoolInv, PoolType, ClientStates
    <3>1. n = Len(idle)
      BY <2>4, <3>0
    <3>2. SubSeq(idle, 1, n) = idle /\ SubSeq(idle, n + 2, Len(idle)) = <<>>
      BY <3>0, <3>1
    <3> DEFINE cl == Closed(Items(idle))
    <3>3. /\ idle' = <<>> /\ tasks' = Append(tasks, t) /\ where' = where
          /\ IF HasRoom THEN Create(1, t, inUse, cl, creator)
             ELSE client' = cl /\ UNCHANGED <<inUse, creator>>
      BY <2>2, <2>4, <3>2
    <3>4. cl \in [Member -> ClientStates]
      BY <3>0 DEF Closed, ClientStates
    <3> HIDE DEF cl
    <3>5. \E F \in SUBSET Unused :
            /\ inUse' = inUse \cup F /\ inUse' \in SUBSET Member
            /\ client' \in [Member -> ClientStates]
            /\ creator' \in [Member -> Reason \cup {None}]
            /\ \A m \in Member : client'[m] = IF m \in F THEN "connecting" ELSE cl[m]
            /\ \A m \in Member : m \notin F => creator'[m] = creator[m]
      <4>1. CASE HasRoom
        <5>1. Create(1, t, inUse, cl, creator) /\ t \in Task \cup {"connect", "replacement"}
          BY <3>3, <4>1
        <5>2. Created(1, inUse, cl, creator)
          BY <3>0, <3>4, <5>1, CreateEffect
        <5>3. QED
          BY <5>2 DEF Created
      <4>2. CASE ~HasRoom
        <5>1. client' = cl /\ inUse' = inUse /\ creator' = creator
          BY <3>3, <4>2
        <5>2. {} \in SUBSET Unused
          OBVIOUS
        <5>3. QED
          BY <3>0, <3>4, <5>1, <5>2
      <4>3. QED
        BY <4>1, <4>2
    <3>6. QED
      BY <1>1, <1>3, <2>1, <3>3, <3>5, Waits DEF cl
  <2>5. QED
    BY <2>3, <2>4
<1>4. QED
  BY <1>2, <1>3

(* A pool that nobody has connected yet. *)
LEMMA InitPool == PoolInit => PoolInv
<1>1. SUFFICES ASSUME PoolInit PROVE PoolInv
  OBVIOUS
<1> USE DEF PoolInit
<1>2. Items(idle) = {} /\ Items(tasks) = {} /\ Distinct(idle) /\ Distinct(tasks)
  BY <1>1 DEF Items, Distinct
<1>3. PoolType
  <2>1. idle \in Seq(Member) /\ tasks \in Seq(Task)
    BY <1>1
  <2>2. NotClosing \in Closing
    BY DEF NotClosing, Closing
  <2>3. closer \in [Closer -> Closing]
    BY <1>1, <2>2
  <2>4. QED
    BY <1>1, <2>1, <2>3 DEF PoolType
<1>4. ListsApart /\ WaitingOnce /\ OneOwner /\ NoLeakedClient
  BY <1>1, <1>2 DEF ListsApart, WaitingOnce, OneOwner, NoLeakedClient
<1>5. CloserAlone
  BY <1>1, <1>2 DEF CloserAlone, NotClosing
<1>6. QED
  BY <1>3, <1>4, <1>5 DEF PoolInv

(* Every step of the pool keeps its invariant. *)
LEMMA NextPool == PoolInv /\ [PoolNext]_vars => PoolInv'
<1>1. SUFFICES ASSUME PoolInv, [PoolNext]_vars PROVE PoolInv'
  OBVIOUS
<1>2. CASE UNCHANGED vars
  <2>1. UNCHANGED <<isOpen, idle, inUse, tasks, destroyed, destroyCount, closePromise, closer,
                    where, outcome, creator, client>>
    BY <1>2 DEF vars, listVars, markVars, closeVars, taskVars
  <2>2. QED
    BY <1>1, <2>1 DEF PoolInv, PoolType, ListsApart, WaitingOnce, OneOwner, CloserAlone,
                      NoLeakedClient, Tracked
<1>3. CASE Connect \/ Cleanup \/ RejectQueued \/ Destroy
  <2>1. Destroy => PoolInv'
    BY <1>1, DestroyStep DEF Destroy
  <2>2. QED
    BY <1>1, <1>3, <2>1, ConnectStep, CleanupStep, RejectQueuedStep
<1>4. CASE \E t \in Task : Execute(t) \/ TimesOut(t) \/ TaskEnds(t)
  BY <1>1, <1>4, ExecuteStep, TimesOutStep, TaskEndsStep
<1>5. CASE \E m \in Member : Creation(m) \/ ClientDown(m) \/ ClientUp(m) \/ ClientTerminates(m)
  BY <1>1, <1>5, ConnectedStep, ConnectFailsStep, ClientSteps DEF Creation
<1>6. CASE \E k \in Closer : Close(k) \/ CloserStep(k)
  BY <1>1, <1>6, CloseStep, StartCloseStep, CloseClientsStep, ClientClosesStep, FinishCloseStep
     DEF CloserStep
<1>7. QED
  BY <1>1, <1>2, <1>3, <1>4, <1>5, <1>6 DEF PoolNext

(* However tasks, timeouts, reconnections, replacements, close() and       *)
(* destroy() interleave, no two tasks ever run on one client of the pool   *)
(* (pool.ts #executeTask, #returnClient and #create).                      *)
THEOREM TasksAreExclusive == PoolSpec => []Exclusive
<1>1. PoolInv => Exclusive
  BY DEF PoolInv, OneOwner, ListsApart, Exclusive
<1>2. QED
  BY <1>1, InitPool, NextPool, PTL DEF PoolSpec

(* The pool never loses track of a client that has a connection, so that   *)
(* close() and destroy() reach all of them.                                *)
THEOREM ClientsAreTracked == PoolSpec => []NoLeakedClient
<1>1. PoolInv => NoLeakedClient
  BY DEF PoolInv
<1>2. QED
  BY <1>1, InitPool, NextPool, PTL DEF PoolSpec
-----------------------------------------------------------------------------
(* The size of the pool.                                                   *)

SizeInv == ClosedIsEmpty /\ WithinMaximum

(* A client moves from those in use to the idle ones. *)
LEMMA IdleSize ==
    ASSUME PoolInv, SizeInv, NEW m \in inUse, BecomeIdle(m), isOpen' = isOpen
    PROVE  SizeInv'
<1>1. /\ inUse' = inUse \ {m} /\ Len(idle') = Len(idle) + 1 /\ Len(idle) \in Nat
  BY DEF BecomeIdle, PoolInv, PoolType
<1>2. IsFiniteSet(inUse) /\ Cardinality(inUse) \in Nat
  BY InUseFinite DEF PoolInv
<1>3. Cardinality(inUse') = Cardinality(inUse) - 1
  BY <1>1, <1>2, FS_RemoveElement
<1>4. isOpen
  BY DEF SizeInv, ClosedIsEmpty
<1>5. QED
  BY <1>1, <1>2, <1>3, <1>4, PoolAssumption DEF SizeInv, ClosedIsEmpty, WithinMaximum

(* A client that was in use is not any more, and n new ones are. *)
LEMMA LeaveSize ==
    ASSUME PoolInv, SizeInv, NEW m \in inUse, isOpen' = isOpen, idle' = idle,
           \/ inUse' = inUse \ {m}
           \/ \E F : Cardinality(F) = 1 /\ F \in SUBSET Unused /\ inUse' = (inUse \ {m}) \cup F
    PROVE  SizeInv'
<1>1. IsFiniteSet(inUse) /\ Cardinality(inUse) \in Nat
  BY InUseFinite DEF PoolInv
<1>2. IsFiniteSet(inUse \ {m}) /\ Cardinality(inUse \ {m}) = Cardinality(inUse) - 1
  BY <1>1, FS_RemoveElement
<1>3. isOpen
  BY DEF SizeInv, ClosedIsEmpty
<1>4. Cardinality(inUse') <= Cardinality(inUse) /\ Cardinality(inUse') \in Int
  <2>1. CASE inUse' = inUse \ {m}
    BY <1>1, <1>2, <2>1
  <2>2. ASSUME NEW F, Cardinality(F) = 1, F \in SUBSET Unused, inUse' = (inUse \ {m}) \cup F
        PROVE  Cardinality(inUse') <= Cardinality(inUse) /\ Cardinality(inUse') \in Int
    <3>1. IsFiniteSet(F)
      <4>1. F \in SUBSET Member
        BY <2>2 DEF Unused
      <4>2. QED
        BY <4>1, PoolAssumption, FS_Subset
    <3>2. PICK x : F = {x}
      BY <2>2, <3>1, FS_Singleton
    <3>3. Cardinality((inUse \ {m}) \cup {x}) =
            IF x \in inUse \ {m} THEN Cardinality(inUse \ {m}) ELSE Cardinality(inUse \ {m}) + 1
      BY <1>2, FS_AddElement
    <3>4. QED
      BY <1>1, <1>2, <2>2, <3>2, <3>3
  <2>3. QED
    BY <2>1, <2>2
<1>5. Len(idle) \in Nat
  BY DEF PoolInv, PoolType
<1>6. QED
  BY <1>1, <1>3, <1>4, <1>5, PoolAssumption DEF SizeInv, ClosedIsEmpty, WithinMaximum

(* #returnClient *)
LEMMA ReturnSize ==
    ASSUME PoolInv, SizeInv, NEW m \in inUse \cup destroyed, NEW wh, ReturnClient(m, wh),
           isOpen' = isOpen
    PROVE  SizeInv'
<1>1. CASE UNCHANGED <<idle, inUse>>
  BY <1>1 DEF SizeInv, ClosedIsEmpty, WithinMaximum
<1>2. CASE m \notin destroyed /\ ReturnTerminated(m)
  <2>1. m \in inUse /\ idle' = idle
    BY <1>2 DEF ReturnTerminated
  <2>2. \/ inUse' = inUse \ {m}
        \/ \E F : Cardinality(F) = 1 /\ F \in SUBSET Unused /\ inUse' = (inUse \ {m}) \cup F
    <3>1. CASE inUse' = inUse \ {m}
      BY <3>1
    <3>2. CASE Create(1, "replacement", inUse \ {m}, Closed({m}), NotCreating(m))
      <4>1. Fresh(1) \in SUBSET Unused /\ Cardinality(Fresh(1)) = 1
            /\ inUse' = (inUse \ {m}) \cup Fresh(1)
        BY <3>2, FreshUnused DEF Create
      <4>2. QED
        BY <4>1
    <3>3. QED
      BY <1>2, <3>1, <3>2 DEF ReturnTerminated
  <2>3. QED
    BY <2>1, <2>2, LeaveSize
<1>3. CASE m \notin destroyed /\ BecomeIdle(m)
  BY <1>3, IdleSize
<1>4. QED
  BY <1>1, <1>2, <1>3 DEF ReturnClient, listVars

(* execute() lends an idle client, or creates one when there is room. *)
LEMMA ExecuteSize ==
    ASSUME PoolInv, SizeInv, NEW t \in Task, Execute(t)
    PROVE  SizeInv'
<1>1. isOpen' = isOpen
  BY DEF Execute, closeVars
<1>2. CASE UNCHANGED <<idle, inUse>>
  BY <1>1, <1>2 DEF SizeInv, ClosedIsEmpty, WithinMaximum
<1>3. ASSUME isOpen, NEW n \in 0..Len(idle),
             idle' = SubSeq(idle, n + 2, Len(idle)),
             \/ n < Len(idle) /\ inUse' = inUse \cup {idle[n + 1]}
             \/ ~(n < Len(idle)) /\ HasRoom /\ \E F \in SUBSET Unused : Cardinality(F) = 1 /\ inUse' = inUse \cup F
             \/ ~(n < Len(idle)) /\ inUse' = inUse
      PROVE  SizeInv'
  <2>1. IsFiniteSet(inUse) /\ Cardinality(inUse) \in Nat /\ Len(idle) \in Nat /\ Maximum \in Nat
        /\ Len(idle) + Cardinality(inUse) <= Maximum
    BY InUseFinite, PoolAssumption DEF PoolInv, PoolType, SizeInv, WithinMaximum
  <2>2. Len(idle') = IF n + 2 <= Len(idle) THEN Len(idle) - n - 1 ELSE 0
    BY <1>3 DEF PoolInv, PoolType
  <2>3. CASE n < Len(idle) /\ inUse' = inUse \cup {idle[n + 1]}
    <3>1. Cardinality(inUse') = IF idle[n + 1] \in inUse THEN Cardinality(inUse) ELSE Cardinality(inUse) + 1
      BY <2>1, <2>3, FS_AddElement
    <3>2. Len(idle') + Cardinality(inUse') <= Maximum
      BY <2>1, <2>2, <2>3, <3>1
    <3>3. QED
      BY <1>1, <1>3, <3>2 DEF SizeInv, ClosedIsEmpty, WithinMaximum
  <2>4. ASSUME ~(n < Len(idle)), HasRoom, NEW F \in SUBSET Unused, Cardinality(F) = 1,
               inUse' = inUse \cup F
        PROVE  SizeInv'
    <3>1. IsFiniteSet(F)
      <4>1. F \in SUBSET Member
        BY DEF Unused
      <4>2. QED
        BY <4>1, PoolAssumption, FS_Subset
    <3>2. PICK x : F = {x}
      BY <2>4, <3>1, FS_Singleton
    <3>3. Cardinality(inUse \cup {x}) = IF x \in inUse THEN Cardinality(inUse) ELSE Cardinality(inUse) + 1
      BY <2>1, FS_AddElement
    <3>4. Len(idle') + Cardinality(inUse') <= Maximum
      BY <2>1, <2>2, <2>4, <3>2, <3>3 DEF HasRoom
    <3>5. QED
      BY <1>1, <1>3, <3>4 DEF SizeInv, ClosedIsEmpty, WithinMaximum
  <2>5. CASE ~(n < Len(idle)) /\ inUse' = inUse
    <3>1. Len(idle') + Cardinality(inUse') <= Maximum
      BY <2>1, <2>2, <2>5
    <3>2. QED
      BY <1>1, <1>3, <3>1 DEF SizeInv, ClosedIsEmpty, WithinMaximum
  <2>6. QED
    BY <1>3, <2>3, <2>4, <2>5
<1>4. CASE ~(IsClosing \/ ~isOpen)
  <2>1. PICK n \in 0..Len(idle) :
          LET cl == Closed(Items(SubSeq(idle, 1, n))) IN
             /\ idle' = SubSeq(idle, n + 2, Len(idle))
             /\ IF n < Len(idle)
                THEN inUse' = inUse \cup {idle[n + 1]}
                ELSE IF HasRoom
                     THEN Create(1, t, inUse, cl, creator)
                     ELSE inUse' = inUse
    BY <1>4 DEF Execute
  <2>2. Create(1, t, inUse, Closed(Items(SubSeq(idle, 1, n))), creator) =>
          \E F \in SUBSET Unused : Cardinality(F) = 1 /\ inUse' = inUse \cup F
    BY FreshUnused DEF Create
  <2>3. QED
    BY <1>3, <1>4, <2>1, <2>2
<1>5. QED
  BY <1>2, <1>4 DEF Execute, listVars

(* connect() creates no more than the minimum, in a pool that is empty. *)
LEMMA ConnectSize ==
    ASSUME PoolInv, SizeInv, Connect
    PROVE  SizeInv'
<1>1. idle' = idle /\ isOpen' = TRUE /\ inUse = {} /\ idle = <<>>
  BY DEF Connect, SizeInv, ClosedIsEmpty
<1>2. Cardinality(Fresh(Minimum)) = Minimum /\ inUse' = inUse \cup Fresh(Minimum)
  BY FreshUnused DEF Connect, Create
<1>3. inUse' = Fresh(Minimum)
  BY <1>1, <1>2
<1>4. Len(idle') = 0
  BY <1>1
<1>5. QED
  BY <1>1, <1>2, <1>3, <1>4, PoolAssumption DEF SizeInv, ClosedIsEmpty, WithinMaximum

(* Every step keeps the pool within its maximum. *)
LEMMA NextSize == PoolInv /\ SizeInv /\ [PoolNext]_vars => SizeInv'
<1>1. SUFFICES ASSUME PoolInv, SizeInv, [PoolNext]_vars PROVE SizeInv'
  OBVIOUS
<1>2. CASE UNCHANGED <<isOpen, idle, inUse>>
  BY <1>1, <1>2 DEF SizeInv, ClosedIsEmpty, WithinMaximum
<1>3. CASE idle' = <<>> /\ inUse' = {}
  <2>1. Len(idle') = 0 /\ Cardinality(inUse') = 0
    BY <1>3, FS_EmptySet
  <2>2. QED
    BY <1>3, <2>1, PoolAssumption DEF SizeInv, ClosedIsEmpty, WithinMaximum
<1>4. ASSUME NEW cr, DestroyPool(cr) PROVE SizeInv'
  BY <1>3, <1>4 DEF DestroyPool
<1>5. CASE Cleanup
  <2>1. isOpen' = isOpen /\ inUse' = inUse
    BY <1>5 DEF Cleanup, closeVars
  <2>2. CASE idle' = idle
    BY <1>2, <2>1, <2>2
  <2>3. CASE idle' # idle
    <3> DEFINE surplus == Len(idle) + Cardinality(inUse) - Minimum
               d == IF surplus < Len(idle) THEN surplus ELSE Len(idle)
    <3>1. d > 0 /\ idle' = SubSeq(idle, d + 1, Len(idle))
      BY <1>5, <2>3 DEF Cleanup
    <3>2. Cardinality(inUse) \in Nat /\ Minimum \in Nat /\ Len(idle) \in Nat /\ idle \in Seq(Member)
      BY <1>1, InUseFinite, PoolAssumption DEF PoolInv, PoolType
    <3>3. d \in 0..Len(idle)
      BY <3>1, <3>2
    <3> HIDE DEF d
    <3>4. Len(idle') = Len(idle) - d
      BY <3>1, <3>2, <3>3, SplitItems
    <3>5. isOpen
      <4>1. idle # <<>>
        BY <3>1, <3>2, <3>3
      <4>2. QED
        BY <1>1, <4>1 DEF SizeInv, ClosedIsEmpty
    <3>6. QED
      BY <1>1, <2>1, <3>2, <3>3, <3>4, <3>5, PoolAssumption DEF SizeInv, ClosedIsEmpty, WithinMaximum
  <2>4. QED
    BY <2>2, <2>3
<1>6. CASE RejectQueued
  BY <1>2, <1>6 DEF RejectQueued, closeVars
<1>7. ASSUME NEW t \in Task, Execute(t) \/ TimesOut(t) \/ TaskEnds(t) PROVE SizeInv'
  <2>1. CASE TimesOut(t)
    BY <1>2, <2>1 DEF TimesOut, closeVars
  <2>2. CASE TaskEnds(t)
    <3>1. where[t] \in inUse \cup destroyed
      BY <1>1, <2>2 DEF TaskEnds, PoolInv, OneOwner
    <3>2. isOpen' = isOpen /\ ReturnClient(where[t], [where EXCEPT ![t] = None])
      BY <2>2 DEF TaskEnds
    <3>3. QED
      BY <1>1, <3>1, <3>2, ReturnSize
  <2>3. QED
    BY <1>1, <1>7, <2>1, <2>2, ExecuteSize
<1>8. ASSUME NEW m \in Member, Connected(m) PROVE SizeInv'
  <2>1. isOpen' = isOpen /\ m \in inUse \cup destroyed
    BY <1>1, <1>8, CreationGivesUp DEF Connected
  <2>2. CASE ReturnClient(m, where)
    BY <1>1, <2>1, <2>2, ReturnSize
  <2>3. CASE m \notin destroyed /\ BecomeIdle(m)
    BY <1>1, <2>1, <2>3, IdleSize
  <2>4. CASE UNCHANGED <<idle, inUse>>
    BY <1>2, <2>1, <2>4
  <2>5. QED
    BY <1>8, <2>2, <2>3, <2>4 DEF Connected
<1>9. ASSUME NEW m \in Member, ConnectFails(m) PROVE SizeInv'
  <2>1. m \in inUse \cup destroyed
    BY <1>1, <1>9, CreationGivesUp DEF ConnectFails
  <2>2. CASE m \in destroyed
    BY <1>2, <1>9, <2>2 DEF ConnectFails, listVars, closeVars
  <2>3. CASE DestroyPool(NotCreating(m))
    BY <1>4, <2>3
  <2>4. ASSUME NEW f, CreateFailed(m, f), m \notin destroyed PROVE SizeInv'
    <3>1. inUse' = inUse \ {m} /\ idle' = idle /\ isOpen' = isOpen
      BY <2>4 DEF CreateFailed
    <3>2. QED
      BY <1>1, <2>1, <2>4, <3>1, LeaveSize
  <2>5. QED
    BY <1>9, <2>2, <2>3, <2>4 DEF ConnectFails
<1>10. ASSUME NEW m \in Member, ClientDown(m) \/ ClientUp(m) \/ ClientTerminates(m) PROVE SizeInv'
  BY <1>2, <1>10 DEF ClientDown, ClientUp, ClientTerminates, listVars, closeVars
<1>11. ASSUME NEW k \in Closer, Close(k) \/ CloserStep(k) PROVE SizeInv'
  <2>1. CASE FinishClose(k)
    BY <1>2, <1>3, <2>1 DEF FinishClose
  <2>2. CASE ~FinishClose(k)
    <3>1. UNCHANGED <<isOpen, idle, inUse>>
      BY <1>11, <2>2 DEF CloserStep, Close, StartClose, CloseClients, ClientCloses, listVars
    <3>2. QED
      BY <1>2, <3>1
  <2>3. QED
    BY <2>1, <2>2
<1>12. QED
  BY <1>1, <1>2, <1>4, <1>5, <1>6, <1>7, <1>8, <1>9, <1>10, <1>11, ConnectSize
     DEF PoolNext, Creation, Destroy, vars, listVars, closeVars

(* Clients that connect, are replaced or are created for waiting tasks     *)
(* never make the pool larger than its maximum option (pool.ts             *)
(* execute, #returnClient and #create).                                    *)
THEOREM PoolIsBounded == PoolSpec => []WithinMaximum
<1>1. PoolInit => SizeInv
  <2>1. PoolInit => Len(idle) = 0 /\ Cardinality(inUse) = 0
    BY FS_EmptySet DEF PoolInit
  <2>2. QED
    BY <2>1, PoolAssumption DEF PoolInit, SizeInv, ClosedIsEmpty, WithinMaximum
<1>2. SizeInv => WithinMaximum
  BY DEF SizeInv
<1>3. QED
  BY <1>1, <1>2, InitPool, NextPool, NextSize, PTL DEF PoolSpec
=============================================================================
