----------------------------- MODULE CacheProofs -----------------------------
(***************************************************************************)
(* What the client-side cache serves is the server's value or about to be  *)
(* invalidated, and nobody joins a read that has ended.                    *)
(***************************************************************************)
EXTENDS Cache, FilterTheorems, TLAPS

InFlight == {"queued", "sent", "replied", "failed"}
Ended == {"done", "threw"}

Load == [cmd : Command, by : Client, epoch : Nat, st : InFlight \cup Ended \cup {"joined"},
         leader : Nat, bad : BOOLEAN, cleared : BOOLEAN, fresh : BOOLEAN, storable : BOOLEAN]
Entry == [cmd : Command, load : Nat, value : BOOLEAN, bad : BOOLEAN, by : Client, epoch : Nat]
State == [map : Seq(Entry), index : [Key -> SUBSET Command], load : Seq(Load)]

(* A command has one entry, and is found under each of its keys. *)
OneEach(s) == \A e, f \in Entries(s) : e.cmd = f.cmd => e.load = f.load /\ e.value = f.value
Filed(s) == \A e \in Entries(s) : \A k \in KeysOf[e.cmd] : e.cmd \in s.index[k]

(* An entry is of a read that was made, not of one that joined another: a  *)
(* value of one that is done, a promise of one whose entry was not cleared *)
(* away.                                                                   *)
Link(s, e) ==
    /\ e.load \in DOMAIN s.load
    /\ s.load[e.load].cmd = e.cmd /\ s.load[e.load].leader = e.load
    /\ e.value => s.load[e.load].st = "done"
    /\ ~e.value => /\ e.by = s.load[e.load].by /\ e.epoch = s.load[e.load].epoch
                   /\ ~s.load[e.load].cleared
Linked(s) == \A e \in Entries(s) : Link(s, e)

(* Reads that joined wait for one that did not. *)
Leaders(s) == \A n \in DOMAIN s.load :
    /\ s.load[n].leader \in DOMAIN s.load
    /\ s.load[s.load[n].leader].leader = s.load[n].leader
    /\ s.load[n].leader # n => s.load[n].st \in Ended \cup {"joined"}
    /\ s.load[n].st = "joined" => s.load[n].leader # n

Shape(s) == s \in State /\ OneEach(s) /\ Filed(s) /\ Linked(s) /\ Leaders(s)

(* The entry of a read under way, but of those in the set but, is in the   *)
(* cache unless it was invalidated or cleared away.                        *)
Promised(s, but) == \A n \in DOMAIN s.load \ but :
    s.load[n].st \in InFlight /\ ~s.load[n].bad /\ ~s.load[n].cleared =>
        \E e \in Entries(s) : ~e.value /\ e.load = n
-----------------------------------------------------------------------------
(* The operations of the cache.                                            *)

(* Reads that are at most marked. *)
Marks(s, t) ==
    /\ t \in State
    /\ DOMAIN t.load = DOMAIN s.load
    /\ \A n \in DOMAIN s.load :
         /\ t.load[n].cmd = s.load[n].cmd /\ t.load[n].by = s.load[n].by
         /\ t.load[n].epoch = s.load[n].epoch /\ t.load[n].st = s.load[n].st
         /\ t.load[n].leader = s.load[n].leader
         /\ t.load[n].fresh = s.load[n].fresh /\ t.load[n].storable = s.load[n].storable
         /\ s.load[n].bad => t.load[n].bad
         /\ s.load[n].cleared => t.load[n].cleared

(* The entries in new are added, and a promise that goes away is marked. *)
Evolves(s, t, new) ==
    /\ Marks(s, t)
    /\ Entries(t) \subseteq Entries(s) \cup new
    /\ \A e \in Entries(s) : ~e.value =>
         \/ t.load[e.load].bad \/ t.load[e.load].cleared
         \/ \E f \in Entries(t) : ~f.value /\ f.load = e.load
    /\ \A f \in Entries(t) : ~f.value => (t.load[f.load].cleared <=> s.load[f.load].cleared)
    /\ OneEach(t) /\ Filed(t)

(* A function on the positions of a sequence is one. *)
LEMMA Pointwise ==
    ASSUME NEW S, NEW s \in Seq(S), NEW T, NEW f, DOMAIN f = DOMAIN s, f = [i \in DOMAIN f |-> f[i]],
           \A i \in DOMAIN s : f[i] \in T
    PROVE  f \in Seq(T) /\ Len(f) = Len(s)
<1>1. DOMAIN s = 1..Len(s) /\ Len(s) \in Nat
  OBVIOUS
<1>2. f = [i \in 1..Len(s) |-> f[i]] /\ \A i \in 1..Len(s) : f[i] \in T
  BY <1>1
<1>3. QED
  BY <1>1, <1>2

(* The parts of a state. *)
LEMMA Parts ==
    ASSUME NEW s \in State
    PROVE  /\ s.map \in Seq(Entry) /\ s.index \in [Key -> SUBSET Command] /\ s.load \in Seq(Load)
           /\ Entries(s) \subseteq Entry
           /\ \A n \in DOMAIN s.load : s.load[n] \in Load
BY DEF State, Entries

(* What is left of a cache that evolves is in order again. *)
LEMMA EvolvesShape ==
    ASSUME NEW s, NEW t, NEW new \in SUBSET Entry, Shape(s), Evolves(s, t, new), \A e \in new : Link(s, e)
    PROVE  Shape(t)
<1> USE DEF Shape
<1>1. \A e \in Entries(t) : Link(s, e) /\ (~e.value => (t.load[e.load].cleared <=> s.load[e.load].cleared))
  BY DEF Evolves, Linked
<1>2. Marks(s, t)
  BY DEF Evolves
<1>3. Linked(t)
  BY <1>1, <1>2 DEF Linked, Link, Marks
<1>4. Leaders(t)
  BY <1>2 DEF Leaders, Marks
<1>5. QED
  BY <1>2, <1>3, <1>4 DEF Evolves, Marks

(* The reads under way keep their entries. *)
LEMMA EvolvesPromised ==
    ASSUME NEW s, NEW t, NEW new, NEW but, Evolves(s, t, new), Promised(s, but),
           \A n \in but : \E f \in Entries(t) : ~f.value /\ f.load = n
    PROVE  Promised(t, {})
<1>1. SUFFICES ASSUME NEW n \in DOMAIN t.load, t.load[n].st \in InFlight, ~t.load[n].bad, ~t.load[n].cleared
      PROVE  \E f \in Entries(t) : ~f.value /\ f.load = n
  BY DEF Promised
<1>2. CASE n \in but
  BY <1>2
<1>3. CASE n \notin but
  <2>1. n \in DOMAIN s.load \ but /\ s.load[n].st \in InFlight /\ ~s.load[n].bad /\ ~s.load[n].cleared
    BY <1>1, <1>3 DEF Evolves, Marks
  <2>2. PICK e \in Entries(s) : ~e.value /\ e.load = n
    BY <2>1 DEF Promised
  <2>3. QED
    BY <1>1, <2>2 DEF Evolves
<1>4. QED
  BY <1>2, <1>3

(* entry.invalidate() *)
LEMMA InvalidatedEffect ==
    ASSUME NEW s \in State, NEW cmds
    PROVE  /\ Marks(s, Invalidated(s, cmds))
           /\ Invalidated(s, cmds).map = s.map /\ Invalidated(s, cmds).index = s.index
           /\ \A n \in DOMAIN s.load : /\ Invalidated(s, cmds).load[n].cleared = s.load[n].cleared
                                       /\ (\E e \in Entries(s) : e.cmd \in cmds /\ ~e.value /\ e.load = n) =>
                                              Invalidated(s, cmds).load[n].bad
<1> DEFINE t == Invalidated(s, cmds)
           hit(n) == \E e \in Entries(s) : e.cmd \in cmds /\ ~e.value /\ e.load = n
           L == [n \in DOMAIN s.load |-> IF hit(n) THEN [s.load[n] EXCEPT !.bad = TRUE] ELSE s.load[n]]
<1>0. s.map \in Seq(Entry) /\ s.index \in [Key -> SUBSET Command] /\ s.load \in Seq(Load)
      /\ \A n \in DOMAIN s.load : s.load[n] \in Load
  BY Parts
<1>1. t = [s EXCEPT !.load = L]
  BY DEF Invalidated
<1> HIDE DEF hit, t
<1>2. \A n \in DOMAIN s.load : [s.load[n] EXCEPT !.bad = TRUE] \in Load
  BY <1>0 DEF Load
<1>3. DOMAIN L = DOMAIN s.load /\ \A n \in DOMAIN s.load : L[n] \in Load
  BY <1>0, <1>2
<1>4. L \in Seq(Load)
  BY <1>0, <1>3, Pointwise
<1>5. \A n \in DOMAIN s.load : L[n] = IF hit(n) THEN [s.load[n] EXCEPT !.bad = TRUE] ELSE s.load[n]
  OBVIOUS
<1> HIDE DEF L
<1>6. t.map = s.map /\ t.index = s.index /\ t.load = L /\ t \in State
  BY <1>0, <1>1, <1>4 DEF State
<1>7. \A n \in DOMAIN s.load :
         /\ L[n].cmd = s.load[n].cmd /\ L[n].by = s.load[n].by
         /\ L[n].epoch = s.load[n].epoch /\ L[n].st = s.load[n].st
         /\ L[n].leader = s.load[n].leader
         /\ L[n].fresh = s.load[n].fresh /\ L[n].storable = s.load[n].storable
         /\ L[n].cleared = s.load[n].cleared
         /\ s.load[n].bad => L[n].bad
         /\ hit(n) => L[n].bad
  BY <1>0, <1>5 DEF Load
<1>8. Marks(s, t)
  BY <1>3, <1>6, <1>7 DEF Marks
<1>9. QED
  BY <1>6, <1>7, <1>8 DEF t, hit

(* delete: the entries go away and the promises among them are marked. *)
LEMMA DeleteEffect ==
    ASSUME NEW s \in State, \A e \in Entries(s) : e.load \in DOMAIN s.load, NEW cmds
    PROVE  /\ Marks(s, Delete(s, cmds))
           /\ Entries(Delete(s, cmds)) = {e \in Entries(s) : e.cmd \notin cmds}
           /\ \A e \in Entries(s) : e.cmd \in cmds /\ ~e.value => Delete(s, cmds).load[e.load].bad
           /\ \A n \in DOMAIN s.load : Delete(s, cmds).load[n].cleared = s.load[n].cleared
           /\ Delete(s, cmds).index = [k \in Key |-> s.index[k] \ cmds]
<1> DEFINE i == Invalidated(s, cmds)
           t == Delete(s, cmds)
           keep == {e \in Entries(i) : e.cmd \notin cmds}
           M == Filter(i.map, keep)
           X == [k \in Key |-> i.index[k] \ cmds]
<1>1. /\ Marks(s, i) /\ i.map = s.map /\ i.index = s.index
      /\ \A n \in DOMAIN s.load : /\ i.load[n].cleared = s.load[n].cleared
                                  /\ (\E e \in Entries(s) : e.cmd \in cmds /\ ~e.value /\ e.load = n) => i.load[n].bad
  BY InvalidatedEffect
<1>2. t = [i EXCEPT !.map = M, !.index = X]
  BY DEF Delete, Removed
<1> HIDE DEF i, t, keep
<1>3. i \in State /\ Entries(i) = Entries(s)
  BY <1>1 DEF Marks, Entries
<1>4. i.map \in Seq(Entry) /\ i.index \in [Key -> SUBSET Command] /\ i.load \in Seq(Load)
  BY <1>3, Parts
<1>5. M \in Seq(Entry) /\ {M[j] : j \in DOMAIN M} = {i.map[j] : j \in DOMAIN i.map} \cap keep
  <2>1. i.map \in Seq(Entry)
    BY <1>4
  <2>2. QED
    BY ONLY <2>1, FilterType DEF M
<1>6. X \in [Key -> SUBSET Command]
  BY <1>4
<1> HIDE DEF M, X
<1>7. t \in State /\ t.map = M /\ t.index = X /\ t.load = i.load
  BY <1>2, <1>3, <1>4, <1>5, <1>6 DEF State
<1>8. Entries(t) = {e \in Entries(s) : e.cmd \notin cmds}
  BY <1>3, <1>5, <1>7 DEF Entries, keep
<1>9. Marks(s, t)
  BY <1>1, <1>7 DEF Marks
<1>11. \A e \in Entries(s) : e.cmd \in cmds /\ ~e.value => t.load[e.load].bad
  BY <1>1, <1>7
<1>15. t.index = [k \in Key |-> s.index[k] \ cmds]
  BY <1>1, <1>7 DEF X
<1>16. QED
  BY <1>1, <1>7, <1>8, <1>9, <1>11, <1>15 DEF t

(* delete keeps the cache in order. *)
LEMMA DeleteStep ==
    ASSUME NEW s, Shape(s), NEW cmds
    PROVE  /\ Evolves(s, Delete(s, cmds), {})
           /\ Entries(Delete(s, cmds)) = {e \in Entries(s) : e.cmd \notin cmds}
           /\ \A e \in Entries(s) : e.cmd \in cmds /\ ~e.value => Delete(s, cmds).load[e.load].bad
           /\ \A n \in DOMAIN s.load : Delete(s, cmds).load[n].cleared = s.load[n].cleared
<1> USE DEF Shape
<1> DEFINE t == Delete(s, cmds)
<1>1. \A e \in Entries(s) : e.load \in DOMAIN s.load
  BY DEF Linked, Link
<1>2. /\ Marks(s, t)
      /\ Entries(t) = {e \in Entries(s) : e.cmd \notin cmds}
      /\ \A e \in Entries(s) : e.cmd \in cmds /\ ~e.value => t.load[e.load].bad
      /\ \A n \in DOMAIN s.load : t.load[n].cleared = s.load[n].cleared
      /\ t.index = [k \in Key |-> s.index[k] \ cmds]
  BY <1>1, DeleteEffect
<1> HIDE DEF t
<1>3. OneEach(t)
  BY <1>2 DEF OneEach
<1>4. Filed(t)
  <2>1. SUFFICES ASSUME NEW e \in Entries(t), NEW k \in KeysOf[e.cmd] PROVE e.cmd \in t.index[k]
    BY DEF Filed
  <2>2. e \in Entries(s) /\ e.cmd \notin cmds /\ e.cmd \in s.index[k]
    BY <1>2, <2>1 DEF Filed
  <2>3. k \in Key
    <3>1. e \in Entry
      BY <2>2, Parts
    <3>2. e.cmd \in Command
      BY <3>1 DEF Entry
    <3>3. QED
      BY <3>2, CacheAssumption
  <2>4. QED
    BY <1>2, <2>2, <2>3
<1>5. \A e \in Entries(s) : ~e.value => t.load[e.load].bad \/ \E f \in Entries(t) : ~f.value /\ f.load = e.load
  BY <1>2
<1>6. \A f \in Entries(t) : t.load[f.load].cleared <=> s.load[f.load].cleared
  BY <1>1, <1>2
<1>7. Evolves(s, t, {})
  BY <1>2, <1>3, <1>4, <1>5, <1>6 DEF Evolves
<1>8. QED
  BY <1>2, <1>7 DEF t

(* clear: the entries go away, and the reads under way take theirs for     *)
(* valid.                                                                  *)
LEMMA ClearStep ==
    ASSUME NEW s, Shape(s)
    PROVE  /\ Evolves(s, Clear(s), {})
           /\ Entries(Clear(s)) = {}
           /\ \A e \in Entries(s) : ~e.value => Clear(s).load[e.load].cleared
<1> USE DEF Shape
<1> DEFINE t == Clear(s)
           hit(n) == \E e \in Entries(s) : ~e.value /\ e.load = n
           L == [n \in DOMAIN s.load |-> IF hit(n) THEN [s.load[n] EXCEPT !.cleared = TRUE] ELSE s.load[n]]
           X == [k \in Key |-> {}]
<1>0. s.map \in Seq(Entry) /\ s.index \in [Key -> SUBSET Command] /\ s.load \in Seq(Load)
      /\ \A n \in DOMAIN s.load : s.load[n] \in Load
  BY Parts
<1>1. t = [s EXCEPT !.map = <<>>, !.index = X, !.load = L]
  BY DEF Clear
<1>2. X \in [Key -> SUBSET Command]
  OBVIOUS
<1> HIDE DEF hit, t, X
<1>3. \A n \in DOMAIN s.load : [s.load[n] EXCEPT !.cleared = TRUE] \in Load
  BY <1>0 DEF Load
<1>4. DOMAIN L = DOMAIN s.load /\ \A n \in DOMAIN s.load : L[n] \in Load
  BY <1>0, <1>3
<1>5. L \in Seq(Load)
  BY <1>0, <1>4, Pointwise
<1>6. \A n \in DOMAIN s.load : L[n] = IF hit(n) THEN [s.load[n] EXCEPT !.cleared = TRUE] ELSE s.load[n]
  OBVIOUS
<1> HIDE DEF L
<1>7. t.map = <<>> /\ t.load = L /\ t \in State
  <2>1. <<>> \in Seq(Entry)
    OBVIOUS
  <2>2. \A q : t = [s EXCEPT !.map = q, !.index = X, !.load = L] /\ q \in Seq(Entry) =>
           t.map = q /\ t.load = L /\ t \in State
    BY <1>2, <1>5 DEF State
  <2>3. QED
    BY <1>1, <2>1, <2>2
<1>8. \A n \in DOMAIN s.load :
         /\ L[n].cmd = s.load[n].cmd /\ L[n].by = s.load[n].by
         /\ L[n].epoch = s.load[n].epoch /\ L[n].st = s.load[n].st
         /\ L[n].leader = s.load[n].leader
         /\ L[n].fresh = s.load[n].fresh /\ L[n].storable = s.load[n].storable
         /\ L[n].bad = s.load[n].bad
         /\ s.load[n].cleared => L[n].cleared
         /\ hit(n) => L[n].cleared
  BY <1>0, <1>6 DEF Load
<1>9. Marks(s, t)
  BY <1>4, <1>7, <1>8 DEF Marks
<1>10. Entries(t) = {}
  BY <1>7 DEF Entries
<1>11. \A e \in Entries(s) : e.load \in DOMAIN s.load
  BY DEF Linked, Link
<1>12. \A e \in Entries(s) : ~e.value => t.load[e.load].cleared
  BY <1>7, <1>8, <1>11 DEF hit
<1>13. Evolves(s, t, {})
  BY <1>9, <1>10, <1>12 DEF Evolves, OneEach, Filed
<1>14. QED
  BY <1>10, <1>12, <1>13 DEF t

(* The last entry of a sequence that grows. *)
LEMMA AppendEntries ==
    ASSUME NEW S, NEW q \in Seq(S), NEW x \in S
    PROVE  /\ Append(q, x) \in Seq(S) /\ Len(Append(q, x)) = Len(q) + 1
           /\ {Append(q, x)[i] : i \in DOMAIN Append(q, x)} = {q[i] : i \in DOMAIN q} \cup {x}
           /\ \A i \in DOMAIN q : i \in DOMAIN Append(q, x) /\ Append(q, x)[i] = q[i]
           /\ Len(q) + 1 \in DOMAIN Append(q, x) /\ Append(q, x)[Len(q) + 1] = x
           /\ \A i \in DOMAIN Append(q, x) : i \in DOMAIN q \/ i = Len(q) + 1
<1> DEFINE r == Append(q, x)
<1>1. /\ r \in Seq(S) /\ Len(q) \in Nat /\ DOMAIN r = 1..(Len(q) + 1) /\ DOMAIN q = 1..Len(q)
      /\ r[Len(q) + 1] = x /\ \A i \in 1..Len(q) : r[i] = q[i]
  OBVIOUS
<1>2. Len(r) = Len(q) + 1
  OBVIOUS
<1> HIDE DEF r
<1>3. \A i \in 1..(Len(q) + 1) : i \in 1..Len(q) \/ i = Len(q) + 1
  BY <1>1
<1>4. (\A i \in 1..Len(q) : i \in 1..(Len(q) + 1)) /\ Len(q) + 1 \in 1..(Len(q) + 1)
  BY <1>1
<1>5. {r[i] : i \in DOMAIN r} = {q[i] : i \in DOMAIN q} \cup {x}
  BY <1>1, <1>3, <1>4
<1>6. QED
  BY <1>1, <1>2, <1>3, <1>4, <1>5 DEF r

(* The entry that get finds. *)
LEMMA Found ==
    ASSUME NEW s, NEW cmd, cmd \in Cached(s)
    PROVE  EntryOf(s, cmd) \in Entries(s) /\ EntryOf(s, cmd).cmd = cmd
<1>1. \E e \in Entries(s) : e.cmd = cmd
  BY DEF Cached
<1>2. QED
  BY <1>1 DEF EntryOf

(* lru: get moves the entry to the end. *)
LEMMA TouchedStep ==
    ASSUME NEW s, Shape(s), NEW cmd, cmd \in Cached(s)
    PROVE  Evolves(s, Touched(s, cmd), {}) /\ Touched(s, cmd).load = s.load
<1> USE DEF Shape
<1> DEFINE t == Touched(s, cmd)
           x == EntryOf(s, cmd)
           keep == {e \in Entries(s) : e.cmd # cmd}
           F == Filter(s.map, keep)
           M == Append(F, x)
<1>0. s.map \in Seq(Entry) /\ s.index \in [Key -> SUBSET Command] /\ s.load \in Seq(Load) /\ Entries(s) \subseteq Entry
  BY Parts
<1>1. t = [s EXCEPT !.map = M]
  BY DEF Touched
<1>2. x \in Entries(s) /\ x.cmd = cmd /\ x \in Entry
  BY <1>0, Found
<1> HIDE DEF t, x, keep
<1>3. F \in Seq(Entry) /\ {F[j] : j \in DOMAIN F} = {s.map[j] : j \in DOMAIN s.map} \cap keep
  BY <1>0, FilterType
<1> HIDE DEF F
<1>4. M \in Seq(Entry) /\ {M[j] : j \in DOMAIN M} = {F[j] : j \in DOMAIN F} \cup {x}
  BY <1>2, <1>3, AppendEntries
<1> HIDE DEF M
<1>5. t \in State /\ t.map = M /\ t.index = s.index /\ t.load = s.load
  BY <1>0, <1>1, <1>4 DEF State
<1>6. Entries(t) = {e \in Entries(s) : e.cmd # cmd} \cup {x}
  BY <1>3, <1>4, <1>5 DEF Entries, keep
<1>7. Marks(s, t)
  BY <1>5 DEF Marks
<1>8. Entries(t) \subseteq Entries(s)
  BY <1>2, <1>6
<1>9. \A e \in Entries(s) : ~e.value => \E f \in Entries(t) : ~f.value /\ f.load = e.load
  BY <1>2, <1>6 DEF OneEach
<1>10. OneEach(t) /\ Filed(t)
  BY <1>5, <1>8 DEF OneEach, Filed
<1>11. QED
  BY <1>5, <1>7, <1>8, <1>9, <1>10 DEF Evolves, t

(* set: the entry replaces that of its command, whose promise is marked,   *)
(* and the oldest one makes room.                                          *)
LEMMA SetStep ==
    ASSUME NEW s, Shape(s), NEW e \in Entry, Link(s, e)
    PROVE  /\ Evolves(s, Set(s, e), {e})
           /\ e \in Entries(Set(s, e))
           /\ \A f \in Entries(s) : f.cmd = e.cmd /\ ~f.value => Set(s, e).load[f.load].bad
<1> USE DEF Shape
<1> DEFINE old == e.cmd \in Cached(s)
           i == Invalidated(s, {e.cmd})
           t == IF old THEN [i EXCEPT !.index = [k \in Key |-> @[k] \ {e.cmd}]] ELSE s
           full == conf.max > 0 /\ Len(t.map) - (IF old THEN 1 ELSE 0) >= conf.max
           u == IF full THEN Delete(t, {Head(t.map).cmd}) ELSE t
           M == IF e.cmd \in Cached(u)
                THEN [j \in DOMAIN u.map |-> IF u.map[j].cmd = e.cmd THEN e ELSE u.map[j]]
                ELSE Append(u.map, e)
           X == [k \in Key |-> IF k \in KeysOf[e.cmd] THEN u.index[k] \cup {e.cmd} ELSE u.index[k]]
           r == Set(s, e)
<1>0. r = [u EXCEPT !.map = M, !.index = X]
  BY DEF Set
<1> HIDE DEF r
<1>1. e.cmd \in Command
  BY DEF Entry
<1>2. Link(s, e) /\ (\A f \in Entries(s) : f.load \in DOMAIN s.load) /\ Entries(s) \subseteq Entry
  BY Parts DEF Linked, Link
<1>3. /\ Marks(s, i) /\ i.map = s.map /\ i.index = s.index
      /\ \A n \in DOMAIN s.load : /\ i.load[n].cleared = s.load[n].cleared
                                  /\ (\E f \in Entries(s) : f.cmd \in {e.cmd} /\ ~f.value /\ f.load = n) => i.load[n].bad
  BY InvalidatedEffect
<1> HIDE DEF i
(* t: the command's own entry is no longer filed, and its promise marked *)
<1>4. /\ t \in State /\ t.map = s.map /\ Entries(t) = Entries(s)
      /\ \A k \in Key : t.index[k] \subseteq s.index[k] /\ s.index[k] \subseteq t.index[k] \cup {e.cmd}
      /\ Marks(s, t)
      /\ \A n \in DOMAIN s.load : t.load[n].cleared = s.load[n].cleared
      /\ \A f \in Entries(s) : f.cmd = e.cmd /\ ~f.value => t.load[f.load].bad
  <2>1. CASE old
    <3> DEFINE Y == [k \in Key |-> i.index[k] \ {e.cmd}]
    <3>0. t = [i EXCEPT !.index = Y]
      BY <2>1
    <3>1. i \in State
      BY <1>3 DEF Marks
    <3>2. i.index \in [Key -> SUBSET Command] /\ i.map \in Seq(Entry) /\ i.load \in Seq(Load)
      BY <3>1, Parts
    <3>3. Y \in [Key -> SUBSET Command] /\ \A k \in Key : Y[k] = i.index[k] \ {e.cmd}
      BY <3>2
    <3> HIDE DEF Y, t
    <3>4. t \in State /\ t.map = i.map /\ t.load = i.load /\ t.index = Y
      BY <3>0, <3>1, <3>2, <3>3 DEF State
    <3>5. Entries(t) = Entries(s)
      BY <1>3, <3>4 DEF Entries
    <3>6. \A k \in Key : t.index[k] \subseteq s.index[k] /\ s.index[k] \subseteq t.index[k] \cup {e.cmd}
      BY <1>3, <3>3, <3>4
    <3>7. Marks(s, t)
      BY <1>3, <3>4 DEF Marks
    <3>8. \A f \in Entries(s) : f.cmd = e.cmd /\ ~f.value => t.load[f.load].bad
      BY <1>2, <1>3, <3>4
    <3>9. QED
      BY <1>3, <3>4, <3>5, <3>6, <3>7, <3>8
  <2>2. CASE ~old
    <3>1. t = s
      BY <2>2
    <3>2. \A f \in Entries(s) : f.cmd # e.cmd
      BY <2>2 DEF Cached
    <3> HIDE DEF t, old
    <3>3. QED
      BY <3>1, <3>2 DEF Marks
  <2>3. QED
    BY <2>1, <2>2
<1> HIDE DEF t, full
<1>5. \A f \in Entries(s) : f.cmd # e.cmd => \A k \in KeysOf[f.cmd] : f.cmd \in t.index[k]
  <2>1. SUFFICES ASSUME NEW f \in Entries(s), f.cmd # e.cmd, NEW k \in KeysOf[f.cmd] PROVE f.cmd \in t.index[k]
    OBVIOUS
  <2>2. f.cmd \in Command
    BY <1>2 DEF Entry
  <2>3. k \in Key /\ f.cmd \in s.index[k]
    BY <2>2, CacheAssumption DEF Filed
  <2>4. QED
    BY <1>4, <2>1, <2>3
<1>6. /\ u \in State /\ Marks(s, u)
      /\ Entries(u) \subseteq Entries(s)
      /\ \A n \in DOMAIN s.load : u.load[n].cleared = s.load[n].cleared
      /\ \A f \in Entries(s) : f.cmd = e.cmd /\ ~f.value => u.load[f.load].bad
      /\ \A f \in Entries(s) : ~f.value => f \in Entries(u) \/ u.load[f.load].bad
      /\ \A f \in Entries(u) : f.cmd # e.cmd => \A k \in KeysOf[f.cmd] : f.cmd \in u.index[k]
  <2>1. CASE ~full
    <3>1. u = t
      BY <2>1
    <3> HIDE DEF u
    <3>2. QED
      BY <1>4, <1>5, <3>1
  <2>2. CASE full
    <3> DEFINE cmds == {Head(t.map).cmd}
    <3>1. u = Delete(t, cmds)
      BY <2>2
    <3> HIDE DEF u, cmds
    <3>2. \A f \in Entries(t) : f.load \in DOMAIN t.load
      BY <1>2, <1>4 DEF Marks
    <3>3. /\ Marks(t, u)
          /\ Entries(u) = {f \in Entries(t) : f.cmd \notin cmds}
          /\ \A f \in Entries(t) : f.cmd \in cmds /\ ~f.value => u.load[f.load].bad
          /\ \A n \in DOMAIN t.load : u.load[n].cleared = t.load[n].cleared
          /\ u.index = [k \in Key |-> t.index[k] \ cmds]
      BY <1>4, <3>1, <3>2, DeleteEffect
    <3>4. u \in State /\ Marks(s, u)
      BY <1>4, <3>3 DEF Marks
    <3>5. \A n \in DOMAIN s.load : u.load[n].cleared = s.load[n].cleared
      BY <1>4, <3>3 DEF Marks
    <3>6. \A f \in Entries(s) : f.cmd = e.cmd /\ ~f.value => u.load[f.load].bad
      BY <1>4, <3>2, <3>3 DEF Marks
    <3>7. \A f \in Entries(s) : ~f.value => f \in Entries(u) \/ u.load[f.load].bad
      BY <1>4, <3>3
    <3>8. SUFFICES ASSUME NEW f \in Entries(u), f.cmd # e.cmd, NEW k \in KeysOf[f.cmd] PROVE f.cmd \in u.index[k]
      BY <1>4, <3>3, <3>4, <3>5, <3>6, <3>7
    <3>9. f \in Entries(s) /\ f.cmd \notin cmds
      BY <1>4, <3>3
    <3>10. f.cmd \in Command
      BY <1>2, <3>9 DEF Entry
    <3>11. k \in Key
      BY <3>10, CacheAssumption
    <3>12. QED
      BY <1>5, <3>3, <3>8, <3>9, <3>11
  <2>3. QED
    BY <2>1, <2>2
<1> HIDE DEF u
<1>7. u.map \in Seq(Entry) /\ u.index \in [Key -> SUBSET Command] /\ u.load \in Seq(Load)
  BY <1>6, Parts
<1>8. M \in Seq(Entry) /\ {M[j] : j \in DOMAIN M} = {f \in Entries(u) : f.cmd # e.cmd} \cup {e}
  <2>1. CASE e.cmd \in Cached(u)
    <3>1. M = [j \in DOMAIN u.map |-> IF u.map[j].cmd = e.cmd THEN e ELSE u.map[j]]
      BY <2>1
    <3> HIDE DEF M
    <3>2. DOMAIN M = DOMAIN u.map /\ \A j \in DOMAIN u.map : M[j] = IF u.map[j].cmd = e.cmd THEN e ELSE u.map[j]
      BY <3>1
    <3>3. \A j \in DOMAIN u.map : M[j] \in Entry
      BY <1>7, <3>2
    <3>4. M = [j \in DOMAIN M |-> M[j]]
      BY <3>1
    <3>5. M \in Seq(Entry)
      BY ONLY <1>7, <3>2, <3>3, <3>4, Pointwise
    <3>6. PICK j \in DOMAIN u.map : u.map[j].cmd = e.cmd
      BY <2>1 DEF Cached, Entries
    <3>7. e \in {M[h] : h \in DOMAIN M}
      BY <3>2, <3>6
    <3>8. \A f \in Entries(u) : f.cmd # e.cmd => f \in {M[h] : h \in DOMAIN M}
      BY <3>2 DEF Entries
    <3>9. \A h \in DOMAIN M : M[h] \in {f \in Entries(u) : f.cmd # e.cmd} \cup {e}
      BY <3>2 DEF Entries
    <3>10. QED
      BY <3>5, <3>7, <3>8, <3>9
  <2>2. CASE e.cmd \notin Cached(u)
    <3>1. M = Append(u.map, e)
      BY <2>2
    <3> HIDE DEF M
    <3>2. \A f \in Entries(u) : f.cmd # e.cmd
      BY <2>2 DEF Cached
    <3>3. M \in Seq(Entry) /\ {M[j] : j \in DOMAIN M} = {u.map[j] : j \in DOMAIN u.map} \cup {e}
      BY <1>7, <3>1, AppendEntries
    <3>4. QED
      BY <3>2, <3>3 DEF Entries
  <2>3. QED
    BY <2>1, <2>2
<1>9. X \in [Key -> SUBSET Command] /\ \A k \in Key : u.index[k] \subseteq X[k] /\ (k \in KeysOf[e.cmd] => e.cmd \in X[k])
  BY <1>1, <1>7
<1> HIDE DEF M, X
<1>10. r \in State /\ r.map = M /\ r.index = X /\ r.load = u.load
  BY <1>0, <1>6, <1>7, <1>8, <1>9 DEF State
<1>11. Entries(r) = {f \in Entries(u) : f.cmd # e.cmd} \cup {e}
  BY <1>8, <1>10 DEF Entries
<1>12. Marks(s, r)
  BY <1>6, <1>10 DEF Marks
<1>13. \A f \in Entries(s) : f.cmd = e.cmd /\ ~f.value => r.load[f.load].bad
  BY <1>6, <1>10
<1>14. \A f \in Entries(s) : ~f.value => r.load[f.load].bad \/ \E g \in Entries(r) : ~g.value /\ g.load = f.load
  BY <1>6, <1>10, <1>11
<1>15. \A f \in Entries(r) : r.load[f.load].cleared <=> s.load[f.load].cleared
  BY <1>2, <1>6, <1>10, <1>11 DEF Link
<1>16. OneEach(r)
  BY <1>6, <1>11 DEF OneEach
<1>17. Filed(r)
  <2>1. SUFFICES ASSUME NEW f \in Entries(r), NEW k \in KeysOf[f.cmd] PROVE f.cmd \in r.index[k]
    BY DEF Filed
  <2>2. f.cmd \in Command
    BY <1>1, <1>2, <1>6, <1>11 DEF Entry
  <2>3. k \in Key
    BY <2>2, CacheAssumption
  <2>4. QED
    BY <1>6, <1>9, <1>10, <1>11, <2>3
<1>18. Evolves(s, r, {e})
  BY <1>6, <1>11, <1>12, <1>14, <1>15, <1>16, <1>17 DEF Evolves
<1>19. QED
  BY <1>11, <1>13, <1>18 DEF r

-----------------------------------------------------------------------------
(* Reads that go on, without a change to the entries. *)
Goes(s, t) ==
    /\ t \in State /\ t.map = s.map /\ t.index = s.index
    /\ DOMAIN t.load = DOMAIN s.load
    /\ \A n \in DOMAIN s.load :
         /\ t.load[n].cmd = s.load[n].cmd /\ t.load[n].by = s.load[n].by
         /\ t.load[n].epoch = s.load[n].epoch /\ t.load[n].leader = s.load[n].leader
         /\ s.load[n].bad => t.load[n].bad
         /\ t.load[n].cleared = s.load[n].cleared
         /\ \/ t.load[n].st = s.load[n].st
            \/ s.load[n].st \in InFlight /\ t.load[n].st \in InFlight \cup Ended
            \/ s.load[n].st = "joined" /\ t.load[n].st \in Ended

(* A read that goes on, is answered or fails leaves the cache in order. *)
LEMMA GoesShape ==
    ASSUME NEW s, Shape(s), NEW t, Goes(s, t)
    PROVE  Shape(t) /\ Entries(t) = Entries(s) /\ (Promised(s, {}) => Promised(t, {}))
<1> USE DEF Shape
<1>1. Entries(t) = Entries(s)
  BY DEF Goes, Entries
<1>2. OneEach(t) /\ Filed(t)
  BY <1>1 DEF OneEach, Filed, Goes
<1>3. Linked(t)
  BY <1>1 DEF Linked, Link, Goes, InFlight, Ended
<1>4. Leaders(t)
  BY SMTT(60) DEF Leaders, Goes, InFlight, Ended
<1>5. Promised(s, {}) => Promised(t, {})
  BY <1>1 DEF Promised, Goes, InFlight, Ended
<1>6. QED
  BY <1>1, <1>2, <1>3, <1>4, <1>5 DEF Goes

(* The reads of a state that are still there in a later one. *)
Follows(s, t) ==
    /\ DOMAIN s.load \subseteq DOMAIN t.load
    /\ \A n \in DOMAIN s.load :
         /\ t.load[n].cmd = s.load[n].cmd /\ t.load[n].by = s.load[n].by
         /\ t.load[n].epoch = s.load[n].epoch /\ t.load[n].leader = s.load[n].leader
         /\ s.load[n].bad => t.load[n].bad
         /\ s.load[n].cleared => t.load[n].cleared

(* The operations of the cache only mark reads; two steps are one. *)
LEMMA FollowsSteps ==
    ASSUME NEW s, NEW t, NEW u
    PROVE  /\ Marks(s, t) => Follows(s, t)
           /\ Goes(s, t) => Follows(s, t)
           /\ Follows(s, t) /\ Follows(t, u) => Follows(s, u)
BY DEF Marks, Goes, Follows

-----------------------------------------------------------------------------
(* The invariant. *)
Message == [reply : BOOLEAN, load : Nat, key : Key \cup {None}, ok : BOOLEAN]
Conn == [up : BOOLEAN, closed : BOOLEAN, epoch : Nat, wire : Seq(Message)]

Settings == \E s \in Scenario : conf = s.conf /\ DOMAIN left = DOMAIN s.events
Types == Settings /\ cl \in [Client -> Conn] /\ srv \in [Client -> SUBSET Key]

(* A reply on a connection is the only one of a read that was sent on it. *)
Answers(c) ==
    \A i \in DOMAIN cl[c].wire : cl[c].wire[i].reply =>
        /\ cl[c].wire[i].load \in DOMAIN load
        /\ load[cl[c].wire[i].load].st = "sent" /\ load[cl[c].wire[i].load].by = c
        /\ \A j \in DOMAIN cl[c].wire :
               cl[c].wire[j].reply /\ cl[c].wire[j].load = cl[c].wire[i].load => i = j
Answered == \A c \in Client : Answers(c)

(* What validate() of the no-redirect cache refuses from now on. *)
Gone(c, epoch) == conf.provider = "noredirect" /\ (~cl[c].up \/ cl[c].epoch > epoch)

(* The entry of a read that has ended is not handed out any more. *)
EndsOf(n) ==
    load[n].leader = n /\ load[n].st \in Ended =>
        load[n].bad \/ load[n].cleared \/ Gone(load[n].by, load[n].epoch)
Ends == \A n \in DOMAIN load : EndsOf(n)

Epochs == conf.provider = "noredirect" =>
    /\ \A n \in DOMAIN load : load[n].epoch <= cl[load[n].by].epoch
    /\ \A e \in Entries(Cache) : e.epoch <= cl[e.by].epoch

EntryInv ==
    Types /\ Shape(Cache) /\ Promised(Cache, {}) /\ Answered /\ Ends /\ Epochs

(* A no-redirect cache is not used with maintenance notifications: the     *)
(* first epoch of the socket handed over may be an old connection's.       *)
NoRedirectStays ==
    \A s \in Scenario : s.conf.provider = "noredirect" => "handoff" \notin DOMAIN s.events

(* The invariant in the next state is that of the next cache. *)
LEMMA NextCache ==
    /\ Shape(Cache)' <=> Shape(Cache')
    /\ Promised(Cache, {})' <=> Promised(Cache', {})
    /\ Entries(Cache)' = Entries(Cache')
    /\ Cache'.map = map' /\ Cache'.index = index' /\ Cache'.load = load'
    /\ Cache.map = map /\ Cache.index = index /\ Cache.load = load
BY DEF Shape, Promised, Entries, Cache, OneEach, Filed, Linked, Link, Leaders

(* Assigning the parts of a state. *)
LEMMA BecomesState ==
    ASSUME NEW t \in State, Becomes(t)
    PROVE  Cache' = t
BY DEF State, Becomes, Cache

(* Nobody's promise is one of a read that has ended. *)
LEMMA EntryJoins == EntryInv => JoinsLiveRead
<1> SUFFICES ASSUME EntryInv, NEW i \in DOMAIN map, ~map[i].value, Valid(Cache, map[i]), Settled(map[i].load)
             PROVE  FALSE
  BY DEF JoinsLiveRead
<1> DEFINE e == map[i]
<1>1. e \in Entries(Cache) /\ Linked(Cache) /\ Cache \in State
  BY DEF Entries, Cache, EntryInv, Shape
<1>2. e.load \in DOMAIN load /\ load[e.load].leader = e.load /\ ~load[e.load].cleared
      /\ e.by = load[e.load].by /\ e.epoch = load[e.load].epoch
  BY <1>1, NextCache DEF Linked, Link
<1>3. ~load[e.load].bad /\ OfItsConnection(e)
  BY NextCache DEF Valid
<1>4. Gone(e.by, e.epoch)
  BY <1>2, <1>3 DEF EntryInv, Ends, EndsOf, Settled, Ended
<1>5. e \in Entry
  BY <1>1, Parts
<1>6. e.epoch \in Nat /\ e.by \in Client
  BY <1>5 DEF Entry
<1>7. cl[e.by].epoch \in Nat
  BY <1>6 DEF EntryInv, Types, Conn
<1>8. QED
  BY <1>3, <1>4, <1>6, <1>7 DEF Gone, OfItsConnection

-----------------------------------------------------------------------------
(* A read is called. *)

(* What a read still has to say to the server or the cache is as before. *)
AsBefore(s, t) == \A n \in DOMAIN s.load :
    /\ t.load[n].st = s.load[n].st /\ t.load[n].fresh = s.load[n].fresh
    /\ t.load[n].storable = s.load[n].storable

(* A read of client c begins. *)
Begun(c, l) == l.by = c /\ l.epoch = cl[c].epoch /\ l.st \in {"queued", "joined"} /\ l.fresh

Grows(s, t, c) ==
    /\ Shape(t) /\ Promised(t, {}) /\ Follows(s, t) /\ AsBefore(s, t)
    /\ \A n \in DOMAIN t.load \ DOMAIN s.load : Begun(c, t.load[n])
    /\ \A e \in Entries(t) : e \in Entries(s) \/ (~e.value /\ e.by = c /\ e.epoch = cl[c].epoch)

(* A cache that only evolves grows. *)
LEMMA EvolvesGrows ==
    ASSUME NEW s, NEW t, NEW c, Shape(s), Promised(s, {}), Evolves(s, t, {})
    PROVE  Grows(s, t, c)
<1>1. Shape(t)
  BY EvolvesShape
<1>2. Promised(t, {})
  BY EvolvesPromised
<1>3. Marks(s, t) /\ Entries(t) \subseteq Entries(s)
  BY DEF Evolves
<1>4. Follows(s, t)
  BY <1>3, FollowsSteps
<1>5. QED
  BY <1>1, <1>2, <1>3, <1>4 DEF Grows, AsBefore, Marks

(* One after the other. *)
LEMMA GrowsTwice ==
    ASSUME NEW s, NEW t, NEW u, NEW c, Grows(s, t, c), Grows(t, u, c)
    PROVE  Grows(s, u, c)
<1>1. Follows(s, u)
  BY FollowsSteps DEF Grows
<1>2. AsBefore(s, u)
  BY DEF Grows, AsBefore, Follows
<1>3. \A n \in DOMAIN u.load \ DOMAIN s.load : Begun(c, u.load[n])
  BY DEF Grows, AsBefore, Follows, Begun
<1>4. \A e \in Entries(u) : e \in Entries(s) \/ (~e.value /\ e.by = c /\ e.epoch = cl[c].epoch)
  BY DEF Grows
<1>5. QED
  BY <1>1, <1>2, <1>3, <1>4 DEF Grows

(* get drops an entry that is no longer valid. *)
LEMMA GetGrows ==
    ASSUME NEW s, NEW c, NEW cmd, Shape(s), Promised(s, {})
    PROVE  Grows(s, Get(s, cmd), c) /\ DOMAIN Get(s, cmd).load = DOMAIN s.load
<1>1. CASE Get(s, cmd) = s
  BY <1>1 DEF Grows, AsBefore, Follows
<1>2. CASE Get(s, cmd) = Delete(s, {cmd})
  <2>1. Evolves(s, Delete(s, {cmd}), {})
    BY DeleteStep
  <2>2. Grows(s, Delete(s, {cmd}), c)
    BY <2>1, EvolvesGrows
  <2>3. QED
    BY <1>2, <2>1, <2>2 DEF Evolves, Marks
<1>3. QED
  BY <1>1, <1>2 DEF Get

(* A read is added to those under way. *)
Longer(s, l) == [s EXCEPT !.load = Append(@, l)]

(* A read that begins leaves the entries and the other reads in order. *)
LEMMA LongerStep ==
    ASSUME NEW s, Shape(s), NEW l \in Load,
           \/ l.leader = Len(s.load) + 1 /\ l.st = "queued"
           \/ l.st = "joined" /\ l.leader \in DOMAIN s.load /\ s.load[l.leader].leader = l.leader
    PROVE  /\ Shape(Longer(s, l)) /\ Entries(Longer(s, l)) = Entries(s)
           /\ Longer(s, l).map = s.map /\ Longer(s, l).index = s.index
           /\ DOMAIN Longer(s, l).load = DOMAIN s.load \cup {Len(s.load) + 1}
           /\ Len(Longer(s, l).load) = Len(s.load) + 1
           /\ Len(s.load) + 1 \notin DOMAIN s.load
           /\ Longer(s, l).load[Len(s.load) + 1] = l
           /\ \A n \in DOMAIN s.load : Longer(s, l).load[n] = s.load[n]
           /\ Promised(s, {}) => Promised(Longer(s, l), {Len(s.load) + 1})
           /\ Promised(s, {}) /\ l.st = "joined" => Promised(Longer(s, l), {})
<1> USE DEF Shape
<1> DEFINE t == Longer(s, l)
           L == Append(s.load, l)
           m == Len(s.load) + 1
<1>0. s.map \in Seq(Entry) /\ s.index \in [Key -> SUBSET Command] /\ s.load \in Seq(Load)
  BY Parts
<1>1. t = [s EXCEPT !.load = L]
  BY DEF Longer
<1>2. L \in Seq(Load) /\ Len(L) = m /\ L[m] = l /\ (\A n \in DOMAIN s.load : n \in DOMAIN L /\ L[n] = s.load[n])
      /\ m \in DOMAIN L /\ (\A n \in DOMAIN L : n \in DOMAIN s.load \/ n = m)
  BY <1>0, AppendEntries
<1>3. m \notin DOMAIN s.load
  <2>1. DOMAIN s.load = 1..Len(s.load) /\ Len(s.load) \in Nat
    BY <1>0
  <2>2. QED
    BY <2>1
<1> HIDE DEF t, L, m
<1>4. t \in State /\ t.map = s.map /\ t.index = s.index /\ t.load = L
  BY <1>0, <1>1, <1>2 DEF State
<1>5. Entries(t) = Entries(s)
  BY <1>4 DEF Entries
<1>6. DOMAIN t.load = DOMAIN s.load \cup {m} /\ t.load[m] = l /\ \A n \in DOMAIN s.load : t.load[n] = s.load[n]
  BY <1>2, <1>4
<1>7. OneEach(t) /\ Filed(t)
  BY <1>4, <1>5 DEF OneEach, Filed
<1>8. Linked(t)
  BY <1>5, <1>6 DEF Linked, Link
<1>9. Leaders(t)
  <2>1. \A n \in DOMAIN s.load : s.load[n].leader \in DOMAIN s.load
    BY DEF Leaders
  <2>2. \/ l.leader = m /\ l.st = "queued"
        \/ l.st = "joined" /\ l.leader \in DOMAIN s.load /\ s.load[l.leader].leader = l.leader
    BY DEF m
  <2>3. SUFFICES ASSUME NEW n \in DOMAIN t.load
        PROVE  /\ t.load[n].leader \in DOMAIN t.load
               /\ t.load[t.load[n].leader].leader = t.load[n].leader
               /\ t.load[n].leader # n => t.load[n].st \in Ended \cup {"joined"}
               /\ t.load[n].st = "joined" => t.load[n].leader # n
    BY DEF Leaders
  <2>4. CASE n \in DOMAIN s.load
    BY <1>6, <2>1, <2>4 DEF Leaders
  <2>5. CASE n = m
    BY <1>3, <1>6, <2>2, <2>5
  <2>6. QED
    BY <1>6, <2>4, <2>5
<1>10. Promised(s, {}) => Promised(t, {m})
  BY <1>5, <1>6 DEF Promised
<1>11. Promised(s, {}) /\ l.st = "joined" => Promised(t, {})
  BY <1>5, <1>6 DEF Promised, InFlight
<1>12. Len(t.load) = m
  BY <1>2, <1>4
<1>13. Shape(t)
  BY <1>4, <1>7, <1>8, <1>9
<1>14. QED
  BY <1>3, <1>4, <1>5, <1>6, <1>10, <1>11, <1>12, <1>13 DEF t, m

(* A read that is called: served, joins another, or the first of its kind. *)
LEMMA HitGrows ==
    ASSUME NEW s, Shape(s), Promised(s, {}), NEW c, NEW cmd, cmd \in Cached(s)
    PROVE  Touched(s, cmd) \in State /\ Grows(s, Touched(s, cmd), c)
<1>1. Evolves(s, Touched(s, cmd), {})
  BY TouchedStep
<1>2. QED
  BY <1>1, EvolvesGrows DEF Evolves, Marks

(* The record of a read that is called. *)
LEMMA NewLoadType ==
    ASSUME EntryInv, NEW c \in Client, NEW cmd \in Command
    PROVE  /\ NewLoad(c, cmd) \in Load /\ Begun(c, NewLoad(c, cmd))
           /\ \A m \in Nat : /\ [NewLoad(c, cmd) EXCEPT !.st = "joined", !.leader = m] \in Load
                             /\ Begun(c, [NewLoad(c, cmd) EXCEPT !.st = "joined", !.leader = m])
<1>1. cl[c].epoch \in Nat
  BY DEF EntryInv, Types, Conn
<1>2. load \in Seq(Load)
  BY Parts, NextCache DEF EntryInv, Shape
<1>3. Len(load) + 1 \in Nat
  BY <1>2
<1>4. QED
  BY <1>1, <1>3 DEF NewLoad, Load, Begun, InFlight, Ended

(* 2b2: a read that joins another waits for one that was made. *)
LEMMA JoinGrows ==
    ASSUME EntryInv, NEW s, Shape(s), Promised(s, {}), NEW c \in Client, NEW cmd \in Command,
           cmd \in Cached(s), Join(c, s, cmd)
    PROVE  Grows(s, Cache', c)
<1> DEFINE t == Touched(s, cmd)
           x == EntryOf(s, cmd)
           l == [NewLoad(c, cmd) EXCEPT !.st = "joined", !.leader = x.load]
           u == Longer(t, l)
<1>1. t \in State /\ Grows(s, t, c) /\ t.load = s.load
  BY HitGrows, TouchedStep
<1>2. x \in Entries(s) /\ x.cmd = cmd
  BY Found
<1>3. x.load \in DOMAIN s.load /\ s.load[x.load].leader = x.load
  BY <1>2 DEF Shape, Linked, Link
<1>4. x \in Entry
  BY <1>2, Parts DEF Shape
<1>5. x.load \in Nat
  BY <1>4 DEF Entry
<1>7. Becomes(u)
  BY DEF Join, Longer
<1> HIDE DEF u, t, x
<1>6. l \in Load /\ Begun(c, l) /\ l.st = "joined" /\ l.leader = x.load
  <2>1. l \in Load /\ Begun(c, l)
    BY <1>5, NewLoadType
  <2>2. l.st = "joined" /\ l.leader = x.load
    BY DEF NewLoad
  <2>3. QED
    BY <2>1, <2>2
<1> HIDE DEF l
<1>8. Shape(t) /\ Promised(t, {})
  BY <1>1 DEF Grows
<1>9. /\ Shape(u) /\ Entries(u) = Entries(t)
      /\ DOMAIN u.load = DOMAIN t.load \cup {Len(t.load) + 1}
      /\ u.load[Len(t.load) + 1] = l
      /\ \A n \in DOMAIN t.load : u.load[n] = t.load[n]
      /\ Promised(u, {})
  BY <1>1, <1>3, <1>6, <1>8, LongerStep DEF u
<1>10. Grows(t, u, c)
  BY <1>6, <1>9 DEF Grows, Follows, AsBefore
<1>11. Cache' = u
  BY <1>7, <1>9, BecomesState DEF Shape
<1>12. QED
  BY <1>1, <1>10, <1>11, GrowsTwice

(* 3a: a read whose promise is stored. *)
LEMMA MissGrows ==
    ASSUME EntryInv, NEW s, Shape(s), Promised(s, {}), DOMAIN s.load = DOMAIN load,
           NEW c \in Client, NEW cmd \in Command, Miss(c, s, cmd)
    PROVE  Grows(s, Cache', c)
<1> DEFINE l == NewLoad(c, cmd)
           t == Longer(s, l)
           n == Len(s.load) + 1
           e == NewEntry(n, l, FALSE)
           r == Set(t, e)
<1>4. Becomes(Set(t, NewEntry(Len(t.load), l, FALSE)))
  BY DEF Miss, Longer
<1> HIDE DEF r, e, t, n
<1>1. /\ l \in Load /\ Begun(c, l) /\ l.st = "queued" /\ l.leader = Len(load) + 1
      /\ l.cmd = cmd /\ ~l.cleared
  <2>1. l \in Load /\ Begun(c, l)
    BY NewLoadType
  <2>2. l.st = "queued" /\ l.leader = Len(load) + 1 /\ l.cmd = cmd /\ ~l.cleared
    BY DEF NewLoad
  <2>3. QED
    BY <2>1, <2>2
<1>2. Len(s.load) = Len(load) /\ n = Len(load) + 1 /\ n \in Nat
  <2>1. s.load \in Seq(Load) /\ load \in Seq(Load)
    BY Parts, NextCache DEF EntryInv, Shape
  <2>2. 1..Len(s.load) = 1..Len(load) /\ Len(s.load) \in Nat /\ Len(load) \in Nat
    BY <2>1
  <2>3. QED
    BY <2>2 DEF n
<1>3. /\ Shape(t) /\ Entries(t) = Entries(s)
      /\ DOMAIN t.load = DOMAIN s.load \cup {n} /\ Len(t.load) = n
      /\ n \notin DOMAIN s.load
      /\ t.load[n] = l
      /\ \A m \in DOMAIN s.load : t.load[m] = s.load[m]
      /\ Promised(t, {n})
  BY <1>1, <1>2, LongerStep DEF t, n
<1>5. Becomes(r)
  BY <1>3, <1>4 DEF r, e
<1> HIDE DEF l
<1>6. /\ e \in Entry /\ e.load = n /\ ~e.value /\ e.by = l.by /\ e.epoch = l.epoch /\ e.cmd = l.cmd
  BY <1>1, <1>2 DEF NewEntry, Entry, Load, e
<1>7. Link(t, e)
  BY <1>1, <1>2, <1>3, <1>6 DEF Link, n
<1>8. Evolves(t, r, {e}) /\ e \in Entries(r)
  BY <1>3, <1>6, <1>7, SetStep DEF r
<1>9. Shape(r)
  BY <1>3, <1>6, <1>7, <1>8, EvolvesShape
<1>10. Promised(r, {})
  BY <1>3, <1>6, <1>8, EvolvesPromised
<1>11. Cache' = r
  BY <1>5, <1>9, BecomesState DEF Shape
<1>12. Marks(t, r) /\ Entries(r) \subseteq Entries(s) \cup {e}
  BY <1>3, <1>8 DEF Evolves
<1>13. Follows(s, t) /\ AsBefore(s, t) /\ \A m \in DOMAIN t.load \ DOMAIN s.load : Begun(c, t.load[m])
  BY <1>1, <1>3 DEF Follows, AsBefore
<1>14. Follows(s, r)
  BY <1>12, <1>13, FollowsSteps
<1>15. AsBefore(s, r) /\ \A m \in DOMAIN r.load \ DOMAIN s.load : Begun(c, r.load[m])
  BY <1>12, <1>13 DEF Marks, AsBefore, Begun, Follows
<1>16. \A f \in Entries(r) : f \in Entries(s) \/ (~f.value /\ f.by = c /\ f.epoch = cl[c].epoch)
  BY <1>1, <1>6, <1>12 DEF Begun
<1>17. QED
  BY <1>9, <1>10, <1>11, <1>14, <1>15, <1>16 DEF Grows

(* handleCache up to its first wait. *)
LEMMA ReadGrows ==
    ASSUME EntryInv, NEW c \in Client, NEW cmd \in Command, Read(c, cmd)
    PROVE  Grows(Cache, Cache', c)
<1> DEFINE s == Get(Cache, cmd)
<1>1. Shape(Cache) /\ Promised(Cache, {})
  BY DEF EntryInv
<1>2. Grows(Cache, s, c) /\ DOMAIN s.load = DOMAIN load
  BY <1>1, GetGrows, NextCache
<1>3. /\ \/ cmd \in Cached(s) /\ Hit(s, cmd)
         \/ cmd \in Cached(s) /\ Join(c, s, cmd)
         \/ Miss(c, s, cmd)
  BY DEF Read
<1> HIDE DEF s
<1>4. Shape(s) /\ Promised(s, {})
  BY <1>2 DEF Grows
<1>5. Grows(s, Cache', c)
  <2>1. CASE cmd \in Cached(s) /\ Hit(s, cmd)
    <3>1. Touched(s, cmd) \in State /\ Grows(s, Touched(s, cmd), c)
      BY <1>4, <2>1, HitGrows
    <3>2. Cache' = Touched(s, cmd)
      BY <2>1, <3>1, BecomesState DEF Hit
    <3>3. QED
      BY <3>1, <3>2
  <2>2. CASE cmd \in Cached(s) /\ Join(c, s, cmd)
    BY <1>4, <2>2, JoinGrows
  <2>3. CASE Miss(c, s, cmd)
    BY <1>2, <1>4, <2>3, MissGrows
  <2>4. QED
    BY <1>3, <2>1, <2>2, <2>3
<1>6. QED
  BY <1>2, <1>5, GrowsTwice

-----------------------------------------------------------------------------
(* A read goes on after its answer. *)

(* Read n ends with st; the entries in new are added. *)
Settles(n, st, new) ==
    /\ Shape(Cache') /\ Promised(Cache', {}) /\ Follows(Cache, Cache')
    /\ DOMAIN load' = DOMAIN load /\ load'[n].st = st
    /\ \A m \in DOMAIN load : /\ m # n => load'[m].st = load[m].st
                              /\ load'[m].fresh = load[m].fresh /\ load'[m].storable = load[m].storable
    /\ Entries(Cache') \subseteq Entries(Cache) \cup new

(* A read under way made the entry it is about. *)
LEMMA PromiseOf ==
    ASSUME EntryInv, NEW n \in DOMAIN load, load[n].st \in InFlight
    PROVE  /\ load[n].leader = n
           /\ \/ load[n].bad \/ load[n].cleared
              \/ \E p \in Entries(Cache) : ~p.value /\ p.load = n /\ p.cmd = load[n].cmd
<1>1. load[n].leader = n
  BY NextCache DEF EntryInv, Shape, Leaders, InFlight, Ended
<1>2. SUFFICES ASSUME ~load[n].bad, ~load[n].cleared
      PROVE  \E p \in Entries(Cache) : ~p.value /\ p.load = n /\ p.cmd = load[n].cmd
  BY <1>1
<1>3. PICK p \in Entries(Cache) : ~p.value /\ p.load = n
  BY <1>2, NextCache DEF EntryInv, Promised
<1>4. p.cmd = load[n].cmd
  BY <1>3, NextCache DEF EntryInv, Shape, Linked, Link
<1>5. QED
  BY <1>3, <1>4

(* A cache left alone. *)
LEMMA EvolvesSame ==
    ASSUME NEW s, Shape(s)
    PROVE  Evolves(s, s, {})
BY DEF Shape, Evolves, Marks

(* A read ends. *)
LEMMA FinishGoes ==
    ASSUME EntryInv, NEW n \in DOMAIN load, load[n].st \in InFlight \cup {"joined"}, NEW st \in Ended
    PROVE  /\ Goes(Cache, Finish(Cache, n, st))
           /\ DOMAIN Finish(Cache, n, st).load = DOMAIN load
           /\ Finish(Cache, n, st).load[n].st = st
           /\ \A m \in DOMAIN load : m # n => Finish(Cache, n, st).load[m] = load[m]
           /\ Finish(Cache, n, st).load[n].fresh = load[n].fresh
           /\ Finish(Cache, n, st).load[n].storable = load[n].storable
<1> DEFINE s == Finish(Cache, n, st)
           x == [load[n] EXCEPT !.st = st]
           L == [load EXCEPT ![n] = x]
<1>0. map \in Seq(Entry) /\ index \in [Key -> SUBSET Command] /\ load \in Seq(Load) /\ load[n] \in Load
  BY Parts, NextCache DEF EntryInv, Shape
<1>1. s = [Cache EXCEPT !.load = L]
  BY DEF Finish, Cache
<1>2. /\ x \in Load /\ x.st = st /\ x.cmd = load[n].cmd /\ x.by = load[n].by /\ x.epoch = load[n].epoch
      /\ x.leader = load[n].leader /\ x.bad = load[n].bad /\ x.cleared = load[n].cleared
      /\ x.fresh = load[n].fresh /\ x.storable = load[n].storable
  BY <1>0 DEF Load, InFlight, Ended
<1> HIDE DEF x, s
<1>3. L \in Seq(Load) /\ DOMAIN L = DOMAIN load /\ L[n] = x /\ \A m \in DOMAIN load : m # n => L[m] = load[m]
  BY <1>0, <1>2
<1> HIDE DEF L
<1>4. s \in State /\ s.map = map /\ s.index = index /\ s.load = L
  BY <1>0, <1>1, <1>3 DEF State, Cache
<1>5. Goes(Cache, s)
  BY <1>2, <1>3, <1>4, NextCache DEF Goes, InFlight, Ended
<1>6. QED
  BY <1>2, <1>3, <1>4, <1>5 DEF s

(* What a read does to the cache as it ends. *)
LEMMA SettlesStep ==
    ASSUME EntryInv, NEW n \in DOMAIN load, load[n].st \in InFlight \cup {"joined"}, NEW st \in Ended,
           NEW t, NEW new \in SUBSET Entry, Evolves(Finish(Cache, n, st), t, new),
           \A e \in new : Link(Finish(Cache, n, st), e), Becomes(t)
    PROVE  Settles(n, st, new) /\ Cache' = t
<1> DEFINE s == Finish(Cache, n, st)
<1>1. /\ Goes(Cache, s) /\ DOMAIN s.load = DOMAIN load /\ s.load[n].st = st
      /\ \A m \in DOMAIN load : m # n => s.load[m] = load[m]
      /\ s.load[n].fresh = load[n].fresh /\ s.load[n].storable = load[n].storable
  BY FinishGoes
<1> HIDE DEF s
<1>2. Shape(s) /\ Promised(s, {}) /\ Entries(s) = Entries(Cache)
  BY <1>1, GoesShape DEF EntryInv
<1>3. Evolves(s, t, new) /\ \A e \in new : Link(s, e)
  BY DEF s
<1>4. Shape(t)
  BY <1>2, <1>3, EvolvesShape
<1>5. Promised(t, {})
  BY <1>2, <1>3, EvolvesPromised
<1>6. Marks(s, t) /\ Entries(t) \subseteq Entries(s) \cup new
  BY <1>3 DEF Evolves
<1>7. Cache' = t
  BY <1>4, BecomesState DEF Shape
<1>8. load' = t.load
  BY DEF Becomes
<1>9. Follows(Cache, t)
  BY <1>1, <1>6, FollowsSteps
<1>10. DOMAIN load' = DOMAIN load /\ load'[n].st = st
  BY <1>1, <1>6, <1>8 DEF Marks
<1>11. \A m \in DOMAIN load : /\ m # n => load'[m].st = load[m].st
                              /\ load'[m].fresh = load[m].fresh /\ load'[m].storable = load[m].storable
  BY <1>1, <1>6, <1>8 DEF Marks
<1>12. QED
  BY <1>2, <1>4, <1>5, <1>6, <1>7, <1>9, <1>10, <1>11 DEF Settles

(* Whatever became of its entry, get does not hand it out. *)
Discarded(n) == load'[n].bad \/ load'[n].cleared \/ Gone(load[n].by, load[n].epoch)

(* A read that ends without touching its entry, because it is not valid. *)
LEMMA NotValid ==
    ASSUME EntryInv, NEW n \in DOMAIN load, ~StillValid(n)
    PROVE  load[n].bad \/ Gone(load[n].by, load[n].epoch)
<1>1. load[n] \in Load
  BY Parts, NextCache DEF EntryInv, Shape
<1>2. load[n].epoch \in Nat /\ load[n].by \in Client
  BY <1>1 DEF Load
<1>3. cl[load[n].by].epoch \in Nat
  BY <1>2 DEF EntryInv, Types, Conn
<1>4. CASE load[n].bad
  BY <1>4
<1>5. CASE ~OfItsConnection([by |-> load[n].by, epoch |-> load[n].epoch])
  <2>1. conf.provider = "noredirect" /\ ~(cl[load[n].by].up /\ cl[load[n].by].epoch = load[n].epoch)
    BY <1>5 DEF OfItsConnection
  <2>2. load[n].epoch <= cl[load[n].by].epoch
    BY <2>1 DEF EntryInv, Epochs
  <2>3. QED
    BY <1>2, <1>3, <2>1, <2>2 DEF Gone
<1>6. QED
  BY <1>4, <1>5 DEF StillValid

(* A read that ends by deleting its entry, or finds it invalid. *)
LEMMA EndsDiscarded ==
    ASSUME EntryInv, NEW n \in DOMAIN load, load[n].st \in InFlight, NEW st \in Ended,
           \/ StillValid(n) /\ Becomes(Delete(Finish(Cache, n, st), {load[n].cmd}))
           \/ ~StillValid(n) /\ Becomes(Finish(Cache, n, st))
    PROVE  Settles(n, st, {}) /\ Discarded(n)
<1> DEFINE s == Finish(Cache, n, st)
<1>1. Goes(Cache, s)
  BY FinishGoes
<1> HIDE DEF s
<1>2. Shape(s) /\ Entries(s) = Entries(Cache)
  BY <1>1, GoesShape DEF EntryInv
<1>3. CASE StillValid(n) /\ Becomes(Delete(s, {load[n].cmd}))
  <2> DEFINE t == Delete(s, {load[n].cmd})
  <2>1. /\ Evolves(s, t, {})
        /\ \A e \in Entries(s) : e.cmd \in {load[n].cmd} /\ ~e.value => t.load[e.load].bad
    BY <1>2, DeleteStep
  <2>2. Becomes(t) /\ load' = t.load
    BY <1>3 DEF Becomes
  <2> HIDE DEF t
  <2>3. Settles(n, st, {})
    BY <2>1, <2>2, SettlesStep DEF s
  <2>4. CASE load[n].bad \/ load[n].cleared
    BY <2>3, <2>4, NextCache DEF Settles, Follows, Discarded
  <2>5. CASE \E p \in Entries(Cache) : ~p.value /\ p.load = n /\ p.cmd = load[n].cmd
    BY <1>2, <2>1, <2>2, <2>3, <2>5 DEF Discarded
  <2>6. \/ load[n].bad \/ load[n].cleared
        \/ \E p \in Entries(Cache) : ~p.value /\ p.load = n /\ p.cmd = load[n].cmd
    BY PromiseOf
  <2>7. QED
    BY <2>3, <2>4, <2>5, <2>6
<1>4. CASE ~StillValid(n) /\ Becomes(s)
  <2>1. Evolves(s, s, {})
    BY <1>2, EvolvesSame
  <2>2. Settles(n, st, {})
    BY <1>4, <2>1, SettlesStep DEF s
  <2>3. load[n].bad \/ Gone(load[n].by, load[n].epoch)
    BY <1>4, NotValid
  <2>4. load[n].bad => load'[n].bad
    BY <2>2, NextCache DEF Settles, Follows
  <2>5. QED
    BY <2>2, <2>3, <2>4 DEF Discarded
<1>5. QED
  BY <1>3, <1>4 DEF s

(* A read that ends by storing its value. *)
LEMMA EndsStored ==
    ASSUME EntryInv, NEW n \in DOMAIN load, load[n].st \in InFlight,
           Becomes(Set(Finish(Cache, n, "done"), NewEntry(n, load[n], TRUE)))
    PROVE  Settles(n, "done", {NewEntry(n, load[n], TRUE)}) /\ Discarded(n)
<1> DEFINE s == Finish(Cache, n, "done")
           e == NewEntry(n, load[n], TRUE)
           t == Set(s, e)
<1>0. Becomes(t) /\ load' = t.load
  BY DEF Becomes
<1>1. Goes(Cache, s) /\ s.load[n].st = "done"
  BY FinishGoes DEF Ended
<1>2. e.cmd = load[n].cmd /\ e.load = n /\ e.value /\ e \in Entry
  <2>1. load[n] \in Load /\ n \in Nat
    BY Parts, NextCache DEF EntryInv, Shape
  <2>2. load[n].cmd \in Command /\ load[n].by \in Client
    BY <2>1 DEF Load
  <2>3. cl[load[n].by].epoch \in Nat
    BY <2>2 DEF EntryInv, Types, Conn
  <2>4. QED
    BY <2>1, <2>2, <2>3 DEF NewEntry, Entry
<1> HIDE DEF s, e, t
<1>3. Shape(s) /\ Entries(s) = Entries(Cache)
  BY <1>1, GoesShape DEF EntryInv
<1>4. Link(s, e)
  BY <1>1, <1>2, PromiseOf, NextCache DEF Link, Goes
<1>5. /\ Evolves(s, t, {e})
      /\ \A f \in Entries(s) : f.cmd = e.cmd /\ ~f.value => t.load[f.load].bad
  BY <1>2, <1>3, <1>4, SetStep DEF t
<1>6. Settles(n, "done", {e})
  BY <1>0, <1>2, <1>4, <1>5, SettlesStep DEF s, Ended
<1>7. CASE load[n].bad \/ load[n].cleared
  BY <1>6, <1>7, NextCache DEF Settles, Follows, Discarded, e
<1>8. CASE \E p \in Entries(Cache) : ~p.value /\ p.load = n /\ p.cmd = load[n].cmd
  BY <1>0, <1>2, <1>3, <1>5, <1>6, <1>8 DEF Discarded, e
<1>9. QED
  BY <1>6, <1>7, <1>8, PromiseOf DEF e

(* 3c, when the reply has come. *)
LEMMA ResumeSettles ==
    ASSUME EntryInv, NEW n \in DOMAIN load, Resume(n)
    PROVE  /\ Discarded(n)
           /\ \/ Settles(n, "done", {NewEntry(n, load[n], TRUE)}) /\ Stores(n)
              \/ Settles(n, "done", {})
<1>0. load[n].st \in InFlight /\ "done" \in Ended
  BY DEF Resume, InFlight, Ended
<1>1. CASE Stores(n)
  <2>1. Becomes(Set(Finish(Cache, n, "done"), NewEntry(n, load[n], TRUE)))
    BY <1>1 DEF Resume
  <2>2. QED
    BY <1>0, <1>1, <2>1, EndsStored
<1>2. CASE ~load[n].storable /\ StillValid(n)
  <2>1. Becomes(Delete(Finish(Cache, n, "done"), {load[n].cmd}))
    BY <1>2 DEF Resume, Stores
  <2>2. QED
    BY <1>0, <1>2, <2>1, EndsDiscarded
<1>3. CASE ~StillValid(n)
  <2>1. Becomes(Finish(Cache, n, "done"))
    BY <1>3 DEF Resume, Stores
  <2>2. QED
    BY <1>0, <1>3, <2>1, EndsDiscarded
<1>4. QED
  BY <1>1, <1>2, <1>3 DEF Stores

(* The catch of a read that failed. *)
LEMMA ResumeFailedSettles ==
    ASSUME EntryInv, NEW n \in DOMAIN load, ResumeFailed(n)
    PROVE  Discarded(n) /\ Settles(n, "threw", {})
<1>0. load[n].st \in InFlight /\ "threw" \in Ended
  BY DEF ResumeFailed, InFlight, Ended
<1>1. CASE StillValid(n)
  <2>1. Becomes(Delete(Finish(Cache, n, "threw"), {load[n].cmd}))
    BY <1>1 DEF ResumeFailed, Failed
  <2>2. QED
    BY <1>0, <1>1, <2>1, EndsDiscarded
<1>2. CASE ~StillValid(n)
  <2>1. Becomes(Finish(Cache, n, "threw"))
    BY <1>2 DEF ResumeFailed, Failed
  <2>2. QED
    BY <1>0, <1>2, <2>1, EndsDiscarded
<1>3. QED
  BY <1>1, <1>2

(* A read that joined stores the value again only where its leader's entry *)
(* was cleared away.                                                       *)
LEMMA ResumeJoinedSettles ==
    ASSUME EntryInv, NEW n \in DOMAIN load, ResumeJoined(n)
    PROVE  \E st \in Ended, m \in DOMAIN load, e \in Entry :
              /\ load[n].leader # n /\ load[n].st = "joined"
              /\ e.load = m /\ e.value /\ e.epoch = cl[e.by].epoch
              /\ Settles(n, st, {}) \/ (Settles(n, st, {e}) /\ load[m].cleared)
<1> DEFINE m == load[n].leader
           st == load[m].st
           e == NewEntry(m, [load[m] EXCEPT !.by = load[n].by], TRUE)
           s == Finish(Cache, n, st)
<1>0. load[n].st = "joined" /\ st \in Ended /\ Becomes(IF load[m].st = "done" /\ StillValid(m) THEN Set(s, e) ELSE s)
  BY DEF ResumeJoined, Settled, Ended
<1>1. load[n] \in Load /\ load \in Seq(Load)
  BY Parts, NextCache DEF EntryInv, Shape
<1>2. m \in DOMAIN load /\ m # n /\ load[m].leader = m
  BY <1>0, NextCache DEF EntryInv, Shape, Leaders
<1>3. load[m] \in Load /\ m \in Nat
  BY <1>1, <1>2
<1>4. /\ e \in Entry /\ e.load = m /\ e.value /\ e.by = load[n].by /\ e.epoch = cl[e.by].epoch
      /\ e.cmd = load[m].cmd
  <2>1. load[n].by \in Client
    BY <1>1 DEF Load
  <2>2. cl[load[n].by].epoch \in Nat
    BY <2>1 DEF EntryInv, Types, Conn
  <2>3. QED
    BY <1>3, <2>1, <2>2 DEF NewEntry, Entry, Load
<1> HIDE DEF e
<1>5. /\ Goes(Cache, s) /\ DOMAIN s.load = DOMAIN load
      /\ \A k \in DOMAIN load : k # n => s.load[k] = load[k]
  BY <1>0, FinishGoes
<1> HIDE DEF s
<1>6. Shape(s)
  BY <1>5, GoesShape DEF EntryInv
<1>7. CASE load[m].st = "done" /\ StillValid(m)
  <2>1. load[m].cleared
    <3>1. EndsOf(m)
      BY <1>2 DEF EntryInv, Ends
    <3>2. load[m].bad \/ load[m].cleared \/ Gone(load[m].by, load[m].epoch)
      BY <1>2, <1>7, <3>1 DEF EndsOf, Ended
    <3>3. ~load[m].bad /\ OfItsConnection([by |-> load[m].by, epoch |-> load[m].epoch])
      BY <1>7 DEF StillValid
    <3>4. load[m].epoch \in Nat /\ load[m].by \in Client
      BY <1>3 DEF Load
    <3>5. cl[load[m].by].epoch \in Nat
      BY <3>4 DEF EntryInv, Types, Conn
    <3>6. ~Gone(load[m].by, load[m].epoch)
      BY <3>3, <3>4, <3>5 DEF OfItsConnection, Gone
    <3>7. QED
      BY <3>2, <3>3, <3>6
  <2>2. Link(s, e)
    BY <1>2, <1>4, <1>5, <1>7 DEF Link
  <2>3. Evolves(s, Set(s, e), {e})
    BY <1>4, <1>6, <2>2, SetStep
  <2>4. Becomes(Set(s, e))
    BY <1>0, <1>7
  <2>5. Settles(n, st, {e})
    BY <1>0, <1>4, <2>2, <2>3, <2>4, SettlesStep DEF s
  <2>6. QED
    BY <1>0, <1>2, <1>4, <2>1, <2>5
<1>8. CASE ~(load[m].st = "done" /\ StillValid(m))
  <2>1. Becomes(s)
    BY <1>0, <1>8
  <2>2. Evolves(s, s, {})
    BY <1>6, EvolvesSame
  <2>3. Settles(n, st, {})
    BY <1>0, <2>1, <2>2, SettlesStep DEF s
  <2>4. QED
    BY <1>0, <1>2, <1>4, <2>3
<1>9. QED
  BY <1>7, <1>8

-----------------------------------------------------------------------------
(* A connection never goes back to an epoch it left. *)
ConnStep ==
    /\ conf' = conf
    /\ conf.provider = "noredirect" =>
         \A c \in Client : /\ cl[c].epoch <= cl'[c].epoch
                           /\ ~cl[c].up => ~cl'[c].up \/ cl'[c].epoch > cl[c].epoch

(* What validate() refuses, it refuses from then on. *)
LEMMA GoneStays ==
    ASSUME EntryInv, Types', ConnStep, NEW c \in Client, NEW epoch \in Nat, epoch <= cl[c].epoch, Gone(c, epoch)
    PROVE  Gone(c, epoch)'
<1>1. cl[c].epoch \in Nat /\ cl'[c].epoch \in Nat
  BY DEF EntryInv, Types, Conn
<1>2. QED
  BY <1>1 DEF ConnStep, Gone

(* What every step keeps. *)
LEMMA InvStep ==
    ASSUME EntryInv, Types', ConnStep, Shape(Cache'), Promised(Cache', {}), Follows(Cache, Cache'), Answered',
           conf.provider = "noredirect" =>
               \A e \in Entries(Cache') : e \in Entries(Cache) \/ e.epoch <= cl[e.by].epoch,
           \A n \in DOMAIN load' \ DOMAIN load : load'[n].st \notin Ended /\ load'[n].epoch <= cl[load'[n].by].epoch,
           \A n \in DOMAIN load : load'[n].st \in Ended /\ load[n].st \notin Ended /\ load[n].leader = n => Discarded(n)
    PROVE  EntryInv'
<1>1. \A n \in DOMAIN load : load[n].epoch \in Nat /\ load[n].by \in Client
  <2>1. \A n \in DOMAIN load : load[n] \in Load
    BY Parts, NextCache DEF EntryInv, Shape
  <2>2. QED
    BY <2>1 DEF Load
<1>2. \A n \in DOMAIN load' : load'[n].epoch \in Nat /\ load'[n].by \in Client
  <2>1. \A n \in DOMAIN load' : load'[n] \in Load
    BY Parts, NextCache DEF Shape
  <2>2. QED
    BY <2>1 DEF Load
<1>3. \A e \in Entries(Cache') : e.epoch \in Nat /\ e.by \in Client
  <2>1. Entries(Cache') \subseteq Entry
    BY Parts DEF Shape
  <2>2. QED
    BY <2>1 DEF Entry
<1>4. \A c \in Client : cl[c].epoch \in Nat /\ cl'[c].epoch \in Nat
  BY DEF EntryInv, Types, Conn
<1>5. DOMAIN load \subseteq DOMAIN load' /\ \A n \in DOMAIN load :
         /\ load'[n].by = load[n].by /\ load'[n].epoch = load[n].epoch /\ load'[n].leader = load[n].leader
         /\ load[n].bad => load'[n].bad
         /\ load[n].cleared => load'[n].cleared
  BY NextCache DEF Follows
<1>6. Ends'
  <2>1. SUFFICES ASSUME NEW n \in DOMAIN load', load'[n].leader = n, load'[n].st \in Ended
        PROVE  load'[n].bad \/ load'[n].cleared \/ Gone(load[n].by, load[n].epoch)'
    BY DEF Ends, EndsOf, Gone
  <2>2. n \in DOMAIN load
    BY <2>1
  <2>3. load'[n].bad \/ load'[n].cleared \/ Gone(load[n].by, load[n].epoch)
    <3>1. CASE load[n].st \in Ended
      BY <1>5, <2>1, <2>2, <3>1 DEF EntryInv, Ends, EndsOf
    <3>2. CASE load[n].st \notin Ended
      BY <1>5, <2>1, <2>2, <3>2 DEF Discarded
    <3>3. QED
      BY <3>1, <3>2
  <2>4. ASSUME Gone(load[n].by, load[n].epoch) PROVE Gone(load[n].by, load[n].epoch)'
    <3>1. load[n].epoch <= cl[load[n].by].epoch
      BY <2>2, <2>4 DEF EntryInv, Epochs, Gone
    <3>2. PICK c \in Client, epoch \in Nat : c = load[n].by /\ epoch = load[n].epoch
      BY <1>1, <2>2
    <3>3. Gone(c, epoch)'
      BY <2>4, <3>1, <3>2, GoneStays
    <3>4. c = load'[n].by /\ epoch = load'[n].epoch
      BY <1>5, <2>2, <3>2
    <3>5. QED
      BY <3>3, <3>4 DEF Gone
  <2>5. QED
    BY <2>3, <2>4
<1>7. Epochs'
  <2>1. SUFFICES ASSUME conf'.provider = "noredirect"
        PROVE  /\ \A n \in DOMAIN load' : load'[n].epoch <= cl'[load'[n].by].epoch
               /\ \A e \in Entries(Cache') : e.epoch <= cl'[e.by].epoch
    BY NextCache DEF Epochs
  <2>2. conf.provider = "noredirect" /\ \A c \in Client : cl[c].epoch <= cl'[c].epoch
    BY <2>1 DEF ConnStep
  <2>3. \A n \in DOMAIN load' : load'[n].epoch <= cl[load'[n].by].epoch
    <3>1. \A n \in DOMAIN load : load[n].epoch <= cl[load[n].by].epoch
      BY <2>2 DEF EntryInv, Epochs
    <3>2. QED
      BY <1>5, <3>1
  <2>4. \A e \in Entries(Cache') : e.epoch <= cl[e.by].epoch
    BY <2>2 DEF EntryInv, Epochs
  <2>5. \A n \in DOMAIN load' : load'[n].epoch <= cl'[load'[n].by].epoch
    BY <1>2, <1>4, <2>2, <2>3
  <2>6. \A e \in Entries(Cache') : e.epoch <= cl'[e.by].epoch
    BY <1>3, <1>4, <2>2, <2>4
  <2>7. QED
    BY <2>5, <2>6
<1>8. QED
  BY <1>6, <1>7, NextCache DEF EntryInv

(* The replies on a connection are still those of the reads that were sent *)
(* on it.                                                                  *)
LEMMA AnswersSame ==
    ASSUME NEW c, Answers(c), cl'[c].wire = cl[c].wire,
           \A n \in DOMAIN load : load[n].st = "sent" /\ load[n].by = c =>
               n \in DOMAIN load' /\ load'[n].st = "sent" /\ load'[n].by = c
    PROVE  Answers(c)'
BY DEF Answers

(* A connection that is lost has none. *)
LEMMA AnswersNone ==
    ASSUME NEW c, cl'[c].wire = <<>>
    PROVE  Answers(c)'
BY DEF Answers

(* The read that was called. *)
LEMMA ReadInv ==
    ASSUME EntryInv, NEW c \in Client, NEW cmd \in Command, Read(c, cmd)
    PROVE  EntryInv'
<1>1. Grows(Cache, Cache', c)
  BY ReadGrows
<1>2. conf' = conf /\ cl' = cl /\ srv' = srv /\ DOMAIN left' = DOMAIN left
  BY DEF Read, Spend
<1>3. Types'
  BY <1>2 DEF EntryInv, Types, Settings
<1>4. cl[c].epoch \in Nat
  BY DEF EntryInv, Types, Conn
<1>5. ConnStep
  <2>1. \A d \in Client : cl[d].epoch \in Nat
    BY DEF EntryInv, Types, Conn
  <2>2. QED
    BY <1>2, <2>1 DEF ConnStep
<1>6. Answered'
  <2>1. \A n \in DOMAIN load : n \in DOMAIN load' /\ load'[n].st = load[n].st /\ load'[n].by = load[n].by
    BY <1>1, NextCache DEF Grows, Follows, AsBefore
  <2>2. \A d \in Client : Answers(d)'
    BY <1>2, <2>1, AnswersSame DEF EntryInv, Answered
  <2>3. QED
    BY <2>2 DEF Answered
<1>7. \A e \in Entries(Cache') : e \in Entries(Cache) \/ e.epoch <= cl[e.by].epoch
  BY <1>1, <1>4 DEF Grows
<1>8. \A n \in DOMAIN load' \ DOMAIN load : load'[n].st \notin Ended /\ load'[n].epoch <= cl[load'[n].by].epoch
  BY <1>1, <1>4, NextCache DEF Grows, Begun, Ended
<1>9. \A n \in DOMAIN load : load'[n].st = load[n].st
  BY <1>1, NextCache DEF Grows, AsBefore
<1>10. QED
  BY <1>1, <1>3, <1>5, <1>6, <1>7, <1>8, <1>9, InvStep DEF Grows

(* A read that ended. *)
LEMMA SettlesInv ==
    ASSUME EntryInv, NEW n \in DOMAIN load, NEW st \in Ended, NEW new, Settles(n, st, new), load[n].st # "sent",
           load[n].leader = n => Discarded(n),
           \A e \in new : e.epoch = cl[e.by].epoch,
           UNCHANGED <<conf, cl, srv, left>>
    PROVE  EntryInv'
<1>1. Types'
  BY DEF EntryInv, Types, Settings
<1>2. \A d \in Client : cl[d].epoch \in Nat
  BY DEF EntryInv, Types, Conn
<1>3. ConnStep
  BY <1>2 DEF ConnStep
<1>4. Answered'
  <2>1. \A m \in DOMAIN load : /\ m \in DOMAIN load' /\ load'[m].by = load[m].by
                               /\ m # n => load'[m].st = load[m].st
    BY NextCache DEF Settles, Follows
  <2>2. \A d \in Client : Answers(d)'
    BY <2>1, AnswersSame DEF EntryInv, Answered
  <2>3. QED
    BY <2>2 DEF Answered
<1>5. \A e \in Entries(Cache') : e \in Entries(Cache) \/ e.epoch <= cl[e.by].epoch
  <2>1. Entries(Cache') \subseteq Entry
    BY Parts DEF Settles, Shape
  <2>2. \A e \in Entries(Cache') : e.by \in Client
    BY <2>1 DEF Entry
  <2>3. QED
    BY <1>2, <2>2 DEF Settles
<1>6. \A m \in DOMAIN load : m # n => load'[m].st = load[m].st
  BY DEF Settles
<1>7. DOMAIN load' \ DOMAIN load = {}
  BY DEF Settles
<1>8. QED
  BY <1>1, <1>3, <1>4, <1>5, <1>6, <1>7, InvStep DEF Settles

(* Resume, ResumeFailed and ResumeJoined. *)
LEMMA ResumeInv ==
    ASSUME EntryInv, NEW n \in DOMAIN load, Resume(n) \/ ResumeFailed(n) \/ ResumeJoined(n)
    PROVE  EntryInv'
<1>0. UNCHANGED <<conf, cl, srv, left>> /\ load[n].st # "sent"
  BY DEF Resume, ResumeFailed, ResumeJoined
<1>1. CASE Resume(n)
  <2>1. Discarded(n) /\ (Settles(n, "done", {NewEntry(n, load[n], TRUE)}) \/ Settles(n, "done", {}))
    BY <1>1, ResumeSettles
  <2>2. \A e \in {NewEntry(n, load[n], TRUE)} : e.epoch = cl[e.by].epoch
    BY DEF NewEntry
  <2>3. "done" \in Ended
    BY DEF Ended
  <2>4. CASE Settles(n, "done", {NewEntry(n, load[n], TRUE)})
    BY <1>0, <2>1, <2>2, <2>3, <2>4, SettlesInv
  <2>5. CASE Settles(n, "done", {})
    BY <1>0, <2>1, <2>3, <2>5, SettlesInv
  <2>6. QED
    BY <2>1, <2>4, <2>5
<1>2. CASE ResumeFailed(n)
  <2>1. Discarded(n) /\ Settles(n, "threw", {}) /\ "threw" \in Ended
    BY <1>2, ResumeFailedSettles DEF Ended
  <2>2. QED
    BY <1>0, <2>1, SettlesInv
<1>3. CASE ResumeJoined(n)
  <2>1. PICK st \in Ended, m \in DOMAIN load, e \in Entry :
              /\ load[n].leader # n /\ load[n].st = "joined"
              /\ e.load = m /\ e.value /\ e.epoch = cl[e.by].epoch
              /\ Settles(n, st, {}) \/ (Settles(n, st, {e}) /\ load[m].cleared)
    BY <1>3, ResumeJoinedSettles
  <2>2. CASE Settles(n, st, {})
    BY <1>0, <2>1, <2>2, SettlesInv
  <2>3. CASE Settles(n, st, {e})
    BY <1>0, <2>1, <2>3, SettlesInv
  <2>4. QED
    BY <2>1, <2>2, <2>3
<1>4. QED
  BY <1>1, <1>2, <1>3

-----------------------------------------------------------------------------
(* Reads of client c fail, and entries are dropped. *)
Falls(s, t, c) ==
    /\ Shape(t) /\ Promised(t, {}) /\ Follows(s, t)
    /\ DOMAIN t.load = DOMAIN s.load
    /\ \A n \in DOMAIN s.load :
         /\ t.load[n].fresh = s.load[n].fresh /\ t.load[n].storable = s.load[n].storable
         /\ \/ t.load[n].st = s.load[n].st
            \/ t.load[n].st = "failed" /\ s.load[n].st \in {"queued", "sent"} /\ s.load[n].by = c
    /\ Entries(t) \subseteq Entries(s)

(* Nothing is left in the cache, and no read under way will store. *)
Bare(s, t) ==
    /\ Entries(t) = {}
    /\ \A n \in DOMAIN s.load : s.load[n].st \in InFlight => t.load[n].bad \/ t.load[n].cleared

(* One after the other. *)
LEMMA FallsTwice ==
    ASSUME NEW s, NEW t, NEW u, NEW c, Falls(s, t, c), Falls(t, u, c)
    PROVE  /\ Falls(s, u, c)
           /\ Bare(s, t) => Bare(s, u)
           /\ Bare(t, u) => Bare(s, u)
<1>1. Follows(s, u)
  BY FollowsSteps DEF Falls
<1>2. \A n \in DOMAIN s.load :
         /\ u.load[n].fresh = s.load[n].fresh /\ u.load[n].storable = s.load[n].storable
         /\ \/ u.load[n].st = s.load[n].st
            \/ u.load[n].st = "failed" /\ s.load[n].st \in {"queued", "sent"} /\ s.load[n].by = c
  BY DEF Falls, Follows
<1>3. Falls(s, u, c)
  BY <1>1, <1>2 DEF Falls
<1>4. Bare(s, t) => Bare(s, u)
  BY DEF Bare, Falls, Follows
<1>5. Bare(t, u) => Bare(s, u)
  BY DEF Bare, Falls, InFlight
<1>6. QED
  BY <1>3, <1>4, <1>5

(* The cache alone. *)
LEMMA EvolvesFalls ==
    ASSUME NEW s, NEW t, NEW c, Shape(s), Promised(s, {}), Evolves(s, t, {})
    PROVE  Falls(s, t, c)
<1>1. Shape(t)
  BY EvolvesShape
<1>2. Promised(t, {})
  BY EvolvesPromised
<1>3. Marks(s, t) /\ Entries(t) \subseteq Entries(s)
  BY DEF Evolves
<1>4. Follows(s, t)
  BY <1>3, FollowsSteps
<1>5. QED
  BY <1>1, <1>2, <1>3, <1>4 DEF Falls, Marks

(* clear empties the cache. *)
LEMMA ClearBare ==
    ASSUME NEW s, NEW c, Shape(s), Promised(s, {})
    PROVE  /\ Falls(s, Clear(s), c) /\ Bare(s, Clear(s))
           /\ \A n \in DOMAIN s.load : Clear(s).load[n].st = s.load[n].st
<1> DEFINE t == Clear(s)
<1>1. Evolves(s, t, {}) /\ Entries(t) = {} /\ \A e \in Entries(s) : ~e.value => t.load[e.load].cleared
  BY ClearStep
<1> HIDE DEF t
<1>2. Falls(s, t, c)
  BY <1>1, EvolvesFalls
<1>3. Bare(s, t)
  BY <1>1, <1>2 DEF Bare, Falls, Follows, Promised
<1>4. \A n \in DOMAIN s.load : t.load[n].st = s.load[n].st
  BY <1>1 DEF Evolves, Marks
<1>5. QED
  BY <1>2, <1>3, <1>4 DEF t

(* onError and onClose of the provider. *)
LEMMA EmptiedFalls ==
    ASSUME NEW s, NEW c, Shape(s), Promised(s, {})
    PROVE  /\ Falls(s, Emptied(s), c)
           /\ conf.provider # "noredirect" => Bare(s, Emptied(s))
           /\ \A n \in DOMAIN s.load : Emptied(s).load[n].st = s.load[n].st
<1>1. CASE conf.provider = "noredirect"
  <2>1. Emptied(s) = s
    BY <1>1 DEF Emptied
  <2>2. Evolves(s, s, {})
    BY EvolvesSame
  <2>3. QED
    BY <1>1, <2>1, <2>2, EvolvesFalls
<1>2. CASE conf.provider # "noredirect"
  <2>1. Emptied(s) = Clear(s)
    BY <1>2 DEF Emptied
  <2>2. QED
    BY <2>1, ClearBare
<1>3. QED
  BY <1>1, <1>2

(* Reads that are rejected. *)
LEMMA FailFalls ==
    ASSUME NEW s, NEW c, NEW ns, Shape(s), Promised(s, {}),
           \A n \in DOMAIN s.load : n \in ns => s.load[n].st \in {"queued", "sent"} /\ s.load[n].by = c
    PROVE  Falls(s, Fail(s, ns), c)
<1> DEFINE t == Fail(s, ns)
           L == [n \in DOMAIN s.load |-> IF n \in ns THEN [s.load[n] EXCEPT !.st = "failed"] ELSE s.load[n]]
<1>0. /\ s.map \in Seq(Entry) /\ s.index \in [Key -> SUBSET Command] /\ s.load \in Seq(Load)
      /\ \A n \in DOMAIN s.load : s.load[n] \in Load
  BY Parts DEF Shape
<1>1. t = [s EXCEPT !.load = L]
  BY DEF Fail
<1> HIDE DEF t
<1>2. \A n \in DOMAIN s.load : [s.load[n] EXCEPT !.st = "failed"] \in Load
  BY <1>0, ZenonT(60) DEF Load, InFlight
<1>3. DOMAIN L = DOMAIN s.load /\ \A n \in DOMAIN s.load : L[n] \in Load
  BY <1>0, <1>2
<1>4. L \in Seq(Load)
  BY <1>0, <1>3, Pointwise
<1>5. \A n \in DOMAIN s.load : L[n] = IF n \in ns THEN [s.load[n] EXCEPT !.st = "failed"] ELSE s.load[n]
  OBVIOUS
<1> HIDE DEF L
<1>6. t \in State /\ t.map = s.map /\ t.index = s.index /\ t.load = L
  BY <1>0, <1>1, <1>4 DEF State, Shape
<1>7. \A n \in DOMAIN s.load :
         /\ L[n].cmd = s.load[n].cmd /\ L[n].by = s.load[n].by
         /\ L[n].epoch = s.load[n].epoch /\ L[n].leader = s.load[n].leader
         /\ L[n].fresh = s.load[n].fresh /\ L[n].storable = s.load[n].storable
         /\ L[n].bad = s.load[n].bad /\ L[n].cleared = s.load[n].cleared
         /\ n \in ns => L[n].st = "failed"
         /\ n \notin ns => L[n].st = s.load[n].st
  <2>1. SUFFICES ASSUME NEW n \in DOMAIN s.load
        PROVE  /\ L[n].cmd = s.load[n].cmd /\ L[n].by = s.load[n].by
               /\ L[n].epoch = s.load[n].epoch /\ L[n].leader = s.load[n].leader
               /\ L[n].fresh = s.load[n].fresh /\ L[n].storable = s.load[n].storable
               /\ L[n].bad = s.load[n].bad /\ L[n].cleared = s.load[n].cleared
               /\ n \in ns => L[n].st = "failed"
               /\ n \notin ns => L[n].st = s.load[n].st
    OBVIOUS
  <2>2. CASE n \in ns
    <3>1. L[n] = [s.load[n] EXCEPT !.st = "failed"] /\ s.load[n] \in Load
      BY <1>0, <1>5, <2>2
    <3>2. QED
      BY ONLY <2>2, <3>1 DEF Load
  <2>3. CASE n \notin ns
    BY <1>5, <2>3
  <2>4. QED
    BY <2>2, <2>3
<1>8. Goes(s, t)
  BY <1>3, <1>6, <1>7 DEF Goes, InFlight
<1>9. Shape(t) /\ Entries(t) = Entries(s) /\ Promised(t, {})
  BY <1>8, GoesShape
<1>10. Follows(s, t)
  BY <1>8, FollowsSteps
<1>11. \A n \in DOMAIN s.load :
         /\ t.load[n].fresh = s.load[n].fresh /\ t.load[n].storable = s.load[n].storable
         /\ \/ t.load[n].st = s.load[n].st
            \/ t.load[n].st = "failed" /\ s.load[n].st \in {"queued", "sent"} /\ s.load[n].by = c
  BY <1>6, <1>7
<1>12. QED
  BY <1>3, <1>6, <1>9, <1>10, <1>11 DEF Falls, t

(* A cache that falls becomes the next one. *)
LEMMA FallsNext ==
    ASSUME NEW s, NEW t, NEW c, Falls(s, t, c), Becomes(t)
    PROVE  Cache' = t
BY BecomesState DEF Falls, Shape

(* The socket fails. *)
LEMMA DropFalls ==
    ASSUME EntryInv, NEW c \in Client, Drop(c)
    PROVE  Falls(Cache, Cache', c) /\ (conf.provider # "noredirect" => Bare(Cache, Cache'))
<1>1. PICK lost \in SUBSET {n \in DOMAIN load : load[n].by = c /\ load[n].st = "queued"} :
        Becomes(Fail(Emptied(Cache),
            lost \cup {n \in DOMAIN load : load[n].by = c /\ load[n].st = "sent"}))
  BY DEF Drop
<1> DEFINE s == Emptied(Cache)
           ns == lost \cup {n \in DOMAIN load : load[n].by = c /\ load[n].st = "sent"}
           t == Fail(s, ns)
<1>2. /\ Falls(Cache, s, c) /\ (conf.provider # "noredirect" => Bare(Cache, s))
      /\ \A n \in DOMAIN Cache.load : s.load[n].st = Cache.load[n].st
  BY EmptiedFalls DEF EntryInv
<1> HIDE DEF s
<1>3. Becomes(t)
  BY <1>1 DEF s
<1>4. \A n \in DOMAIN s.load : n \in ns => s.load[n].st \in {"queued", "sent"} /\ s.load[n].by = c
  BY <1>2, NextCache DEF Falls, Follows
<1> HIDE DEF t
<1>5. Falls(s, t, c)
  <2>1. Shape(s) /\ Promised(s, {})
    BY <1>2 DEF Falls
  <2> HIDE DEF ns
  <2>2. QED
    BY <1>4, <2>1, FailFalls DEF t
<1>6. Falls(Cache, t, c) /\ (conf.provider # "noredirect" => Bare(Cache, t))
  BY <1>2, <1>5, FallsTwice
<1>7. Cache' = t
  BY <1>3, <1>5, FallsNext
<1>8. QED
  BY <1>6, <1>7

(* destroy() *)
LEMMA DestroyFalls ==
    ASSUME EntryInv, NEW c \in Client, Destroy(c)
    PROVE  Falls(Cache, Cache', c) /\ (conf.provider # "noredirect" => Bare(Cache, Cache'))
<1> DEFINE ns == {n \in DOMAIN load : load[n].by = c /\ load[n].st \in {"queued", "sent"}}
           s == Fail(Cache, ns)
           t == Emptied(s)
<1>1. Becomes(t)
  BY DEF Destroy
<1>2. \A n \in DOMAIN Cache.load : n \in ns => Cache.load[n].st \in {"queued", "sent"} /\ Cache.load[n].by = c
  BY NextCache
<1> HIDE DEF ns, t
<1>3. Falls(Cache, s, c)
  BY <1>2, FailFalls DEF EntryInv
<1> HIDE DEF s
<1>4. Falls(s, t, c) /\ (conf.provider # "noredirect" => Bare(s, t))
  <2>1. Shape(s) /\ Promised(s, {})
    BY <1>3 DEF Falls
  <2>2. QED
    BY <2>1, EmptiedFalls DEF t
<1>5. Falls(Cache, t, c) /\ (conf.provider # "noredirect" => Bare(Cache, t))
  BY <1>3, <1>4, FallsTwice
<1>6. Cache' = t
  BY <1>1, <1>4, FallsNext
<1>7. QED
  BY <1>5, <1>6

(* MOVING *)
LEMMA HandoffFalls ==
    ASSUME EntryInv, NEW c \in Client, Handoff(c)
    PROVE  Falls(Cache, Cache', c) /\ (conf.provider \notin {"noredirect", "own"} => Bare(Cache, Cache'))
<1>0. Shape(Cache) /\ Promised(Cache, {}) /\ Cache \in State
  BY DEF EntryInv, Shape
<1>1. CASE conf.provider = "own"
  <2>1. Becomes(Cache)
    BY <1>1 DEF Handoff
  <2>2. Evolves(Cache, Cache, {})
    BY <1>0, EvolvesSame
  <2>3. Falls(Cache, Cache, c)
    BY <1>0, <2>2, EvolvesFalls
  <2>4. Cache' = Cache
    BY <2>1, <2>3, FallsNext
  <2>5. QED
    BY <1>1, <2>3, <2>4
<1>2. CASE conf.provider # "own"
  <2>1. Becomes(Emptied(Cache))
    BY <1>2 DEF Handoff
  <2>2. Falls(Cache, Emptied(Cache), c) /\ (conf.provider # "noredirect" => Bare(Cache, Emptied(Cache)))
    BY <1>0, EmptiedFalls
  <2>3. Cache' = Emptied(Cache)
    BY <2>1, <2>2, FallsNext
  <2>4. QED
    BY <2>2, <2>3
<1>3. QED
  BY <1>1, <1>2

(* A read that is still queued is aborted. *)
LEMMA AbortFalls ==
    ASSUME EntryInv, NEW n \in DOMAIN load, Abort(n)
    PROVE  Falls(Cache, Cache', load[n].by)
<1>1. \A m \in DOMAIN Cache.load : m \in {n} => Cache.load[m].st \in {"queued", "sent"} /\ Cache.load[m].by = load[n].by
  BY NextCache DEF Abort
<1>2. Falls(Cache, Fail(Cache, {n}), load[n].by)
  BY <1>1, FailFalls DEF EntryInv
<1>3. Becomes(Fail(Cache, {n}))
  BY DEF Abort
<1>4. QED
  BY <1>2, <1>3, FallsNext

(* The invariant after reads have failed. *)
LEMMA FallsInv ==
    ASSUME EntryInv, Types', ConnStep, Answered', NEW c, Falls(Cache, Cache', c)
    PROVE  EntryInv'
<1>1. \A e \in Entries(Cache') : e \in Entries(Cache)
  BY DEF Falls
<1>2. DOMAIN load' = DOMAIN load
  BY NextCache DEF Falls
<1>3. \A n \in DOMAIN load : load'[n].st = load[n].st \/ load'[n].st = "failed"
  BY NextCache DEF Falls
<1>4. \A n \in DOMAIN load : load'[n].st \in Ended => load[n].st \in Ended
  BY <1>3 DEF Ended
<1>5. QED
  BY <1>1, <1>2, <1>4, InvStep DEF Falls

(* The connections that are not c's keep their replies. *)
LEMMA FallsAnswers ==
    ASSUME EntryInv, NEW c, Falls(Cache, Cache', c),
           \A d \in Client : cl'[d].wire = IF d = c THEN <<>> ELSE cl[d].wire
    PROVE  Answered'
<1>1. SUFFICES ASSUME NEW d \in Client PROVE Answers(d)'
  BY DEF Answered
<1>2. CASE d = c
  <2>1. cl'[d].wire = <<>>
    BY <1>2
  <2>2. QED
    BY <2>1, AnswersNone
<1>3. CASE d # c
  <2>1. \A n \in DOMAIN load : load[n].st = "sent" /\ load[n].by = d =>
               n \in DOMAIN load' /\ load'[n].st = "sent" /\ load'[n].by = d
    BY <1>3, NextCache DEF Falls, Follows
  <2>2. cl'[d].wire = cl[d].wire /\ Answers(d)
    BY <1>3 DEF EntryInv, Answered
  <2>3. QED
    BY <2>1, <2>2, AnswersSame
<1>4. QED
  BY <1>2, <1>3

(* A connection that is lost or closed. *)
Cut(c) ==
    /\ conf' = conf /\ DOMAIN left' = DOMAIN left
    /\ cl' \in [Client -> Conn] /\ srv' = [srv EXCEPT ![c] = {}]
    /\ \A d \in Client : cl'[d].wire = IF d = c THEN <<>> ELSE cl[d].wire
    /\ \A d \in Client \ {c} : cl'[d] = cl[d]

(* Drop, Destroy and Handoff end what there was of the connection. *)
LEMMA CutStep ==
    ASSUME EntryInv, NEW c \in Client, Drop(c) \/ Destroy(c) \/ Handoff(c)
    PROVE  /\ Cut(c) /\ Types'
           /\ ~Handoff(c) => ~cl'[c].up /\ cl'[c].epoch = cl[c].epoch
<1> DEFINE x == IF Drop(c) THEN [cl[c] EXCEPT !.up = FALSE, !.wire = <<>>]
                ELSE IF Destroy(c) THEN [cl[c] EXCEPT !.up = FALSE, !.closed = TRUE, !.wire = <<>>]
                ELSE [cl[c] EXCEPT !.up = TRUE, !.epoch = 1, !.wire = <<>>]
<1>0. cl \in [Client -> Conn] /\ srv \in [Client -> SUBSET Key] /\ cl[c] \in Conn
  BY DEF EntryInv, Types
<1>1. cl' = [cl EXCEPT ![c] = x]
  BY <1>0 DEF Drop, Destroy, Handoff
<1>2. <<>> \in Seq(Message)
  OBVIOUS
<1>3. x \in Conn /\ x.wire = <<>> /\ (~Handoff(c) => ~x.up /\ x.epoch = cl[c].epoch)
  <2>0. \A w \in Seq(Message) : w = <<>> =>
          /\ [cl[c] EXCEPT !.up = FALSE, !.wire = w] \in Conn
          /\ [cl[c] EXCEPT !.up = FALSE, !.closed = TRUE, !.wire = w] \in Conn
          /\ [cl[c] EXCEPT !.up = TRUE, !.epoch = 1, !.wire = w] \in Conn
    BY <1>0 DEF Conn
  <2>1. x \in Conn
    BY <1>2, <2>0
  <2>2. x.wire = <<>> /\ (~Handoff(c) => ~x.up /\ x.epoch = cl[c].epoch)
    BY <1>0 DEF Conn
  <2>3. QED
    BY <2>1, <2>2
<1> HIDE DEF x
<1>4. /\ cl' \in [Client -> Conn] /\ cl'[c] = x /\ \A d \in Client \ {c} : cl'[d] = cl[d]
  BY <1>0, <1>1, <1>3
<1>5. conf' = conf /\ DOMAIN left' = DOMAIN left /\ srv' = [srv EXCEPT ![c] = {}]
  BY DEF Drop, Destroy, Handoff, Spend
<1>6. \A d \in Client : cl'[d].wire = IF d = c THEN <<>> ELSE cl[d].wire
  BY <1>3, <1>4
<1>7. srv' \in [Client -> SUBSET Key]
  BY <1>0, <1>5
<1>8. Types'
  BY <1>4, <1>5, <1>7 DEF EntryInv, Types, Settings
<1>9. QED
  BY <1>3, <1>4, <1>5, <1>6, <1>8 DEF Cut

(* The no-redirect cache sees no handoff. *)
LEMMA NoHandoff ==
    ASSUME EntryInv, NoRedirectStays, NEW c, Handoff(c)
    PROVE  conf.provider # "noredirect"
<1>1. "handoff" \in DOMAIN left
  BY DEF Handoff, Spend
<1>2. QED
  BY <1>1 DEF EntryInv, Types, Settings, NoRedirectStays

(* Drop, Destroy and Handoff. *)
LEMMA CutInv ==
    ASSUME NoRedirectStays, EntryInv, NEW c \in Client, Drop(c) \/ Destroy(c) \/ Handoff(c)
    PROVE  EntryInv'
<1>1. Falls(Cache, Cache', c)
  BY DropFalls, DestroyFalls, HandoffFalls
<1>2. Cut(c) /\ Types' /\ (~Handoff(c) => ~cl'[c].up /\ cl'[c].epoch = cl[c].epoch)
  BY CutStep
<1>3. ConnStep
  <2>1. \A d \in Client : cl[d].epoch \in Nat
    BY DEF EntryInv, Types, Conn
  <2>2. Handoff(c) => conf.provider # "noredirect"
    BY NoHandoff
  <2>3. QED
    BY <1>2, <2>1, <2>2 DEF ConnStep, Cut
<1>4. Answered'
  BY <1>1, <1>2, FallsAnswers DEF Cut
<1>5. QED
  BY <1>1, <1>2, <1>3, <1>4, FallsInv

(* The connections are as they were. *)
LEMMA ConnSame ==
    ASSUME EntryInv, conf' = conf, cl' = cl, srv' = srv, DOMAIN left' = DOMAIN left
    PROVE  Types' /\ ConnStep
<1>1. \A d \in Client : cl[d].epoch \in Nat
  BY DEF EntryInv, Types, Conn
<1>2. QED
  BY <1>1 DEF EntryInv, Types, Settings, ConnStep

(* Abort *)
LEMMA AbortInv ==
    ASSUME EntryInv, NEW n \in DOMAIN load, Abort(n)
    PROVE  EntryInv'
<1>1. Falls(Cache, Cache', load[n].by)
  BY AbortFalls
<1>2. conf' = conf /\ cl' = cl /\ srv' = srv /\ DOMAIN left' = DOMAIN left
  BY DEF Abort, Spend
<1>3. Types' /\ ConnStep
  BY <1>2, ConnSame
<1>4. \A m \in DOMAIN load : load[m].st = "sent" => load'[m].st = "sent"
  <2>1. load' = [m \in DOMAIN load |-> IF m \in {n} THEN [load[m] EXCEPT !.st = "failed"] ELSE load[m]]
    BY NextCache DEF Abort, Becomes, Fail, Cache
  <2>2. QED
    BY <2>1 DEF Abort
<1>5. Answered'
  <2>1. \A m \in DOMAIN load : m \in DOMAIN load' /\ load'[m].by = load[m].by
    BY <1>1, NextCache DEF Falls, Follows
  <2>2. \A d \in Client : Answers(d)'
    BY <1>2, <1>4, <2>1, AnswersSame DEF EntryInv, Answered
  <2>3. QED
    BY <2>2 DEF Answered
<1>6. PICK c : c = load[n].by
  OBVIOUS
<1>7. QED
  BY <1>1, <1>3, <1>5, <1>6, FallsInv

(* Reconnect *)
LEMMA ReconnectInv ==
    ASSUME EntryInv, NEW c \in Client, Reconnect(c)
    PROVE  EntryInv' /\ ConnStep /\ cl' \in [Client -> Conn]
           /\ \A d \in Client : cl'[d].wire = cl[d].wire /\ (cl[d].up => cl'[d].up)
<1> DEFINE x == [cl[c] EXCEPT !.up = TRUE, !.epoch = @ + 1]
<1>0. cl \in [Client -> Conn] /\ cl[c] \in Conn
  BY DEF EntryInv, Types
<1>1. /\ cl' = [cl EXCEPT ![c] = x] /\ ~cl[c].up
      /\ conf' = conf /\ map' = map /\ index' = index /\ load' = load /\ srv' = srv /\ left' = left
  BY DEF Reconnect
<1>2. /\ x \in Conn /\ x.up /\ x.epoch = cl[c].epoch + 1 /\ x.wire = cl[c].wire /\ cl[c].epoch \in Nat
  <2>1. cl[c].epoch \in Nat
    BY <1>0 DEF Conn
  <2>2. PICK k \in Nat : k = cl[c].epoch + 1
    BY <2>1
  <2>3. x = [cl[c] EXCEPT !.up = TRUE, !.epoch = k]
    BY <2>2
  <2>4. x \in Conn /\ x.up /\ x.epoch = k /\ x.wire = cl[c].wire
    BY <1>0, <2>3 DEF Conn
  <2>5. QED
    BY <2>1, <2>2, <2>4
<1> HIDE DEF x
<1>3. cl' \in [Client -> Conn] /\ cl'[c] = x /\ \A d \in Client \ {c} : cl'[d] = cl[d]
  BY <1>0, <1>1, <1>2
<1>4. Types'
  BY <1>1, <1>3 DEF EntryInv, Types, Settings
<1>5. ConnStep
  <2>1. \A d \in Client : cl[d].epoch \in Nat
    BY <1>0 DEF Conn
  <2>2. QED
    BY <1>1, <1>2, <1>3, <2>1 DEF ConnStep
<1>6. \A d \in Client : cl'[d].wire = cl[d].wire /\ (cl[d].up => cl'[d].up)
  BY <1>1, <1>2, <1>3
<1>7. Answered'
  <2>1. \A d \in Client : Answers(d)'
    BY <1>1, <1>6, AnswersSame DEF EntryInv, Answered
  <2>2. QED
    BY <2>1 DEF Answered
<1>8. Cache' = Cache
  BY <1>1 DEF Cache
<1>9. Follows(Cache, Cache') /\ Shape(Cache') /\ Promised(Cache', {})
  BY <1>8 DEF Follows, EntryInv
<1>10. QED
  BY <1>1, <1>3, <1>4, <1>5, <1>6, <1>7, <1>8, <1>9, InvStep

-----------------------------------------------------------------------------
(* Reads go on, and none of them ends. *)
LEMMA GoesInv ==
    ASSUME EntryInv, Types', ConnStep, Answered', Goes(Cache, Cache'),
           \A n \in DOMAIN load : load'[n].st \in Ended => load[n].st \in Ended
    PROVE  EntryInv'
<1>1. Shape(Cache') /\ Promised(Cache', {}) /\ Entries(Cache') = Entries(Cache)
  BY GoesShape DEF EntryInv
<1>2. Follows(Cache, Cache')
  BY FollowsSteps
<1>3. DOMAIN load' = DOMAIN load
  BY NextCache DEF Goes
<1>4. QED
  BY <1>1, <1>2, <1>3, InvStep

(* One read is changed. *)
LEMMA LoadGoes ==
    ASSUME EntryInv, NEW n \in DOMAIN load, NEW x \in Load,
           map' = map, index' = index, load' = [load EXCEPT ![n] = x],
           x.cmd = load[n].cmd, x.by = load[n].by, x.epoch = load[n].epoch, x.leader = load[n].leader,
           x.cleared = load[n].cleared, load[n].bad => x.bad,
           x.st = load[n].st \/ (load[n].st \in InFlight /\ x.st \in InFlight)
    PROVE  /\ Goes(Cache, Cache') /\ DOMAIN load' = DOMAIN load /\ load'[n] = x
           /\ \A m \in DOMAIN load : m # n => load'[m] = load[m]
           /\ \A m \in DOMAIN load : load'[m].st \in Ended => load[m].st \in Ended
<1>0. map \in Seq(Entry) /\ index \in [Key -> SUBSET Command] /\ load \in Seq(Load)
  BY Parts, NextCache DEF EntryInv, Shape
<1>1. load' \in Seq(Load) /\ DOMAIN load' = DOMAIN load /\ load'[n] = x /\ \A m \in DOMAIN load : m # n => load'[m] = load[m]
  BY <1>0
<1>2. Cache' \in State
  BY <1>0, <1>1 DEF State, Cache
<1>3. Goes(Cache, Cache')
  BY <1>1, <1>2, NextCache DEF Goes
<1>4. QED
  BY <1>1, <1>3 DEF InFlight, Ended

(* Reads are found to be stale. *)
LEMMA StaledGoes ==
    ASSUME EntryInv, NEW ks, map' = map, index' = index, load' = Staled(ks)
    PROVE  /\ Goes(Cache, Cache') /\ DOMAIN load' = DOMAIN load
           /\ \A n \in DOMAIN load :
                /\ load'[n].st = load[n].st /\ load'[n].by = load[n].by /\ load'[n].cmd = load[n].cmd
                /\ load'[n].storable = load[n].storable
                /\ load[n].st = "queued" \/ KeysOf[load[n].cmd] \cap ks = {} => load'[n].fresh = load[n].fresh
<1> DEFINE L == Staled(ks)
<1>0. /\ map \in Seq(Entry) /\ index \in [Key -> SUBSET Command] /\ load \in Seq(Load)
      /\ \A n \in DOMAIN load : load[n] \in Load
  BY Parts, NextCache DEF EntryInv, Shape
<1>1. \A n \in DOMAIN load : [load[n] EXCEPT !.fresh = FALSE] \in Load
  BY <1>0 DEF Load
<1>2. DOMAIN L = DOMAIN load /\ L = [n \in DOMAIN L |-> L[n]] /\ \A n \in DOMAIN load :
         L[n] = IF load[n].st # "queued" /\ KeysOf[load[n].cmd] \cap ks # {}
                THEN [load[n] EXCEPT !.fresh = FALSE] ELSE load[n]
  BY DEF Staled
<1> HIDE DEF L
<1>3. \A n \in DOMAIN load : L[n] \in Load
  BY <1>0, <1>1, <1>2
<1>4. L \in Seq(Load)
  BY ONLY <1>0, <1>2, <1>3, Pointwise
<1>5. \A n \in DOMAIN load :
         /\ L[n].cmd = load[n].cmd /\ L[n].by = load[n].by
         /\ L[n].epoch = load[n].epoch /\ L[n].leader = load[n].leader
         /\ L[n].st = load[n].st /\ L[n].storable = load[n].storable
         /\ L[n].bad = load[n].bad /\ L[n].cleared = load[n].cleared
         /\ load[n].st = "queued" \/ KeysOf[load[n].cmd] \cap ks = {} => L[n].fresh = load[n].fresh
  <2>1. SUFFICES ASSUME NEW n \in DOMAIN load
        PROVE  /\ L[n].cmd = load[n].cmd /\ L[n].by = load[n].by
               /\ L[n].epoch = load[n].epoch /\ L[n].leader = load[n].leader
               /\ L[n].st = load[n].st /\ L[n].storable = load[n].storable
               /\ L[n].bad = load[n].bad /\ L[n].cleared = load[n].cleared
               /\ load[n].st = "queued" \/ KeysOf[load[n].cmd] \cap ks = {} => L[n].fresh = load[n].fresh
    OBVIOUS
  <2>2. CASE load[n].st # "queued" /\ KeysOf[load[n].cmd] \cap ks # {}
    <3>1. L[n] = [load[n] EXCEPT !.fresh = FALSE] /\ load[n] \in Load
      BY <1>0, <1>2, <2>2
    <3>2. QED
      BY ONLY <2>2, <3>1 DEF Load
  <2>3. CASE ~(load[n].st # "queued" /\ KeysOf[load[n].cmd] \cap ks # {})
    BY <1>2, <2>3
  <2>4. QED
    BY <2>2, <2>3
<1>6. load' = L
  BY DEF L
<1>7. Cache' \in State
  BY <1>0, <1>4, <1>6 DEF State, Cache
<1>8. Goes(Cache, Cache')
  BY <1>2, <1>5, <1>6, <1>7, NextCache DEF Goes
<1>9. QED
  BY <1>2, <1>5, <1>6, <1>8

(* A message is added to a connection. *)
LEMMA AnswersAppend ==
    ASSUME NEW c, Answers(c), cl[c].wire \in Seq(Message), NEW m \in Message, cl'[c].wire = Append(cl[c].wire, m),
           \A n \in DOMAIN load : load[n].st = "sent" /\ load[n].by = c =>
               n \in DOMAIN load' /\ load'[n].st = "sent" /\ load'[n].by = c,
           m.reply => /\ m.load \in DOMAIN load' /\ load'[m.load].st = "sent" /\ load'[m.load].by = c
                      /\ m.load \in DOMAIN load => load[m.load].st # "sent"
    PROVE  Answers(c)'
<1> DEFINE w == cl[c].wire
           v == cl'[c].wire
           k == Len(w) + 1
<1>1. /\ \A i \in DOMAIN w : i \in DOMAIN v /\ v[i] = w[i]
      /\ k \in DOMAIN v /\ v[k] = m
      /\ \A i \in DOMAIN v : i \in DOMAIN w \/ i = k
  BY AppendEntries
<1>2. Answers(c) <=> \A i \in DOMAIN w : w[i].reply =>
         /\ w[i].load \in DOMAIN load
         /\ load[w[i].load].st = "sent" /\ load[w[i].load].by = c
         /\ \A j \in DOMAIN w : w[j].reply /\ w[j].load = w[i].load => i = j
  BY DEF Answers
<1>3. Answers(c)' <=> \A i \in DOMAIN v : v[i].reply =>
         /\ v[i].load \in DOMAIN load'
         /\ load'[v[i].load].st = "sent" /\ load'[v[i].load].by = c
         /\ \A j \in DOMAIN v : v[j].reply /\ v[j].load = v[i].load => i = j
  BY DEF Answers
<1> HIDE DEF w, v, k
<1>4. \A i \in DOMAIN v : v[i].reply =>
         /\ v[i].load \in DOMAIN load'
         /\ load'[v[i].load].st = "sent" /\ load'[v[i].load].by = c
  BY <1>1, <1>2
<1>5. \A i \in DOMAIN v, j \in DOMAIN v : v[i].reply /\ v[j].reply /\ v[j].load = v[i].load => i = j
  BY <1>1, <1>2
<1>6. QED
  BY <1>3, <1>4, <1>5

(* The first message of a connection is taken. *)
LEMMA AnswersTail ==
    ASSUME NEW c, Answers(c), cl[c].wire \in Seq(Message), cl[c].wire # <<>>, cl'[c].wire = Tail(cl[c].wire),
           \A n \in DOMAIN load : load[n].st = "sent" /\ load[n].by = c =>
               \/ n \in DOMAIN load' /\ load'[n].st = "sent" /\ load'[n].by = c
               \/ cl[c].wire[1].reply /\ cl[c].wire[1].load = n
    PROVE  Answers(c)'
<1> DEFINE w == cl[c].wire
           v == cl'[c].wire
<1>1. 1 \in DOMAIN w /\ \A i \in DOMAIN v : i + 1 \in DOMAIN w /\ v[i] = w[i + 1] /\ i + 1 # 1 /\ i \in Int
  OBVIOUS
<1>2. Answers(c) <=> \A i \in DOMAIN w : w[i].reply =>
         /\ w[i].load \in DOMAIN load
         /\ load[w[i].load].st = "sent" /\ load[w[i].load].by = c
         /\ \A j \in DOMAIN w : w[j].reply /\ w[j].load = w[i].load => i = j
  BY DEF Answers
<1>3. Answers(c)' <=> \A i \in DOMAIN v : v[i].reply =>
         /\ v[i].load \in DOMAIN load'
         /\ load'[v[i].load].st = "sent" /\ load'[v[i].load].by = c
         /\ \A j \in DOMAIN v : v[j].reply /\ v[j].load = v[i].load => i = j
  BY DEF Answers
<1>0. \A n \in DOMAIN load : load[n].st = "sent" /\ load[n].by = c =>
               \/ n \in DOMAIN load' /\ load'[n].st = "sent" /\ load'[n].by = c
               \/ w[1].reply /\ w[1].load = n
  OBVIOUS
<1> HIDE DEF w, v
<1>4. \A i \in DOMAIN v : v[i].reply =>
         /\ v[i].load \in DOMAIN load'
         /\ load'[v[i].load].st = "sent" /\ load'[v[i].load].by = c
  BY <1>0, <1>1, <1>2
<1>5. \A i \in DOMAIN v, j \in DOMAIN v : v[i].reply /\ v[j].reply /\ v[j].load = v[i].load => i = j
  <2>1. SUFFICES ASSUME NEW i \in DOMAIN v, NEW j \in DOMAIN v, v[i].reply, v[j].reply, v[j].load = v[i].load
        PROVE  i = j
    OBVIOUS
  <2>2. i + 1 \in DOMAIN w /\ j + 1 \in DOMAIN w /\ v[i] = w[i + 1] /\ v[j] = w[j + 1]
    BY <1>1
  <2>3. i + 1 = j + 1
    BY <1>2, <2>1, <2>2
  <2>4. i \in Int /\ j \in Int
    BY <1>1
  <2>5. QED
    BY <2>3, <2>4
<1>6. QED
  BY <1>3, <1>4, <1>5

(* invalidate: what depends on the key goes away, and is marked. *)
LEMMA InvalidateStep ==
    ASSUME NEW s, Shape(s), NEW k
    PROVE  /\ Evolves(s, Invalidate(s, k), {})
           /\ \A e \in Entries(s) : k = None \/ k \in KeysOf[e.cmd] =>
                /\ e \notin Entries(Invalidate(s, k))
                /\ ~e.value => Invalidate(s, k).load[e.load].bad \/ Invalidate(s, k).load[e.load].cleared
<1>1. CASE k = None
  <2>1. Invalidate(s, k) = Clear(s)
    BY <1>1 DEF Invalidate
  <2>2. QED
    BY <2>1, ClearStep
<1>2. CASE k # None
  <2> DEFINE t == Delete(s, s.index[k])
  <2>1. Invalidate(s, k) = t
    BY <1>2 DEF Invalidate
  <2>2. /\ Evolves(s, t, {})
        /\ Entries(t) = {e \in Entries(s) : e.cmd \notin s.index[k]}
        /\ \A e \in Entries(s) : e.cmd \in s.index[k] /\ ~e.value => t.load[e.load].bad
    BY DeleteStep
  <2>3. \A e \in Entries(s) : k \in KeysOf[e.cmd] => e.cmd \in s.index[k]
    BY DEF Shape, Filed
  <2> HIDE DEF t
  <2>4. QED
    BY <1>2, <2>1, <2>2, <2>3
<1>3. QED
  BY <1>1, <1>2

(* What taking a message does to the connections. *)
Takes(c) ==
    /\ Types' /\ ConnStep /\ srv' = srv
    /\ cl[c].wire \in Seq(Message) /\ cl[c].wire # <<>> /\ cl'[c].wire = Tail(cl[c].wire)
    /\ cl[c].wire[1] \in Message
    /\ \A d \in Client : /\ cl'[d].up = cl[d].up /\ cl'[d].epoch = cl[d].epoch
                         /\ d # c => cl'[d].wire = cl[d].wire
    /\ \/ /\ cl[c].wire[1].reply
          /\ load' = [load EXCEPT ![cl[c].wire[1].load].st = "replied",
                                  ![cl[c].wire[1].load].storable = cl[c].wire[1].ok]
          /\ map' = map /\ index' = index
       \/ ~cl[c].wire[1].reply /\ Becomes(Invalidate(Cache, cl[c].wire[1].key))

(* Taking a message leaves the other connections alone. *)
LEMMA ReceiveTakes ==
    ASSUME EntryInv, NEW c \in Client, Receive(c)
    PROVE  Takes(c)
<1> DEFINE w == cl[c].wire
           x == [cl[c] EXCEPT !.wire = Tail(@)]
<1>0. cl \in [Client -> Conn] /\ srv \in [Client -> SUBSET Key] /\ cl[c] \in Conn
  BY DEF EntryInv, Types
<1>1. w \in Seq(Message) /\ w # <<>>
  BY <1>0 DEF Conn, Receive
<1>2. Head(w) = w[1] /\ w[1] \in Message /\ Tail(w) \in Seq(Message)
  BY <1>1
<1>3. cl' = [cl EXCEPT ![c] = x] /\ srv' = srv /\ conf' = conf /\ left' = left
  BY DEF Receive
<1>4. x \in Conn /\ x.wire = Tail(w) /\ x.up = cl[c].up /\ x.epoch = cl[c].epoch
  <2>1. \A v \in Seq(Message) : \A y : y = [cl[c] EXCEPT !.wire = v] =>
           y \in Conn /\ y.wire = v /\ y.up = cl[c].up /\ y.epoch = cl[c].epoch
    BY <1>0 DEF Conn
  <2>2. x = [cl[c] EXCEPT !.wire = Tail(w)]
    OBVIOUS
  <2>3. QED
    BY <1>2, <2>1, <2>2
<1> HIDE DEF x
<1>5. cl' \in [Client -> Conn] /\ cl'[c] = x /\ \A d \in Client \ {c} : cl'[d] = cl[d]
  BY <1>0, <1>3, <1>4
<1>6. Types'
  BY <1>0, <1>3, <1>5 DEF EntryInv, Types, Settings
<1>7. ConnStep
  <2>1. \A d \in Client : cl[d].epoch \in Nat
    BY <1>0 DEF Conn
  <2>2. QED
    BY <1>3, <1>4, <1>5, <2>1 DEF ConnStep
<1>8. \/ /\ w[1].reply
         /\ load' = [load EXCEPT ![w[1].load].st = "replied", ![w[1].load].storable = w[1].ok]
         /\ map' = map /\ index' = index
      \/ ~w[1].reply /\ Becomes(Invalidate(Cache, w[1].key))
  BY <1>2 DEF Receive
<1>9. QED
  BY <1>1, <1>2, <1>3, <1>4, <1>5, <1>6, <1>7, <1>8 DEF Takes

(* A reply: the read it answers goes on. *)
LEMMA ReplyGoes ==
    ASSUME EntryInv, NEW c \in Client, Takes(c), cl[c].wire[1].reply
    PROVE  LET n == cl[c].wire[1].load
           IN  /\ n \in DOMAIN load /\ load[n].st = "sent" /\ load[n].by = c
               /\ Goes(Cache, Cache') /\ DOMAIN load' = DOMAIN load
               /\ \A m \in DOMAIN load : m # n => load'[m] = load[m]
               /\ load'[n].st = "replied" /\ load'[n].storable = cl[c].wire[1].ok /\ load'[n].fresh = load[n].fresh
               /\ \A m \in DOMAIN load : load'[m].st \in Ended => load[m].st \in Ended
               /\ Entries(Cache') = Entries(Cache)
<1> DEFINE n == cl[c].wire[1].load
           b == cl[c].wire[1].ok
           x == [load[n] EXCEPT !.st = "replied", !.storable = b]
<1>1. n \in DOMAIN load /\ load[n].st = "sent" /\ load[n].by = c
  <2>1. Answers(c) /\ 1 \in DOMAIN cl[c].wire
    <3>1. Answers(c)
      BY DEF EntryInv, Answered
    <3>2. cl[c].wire \in Seq(Message) /\ cl[c].wire # <<>>
      BY DEF Takes
    <3>3. 1 \in DOMAIN cl[c].wire
      BY ONLY <3>2
    <3> QED BY <3>1, <3>3
  <2>2. QED
    BY <2>1 DEF Answers
<1>2. load[n] \in Load /\ load \in Seq(Load)
  BY <1>1, Parts, NextCache DEF EntryInv, Shape
<1>3. b \in BOOLEAN
  BY DEF Takes, Message
<1>4. map' = map /\ index' = index /\ load' = [load EXCEPT ![n].st = "replied", ![n].storable = b]
  BY DEF Takes
<1> HIDE DEF n, b
<1>5. load' = [load EXCEPT ![n] = x]
  BY <1>1, <1>2, <1>4
<1>6. /\ x \in Load /\ x.st = "replied" /\ x.storable = b /\ x.fresh = load[n].fresh
      /\ x.cmd = load[n].cmd /\ x.by = load[n].by /\ x.epoch = load[n].epoch /\ x.leader = load[n].leader
      /\ x.cleared = load[n].cleared /\ x.bad = load[n].bad
  BY <1>2, <1>3 DEF Load, InFlight
<1> HIDE DEF x
<1>7. load[n].st \in InFlight /\ x.st \in InFlight
  BY <1>1, <1>6 DEF InFlight
<1>8. /\ Goes(Cache, Cache') /\ DOMAIN load' = DOMAIN load /\ load'[n] = x
      /\ \A m \in DOMAIN load : m # n => load'[m] = load[m]
      /\ \A m \in DOMAIN load : load'[m].st \in Ended => load[m].st \in Ended
  BY <1>1, <1>4, <1>5, <1>6, <1>7, LoadGoes, ZenonT(60)
<1>9. Entries(Cache') = Entries(Cache)
  BY <1>8, GoesShape DEF EntryInv
<1>10. QED
  BY <1>1, <1>6, <1>8, <1>9 DEF n, b

(* An invalidation pushed: what depends on the key is dropped. *)
LEMMA PushFalls ==
    ASSUME EntryInv, NEW c \in Client, Takes(c), ~cl[c].wire[1].reply
    PROVE  LET k == cl[c].wire[1].key
           IN  /\ Falls(Cache, Cache', c) /\ (\A n \in DOMAIN load : load'[n].st = load[n].st)
               /\ \A e \in Entries(Cache) : k = None \/ k \in KeysOf[e.cmd] =>
                    e \notin Entries(Cache') /\ (~e.value => load'[e.load].bad \/ load'[e.load].cleared)
<1> DEFINE k == cl[c].wire[1].key
           t == Invalidate(Cache, k)
<1>1. Becomes(t)
  BY DEF Takes
<1>2. Shape(Cache) /\ Promised(Cache, {})
  BY DEF EntryInv
<1> HIDE DEF k
<1>3. /\ Evolves(Cache, t, {})
      /\ \A e \in Entries(Cache) : k = None \/ k \in KeysOf[e.cmd] =>
                e \notin Entries(t) /\ (~e.value => t.load[e.load].bad \/ t.load[e.load].cleared)
  BY <1>2, InvalidateStep
<1> HIDE DEF t
<1>4. Falls(Cache, t, c)
  BY <1>2, <1>3, EvolvesFalls
<1>5. Cache' = t /\ load' = t.load
  BY <1>1, <1>4, FallsNext DEF Becomes
<1>6. \A n \in DOMAIN load : load'[n].st = load[n].st
  BY <1>3, <1>5, NextCache DEF Evolves, Marks
<1>7. QED
  BY <1>3, <1>4, <1>5, <1>6 DEF k

(* Receive *)
LEMMA ReceiveInv ==
    ASSUME EntryInv, NEW c \in Client, Receive(c)
    PROVE  EntryInv'
<1>1. Takes(c)
  BY ReceiveTakes
<1>2. Types' /\ ConnStep /\ Answered
  BY <1>1 DEF Takes, EntryInv
<1>3. CASE cl[c].wire[1].reply
  <2> DEFINE n == cl[c].wire[1].load
  <2>1. /\ n \in DOMAIN load /\ load[n].st = "sent" /\ load[n].by = c
        /\ Goes(Cache, Cache') /\ DOMAIN load' = DOMAIN load
        /\ \A m \in DOMAIN load : m # n => load'[m] = load[m]
        /\ \A m \in DOMAIN load : load'[m].st \in Ended => load[m].st \in Ended
    BY <1>1, <1>3, ReplyGoes
  <2>2. Answers(c)'
    <3>1. \A m \in DOMAIN load : load[m].st = "sent" /\ load[m].by = c =>
               \/ m \in DOMAIN load' /\ load'[m].st = "sent" /\ load'[m].by = c
               \/ cl[c].wire[1].reply /\ cl[c].wire[1].load = m
      BY <1>3, <2>1
    <3>2. Answers(c) /\ cl[c].wire \in Seq(Message) /\ cl[c].wire # <<>> /\ cl'[c].wire = Tail(cl[c].wire)
      BY <1>1, <1>2 DEF Answered, Takes
    <3>3. QED
      BY <3>1, <3>2, AnswersTail
  <2>3. \A d \in Client : d # c => Answers(d)'
    <3>1. SUFFICES ASSUME NEW d \in Client, d # c PROVE Answers(d)'
      OBVIOUS
    <3>2. Answers(d) /\ cl'[d].wire = cl[d].wire
      BY <1>1, <1>2, <3>1 DEF Takes, Answered
    <3>3. \A m \in DOMAIN load : load[m].st = "sent" /\ load[m].by = d =>
               m \in DOMAIN load' /\ load'[m].st = "sent" /\ load'[m].by = d
      BY <2>1, <3>1
    <3>4. QED
      BY <3>2, <3>3, AnswersSame
  <2>4. Answered'
    BY <2>2, <2>3 DEF Answered
  <2>5. QED
    BY <1>2, <2>1, <2>4, GoesInv
<1>4. CASE ~cl[c].wire[1].reply
  <2>1. Falls(Cache, Cache', c) /\ \A n \in DOMAIN load : load'[n].st = load[n].st
    BY <1>1, <1>4, PushFalls
  <2>2. \A m \in DOMAIN load : m \in DOMAIN load' /\ load'[m].st = load[m].st /\ load'[m].by = load[m].by
    BY <2>1, NextCache DEF Falls, Follows
  <2>3. Answers(c)'
    <3>1. Answers(c) /\ cl[c].wire \in Seq(Message) /\ cl[c].wire # <<>> /\ cl'[c].wire = Tail(cl[c].wire)
      BY <1>1, <1>2 DEF Answered, Takes
    <3>2. QED
      BY <2>2, <3>1, AnswersTail
  <2>4. \A d \in Client : d # c => Answers(d)'
    <3>1. SUFFICES ASSUME NEW d \in Client, d # c PROVE Answers(d)'
      OBVIOUS
    <3>2. Answers(d) /\ cl'[d].wire = cl[d].wire
      BY <1>1, <1>2, <3>1 DEF Takes, Answered
    <3>3. QED
      BY <2>2, <3>2, AnswersSame
  <2>5. Answered'
    BY <2>3, <2>4 DEF Answered
  <2>6. QED
    BY <1>2, <2>1, <2>5, FallsInv
<1>5. QED
  BY <1>3, <1>4

(* The time to live of an entry runs out. *)
LEMMA ExpireStep ==
    ASSUME EntryInv, NEW i \in DOMAIN map, Expire(i)
    PROVE  /\ EntryInv' /\ conf' = conf /\ cl' = cl /\ srv' = srv
           /\ Follows(Cache, Cache') /\ DOMAIN load' = DOMAIN load
           /\ \A n \in DOMAIN load : /\ load'[n].st = load[n].st /\ load'[n].fresh = load[n].fresh
                                     /\ load'[n].storable = load[n].storable
           /\ \A e \in Entries(Cache') : e \in Entries(Cache) \/ e.bad
           /\ \A e \in Entries(Cache') : \E f \in Entries(Cache) :
                e.by = f.by /\ e.load = f.load /\ e.value = f.value
<1>0. /\ map \in Seq(Entry) /\ index \in [Key -> SUBSET Command] /\ load \in Seq(Load)
      /\ Shape(Cache) /\ Promised(Cache, {}) /\ Cache \in State
  BY Parts, NextCache DEF EntryInv, Shape
<1>1. conf' = conf /\ cl' = cl /\ srv' = srv /\ index' = index /\ DOMAIN left' = DOMAIN left
  BY DEF Expire, Spend
<1>2. Types' /\ ConnStep
  BY <1>1, ConnSame
<1>3. map[i] \in Entry /\ map[i] \in Entries(Cache)
  BY <1>0 DEF Entries, Cache
<1>4. CASE map[i].value
  <2> DEFINE x == [map[i] EXCEPT !.bad = TRUE]
  <2>1. map' = [map EXCEPT ![i] = x] /\ load' = load
    BY <1>4 DEF Expire
  <2>2. /\ x \in Entry /\ x.cmd = map[i].cmd /\ x.load = map[i].load /\ x.value = map[i].value
        /\ x.by = map[i].by /\ x.epoch = map[i].epoch /\ x.bad
    BY <1>3 DEF Entry
  <2> HIDE DEF x
  <2>3. map' \in Seq(Entry) /\ DOMAIN map' = DOMAIN map /\ map'[i] = x /\ \A j \in DOMAIN map : j # i => map'[j] = map[j]
    BY <1>0, <2>1, <2>2
  <2>4. Cache' \in State
    BY <1>0, <1>1, <2>1, <2>3 DEF State, Cache
  <2>5. Entries(Cache') \subseteq Entries(Cache) \cup {x}
    BY <2>3, NextCache DEF Entries
  <2>6. \A e \in Entries(Cache) : e \in Entries(Cache') \/ e = map[i]
    BY <2>3, NextCache DEF Entries
  <2>7. Marks(Cache, Cache')
    BY <2>1, <2>4, NextCache DEF Marks
  <2>8. \A e \in Entries(Cache') : \E f \in Entries(Cache) :
           e.cmd = f.cmd /\ e.load = f.load /\ e.value = f.value /\ e.by = f.by /\ e.epoch = f.epoch
    BY <1>3, <2>2, <2>5
  <2>9. OneEach(Cache')
    BY <1>0, <2>8 DEF Shape, OneEach
  <2>10. Filed(Cache')
    BY <1>0, <1>1, <2>8, NextCache DEF Shape, Filed
  <2>11. Evolves(Cache, Cache', {x})
    BY <1>4, <2>1, <2>5, <2>6, <2>7, <2>9, <2>10, NextCache DEF Evolves
  <2>12. Link(Cache, x)
    BY <1>0, <1>3, <1>4, <2>2 DEF Shape, Linked, Link
  <2>13. Shape(Cache')
    BY <1>0, <2>2, <2>11, <2>12, EvolvesShape
  <2>14. Promised(Cache', {})
    BY <1>0, <2>11, EvolvesPromised
  <2>15. Follows(Cache, Cache')
    BY <2>7, FollowsSteps
  <2>16. Answered'
    <3>1. \A d \in Client : Answers(d)'
      BY <1>1, <2>1, AnswersSame DEF EntryInv, Answered
    <3>2. QED
      BY <3>1 DEF Answered
  <2>17. conf.provider = "noredirect" => \A e \in Entries(Cache') : e \in Entries(Cache) \/ e.epoch <= cl[e.by].epoch
    BY <2>8 DEF EntryInv, Epochs
  <2>18. EntryInv'
    BY <1>2, <2>1, <2>13, <2>14, <2>15, <2>16, <2>17, InvStep
  <2>19. QED
    BY <1>1, <2>1, <2>2, <2>5, <2>8, <2>15, <2>18
<1>5. CASE ~map[i].value
  <2> DEFINE n == map[i].load
             x == [load[n] EXCEPT !.bad = TRUE]
  <2>1. load' = [load EXCEPT ![n] = x] /\ map' = map
    BY <1>5 DEF Expire
  <2>2. n \in DOMAIN load
    BY <1>0, <1>3, NextCache DEF Shape, Linked, Link
  <2>3. load[n] \in Load
    BY <1>0, <2>2
  <2> HIDE DEF n
  <2>4. /\ x \in Load /\ x.cmd = load[n].cmd /\ x.by = load[n].by /\ x.epoch = load[n].epoch /\ x.leader = load[n].leader
        /\ x.cleared = load[n].cleared /\ x.bad /\ x.st = load[n].st /\ x.fresh = load[n].fresh
        /\ x.storable = load[n].storable
    BY <2>3 DEF Load
  <2> HIDE DEF x
  <2>5. /\ Goes(Cache, Cache') /\ DOMAIN load' = DOMAIN load /\ load'[n] = x
        /\ \A m \in DOMAIN load : m # n => load'[m] = load[m]
        /\ \A m \in DOMAIN load : load'[m].st \in Ended => load[m].st \in Ended
    BY <1>1, <2>1, <2>2, <2>4, LoadGoes
  <2>6. \A m \in DOMAIN load : /\ load'[m].st = load[m].st /\ load'[m].fresh = load[m].fresh
                               /\ load'[m].storable = load[m].storable /\ load'[m].by = load[m].by
    BY <2>4, <2>5
  <2>7. Answered'
    <3>1. \A d \in Client : Answers(d)'
      BY <1>1, <2>5, <2>6, AnswersSame DEF EntryInv, Answered
    <3>2. QED
      BY <3>1 DEF Answered
  <2>8. EntryInv'
    BY <1>2, <2>5, <2>7, GoesInv
  <2>9. Entries(Cache') = Entries(Cache)
    BY <1>0, <2>5, GoesShape
  <2>10. Follows(Cache, Cache')
    BY <2>5, FollowsSteps
  <2>11. QED
    BY <1>1, <2>5, <2>6, <2>8, <2>9, <2>10
<1>6. QED
  BY <1>4, <1>5

(* What a connection that messages are added to is. *)
LEMMA WireType ==
    ASSUME NEW x \in Conn, NEW m \in Message
    PROVE  LET y == [x EXCEPT !.wire = Append(@, m)]
           IN  y \in Conn /\ y.wire = Append(x.wire, m) /\ y.up = x.up /\ y.epoch = x.epoch
<1>1. x.wire \in Seq(Message)
  BY DEF Conn
<1>2. Append(x.wire, m) \in Seq(Message)
  BY <1>1
<1>3. \A v \in Seq(Message) : [x EXCEPT !.wire = v] \in Conn /\ [x EXCEPT !.wire = v].wire = v
         /\ [x EXCEPT !.wire = v].up = x.up /\ [x EXCEPT !.wire = v].epoch = x.epoch
  BY DEF Conn
<1>4. QED
  BY <1>2, <1>3

(* The server executes a read. *)
Executes(n, ok) ==
    LET c == load[n].by
    IN  /\ load[n].st = "queued" /\ c \in Client /\ cl[c].up
        /\ Types' /\ ConnStep
        /\ Reply(n, ok) \in Message
        /\ cl[c].wire \in Seq(Message) /\ cl'[c].wire = Append(cl[c].wire, Reply(n, ok))
        /\ \A d \in Client : /\ cl'[d].up = cl[d].up /\ cl'[d].epoch = cl[d].epoch
                             /\ d # c => cl'[d].wire = cl[d].wire
        /\ \A d \in Client : srv[d] \subseteq srv'[d] /\ (d # c => srv'[d] = srv[d])
        /\ ok => KeysOf[load[n].cmd] \subseteq srv'[c]
        /\ Goes(Cache, Cache') /\ DOMAIN load' = DOMAIN load
        /\ load'[n].st = "sent" /\ load'[n].by = load[n].by /\ load'[n].fresh = load[n].fresh
        /\ load'[n].cmd = load[n].cmd
        /\ \A m \in DOMAIN load : m # n => load'[m] = load[m]
        /\ \A m \in DOMAIN load : load'[m].st \in Ended => load[m].st \in Ended
        /\ Entries(Cache') = Entries(Cache)

(* What the server's execution of a read changes. *)
LEMMA ExecuteStep ==
    ASSUME EntryInv, NEW n \in DOMAIN load, Execute(n)
    PROVE  \E ok \in BOOLEAN : Executes(n, ok)
<1> DEFINE c == load[n].by
<1>0. /\ load \in Seq(Load) /\ load[n] \in Load /\ cl \in [Client -> Conn] /\ srv \in [Client -> SUBSET Key]
  BY Parts, NextCache DEF EntryInv, Types, Shape
<1>1. c \in Client /\ n \in Nat /\ load[n].cmd \in Command
  BY <1>0 DEF Load
<1>2. cl[c] \in Conn /\ KeysOf[load[n].cmd] \in SUBSET Key
  BY <1>0, <1>1, CacheAssumption
<1>3. PICK ok \in BOOLEAN :
            /\ srv' = IF ok THEN [srv EXCEPT ![c] = @ \cup KeysOf[load[n].cmd]] ELSE srv
            /\ cl' = [cl EXCEPT ![c].wire = Append(@, Reply(n, ok))]
  BY DEF Execute
<1>4. /\ load[n].st = "queued" /\ cl[c].up /\ load' = [load EXCEPT ![n].st = "sent"]
      /\ conf' = conf /\ map' = map /\ index' = index /\ left' = left
  BY DEF Execute
<1>5. Reply(n, ok) \in Message
  BY <1>1 DEF Reply, Message
<1> DEFINE y == [cl[c] EXCEPT !.wire = Append(@, Reply(n, ok))]
           x == [load[n] EXCEPT !.st = "sent"]
<1>6. y \in Conn /\ y.wire = Append(cl[c].wire, Reply(n, ok)) /\ y.up = cl[c].up /\ y.epoch = cl[c].epoch
  BY <1>2, <1>5, WireType
<1>7. cl' = [cl EXCEPT ![c] = y] /\ load' = [load EXCEPT ![n] = x]
  BY <1>3, <1>4
<1>8. /\ x \in Load /\ x.cmd = load[n].cmd /\ x.by = load[n].by /\ x.epoch = load[n].epoch /\ x.leader = load[n].leader
      /\ x.cleared = load[n].cleared /\ x.bad = load[n].bad /\ x.st = "sent" /\ x.fresh = load[n].fresh
  BY <1>0 DEF Load, InFlight
<1> HIDE DEF c, y, x
<1>9. cl' \in [Client -> Conn] /\ cl'[c] = y /\ \A d \in Client \ {c} : cl'[d] = cl[d]
  BY <1>0, <1>1, <1>6, <1>7
<1>10. /\ srv' \in [Client -> SUBSET Key]
       /\ \A d \in Client : srv[d] \subseteq srv'[d] /\ (d # c => srv'[d] = srv[d])
       /\ ok => KeysOf[load[n].cmd] \subseteq srv'[c]
  BY <1>0, <1>1, <1>2, <1>3
<1>11. Types'
  BY <1>4, <1>9, <1>10 DEF EntryInv, Types, Settings
<1>12. \A d \in Client : /\ cl'[d].up = cl[d].up /\ cl'[d].epoch = cl[d].epoch
                         /\ d # c => cl'[d].wire = cl[d].wire
  BY <1>6, <1>9
<1>13. ConnStep
  <2>1. \A d \in Client : cl[d].epoch \in Nat
    BY <1>0 DEF Conn
  <2>2. QED
    BY <1>4, <1>12, <2>1 DEF ConnStep
<1>14. load[n].st \in InFlight /\ x.st \in InFlight
  BY <1>4, <1>8 DEF InFlight
<1>15. /\ Goes(Cache, Cache') /\ DOMAIN load' = DOMAIN load /\ load'[n] = x
       /\ \A m \in DOMAIN load : m # n => load'[m] = load[m]
       /\ \A m \in DOMAIN load : load'[m].st \in Ended => load[m].st \in Ended
  BY <1>4, <1>7, <1>8, <1>14, LoadGoes
<1>16. Entries(Cache') = Entries(Cache)
  BY <1>15, GoesShape DEF EntryInv
<1>17. cl[c].wire \in Seq(Message) /\ cl'[c].wire = Append(cl[c].wire, Reply(n, ok))
  BY <1>2, <1>6, <1>9 DEF Conn, c
<1>18. Executes(n, ok)
  BY <1>1, <1>4, <1>5, <1>8, <1>10, <1>11, <1>12, <1>13, <1>15, <1>16, <1>17 DEF Executes, c
<1>19. QED
  BY <1>18

(* Execute *)
LEMMA ExecuteInv ==
    ASSUME EntryInv, NEW n \in DOMAIN load, NEW ok \in BOOLEAN, Executes(n, ok)
    PROVE  EntryInv'
<1>0. PICK c \in Client : c = load[n].by
  BY DEF Executes
<1>1. /\ load[n].st = "queued" /\ DOMAIN load' = DOMAIN load
      /\ load'[n].st = "sent" /\ load'[n].by = c
      /\ \A m \in DOMAIN load : m # n => load'[m] = load[m]
  BY <1>0 DEF Executes
<1>2. Answers(c)'
  <2>1. \A m \in DOMAIN load : load[m].st = "sent" /\ load[m].by = c =>
               m \in DOMAIN load' /\ load'[m].st = "sent" /\ load'[m].by = c
    BY <1>1
  <2>2. Reply(n, ok).load = n /\ Reply(n, ok).reply
    BY DEF Reply
  <2>3. /\ Answers(c) /\ cl[c].wire \in Seq(Message) /\ Reply(n, ok) \in Message
        /\ cl'[c].wire = Append(cl[c].wire, Reply(n, ok))
    BY <1>0 DEF EntryInv, Answered, Executes
  <2>4. QED
    BY <1>1, <2>1, <2>2, <2>3, AnswersAppend
<1>3. \A d \in Client : d # c => Answers(d)'
  <2>1. SUFFICES ASSUME NEW d \in Client, d # c PROVE Answers(d)'
    OBVIOUS
  <2>2. Answers(d) /\ cl'[d].wire = cl[d].wire
    BY <1>0, <2>1 DEF EntryInv, Answered, Executes
  <2>3. \A m \in DOMAIN load : load[m].st = "sent" /\ load[m].by = d =>
               m \in DOMAIN load' /\ load'[m].st = "sent" /\ load'[m].by = d
    BY <1>1
  <2>4. QED
    BY <2>2, <2>3, AnswersSame
<1>4. Answered'
  BY <1>2, <1>3 DEF Answered
<1>5. QED
  BY <1>4, GoesInv DEF Executes

(* The server tells connections of what was written. *)
Tells(m, ks) ==
    /\ Types' /\ ConnStep /\ m \in Message /\ ~m.reply
    /\ \A c \in Client : /\ cl[c].wire \in Seq(Message)
                         /\ cl'[c].wire = cl[c].wire \/ cl'[c].wire = Append(cl[c].wire, m)
                         /\ cl'[c].up = cl[c].up
    /\ map' = map /\ index' = index /\ load' = Staled(ks)

(* Write and FlushAll push one message to some of the connections. *)
LEMMA Telling ==
    ASSUME EntryInv, NEW m \in Message, ~m.reply, NEW ks, NEW told \in SUBSET Client,
           conf' = conf, DOMAIN left' = DOMAIN left, srv' \in [Client -> SUBSET Key],
           map' = map, index' = index, load' = Staled(ks),
           cl' = [c \in Client |-> IF c \in told THEN [cl[c] EXCEPT !.wire = Append(@, m)] ELSE cl[c]]
    PROVE  Tells(m, ks) /\ \A c \in told : cl'[c].wire = Append(cl[c].wire, m)
<1>0. cl \in [Client -> Conn] /\ \A c \in Client : cl[c] \in Conn
  BY DEF EntryInv, Types
<1>1. \A c \in Client : LET y == [cl[c] EXCEPT !.wire = Append(@, m)]
                        IN  y \in Conn /\ y.wire = Append(cl[c].wire, m) /\ y.up = cl[c].up /\ y.epoch = cl[c].epoch
  BY <1>0, WireType
<1>2. cl' \in [Client -> Conn]
  BY <1>0, <1>1
<1>3. \A c \in Client : /\ cl'[c].up = cl[c].up /\ cl'[c].epoch = cl[c].epoch
                        /\ c \in told => cl'[c].wire = Append(cl[c].wire, m)
                        /\ c \notin told => cl'[c].wire = cl[c].wire
  BY <1>1
<1>4. Types'
  BY <1>2 DEF EntryInv, Types, Settings
<1>5. \A c \in Client : cl[c].epoch \in Nat /\ cl[c].wire \in Seq(Message)
  BY <1>0 DEF Conn
<1>6. ConnStep
  BY <1>3, <1>5 DEF ConnStep
<1>7. QED
  BY <1>3, <1>4, <1>5, <1>6 DEF Tells

(* Somebody writes a key. *)
LEMMA WriteTells ==
    ASSUME EntryInv, NEW k \in Key, Write(k)
    PROVE  /\ Tells(Push(k), {k})
           /\ \A c \in Client : srv'[c] = srv[c] \ {k} /\ (k \in srv[c] => cl'[c].wire = Append(cl[c].wire, Push(k)))
<1> DEFINE told == {c \in Client : k \in srv[c]}
<1>0. srv \in [Client -> SUBSET Key]
  BY DEF EntryInv, Types
<1>1. Push(k) \in Message /\ ~Push(k).reply
  BY DEF Push, Message
<1>2. cl' = [c \in Client |-> IF c \in told THEN [cl[c] EXCEPT !.wire = Append(@, Push(k))] ELSE cl[c]]
  BY DEF Write
<1>3. /\ conf' = conf /\ DOMAIN left' = DOMAIN left /\ map' = map /\ index' = index /\ load' = Staled({k})
      /\ srv' = [c \in Client |-> srv[c] \ {k}]
  BY DEF Write, Spend
<1>4. srv' \in [Client -> SUBSET Key]
  BY <1>0, <1>3
<1> HIDE DEF told
<1>5. told \in SUBSET Client
  BY DEF told
<1>6. Tells(Push(k), {k}) /\ \A c \in told : cl'[c].wire = Append(cl[c].wire, Push(k))
  BY <1>1, <1>2, <1>3, <1>4, <1>5, Telling
<1>7. QED
  BY <1>3, <1>6 DEF told

(* FLUSHALL *)
LEMMA FlushTells ==
    ASSUME EntryInv, FlushAll
    PROVE  /\ Tells(Push(None), Key)
           /\ \A c \in Client : srv'[c] = {} /\ (cl[c].up => cl'[c].wire = Append(cl[c].wire, Push(None)))
<1> DEFINE told == {c \in Client : cl[c].up}
<1>1. Push(None) \in Message /\ ~Push(None).reply
  BY DEF Push, Message
<1>2. cl' = [c \in Client |-> IF c \in told THEN [cl[c] EXCEPT !.wire = Append(@, Push(None))] ELSE cl[c]]
  BY DEF FlushAll
<1>3. /\ conf' = conf /\ DOMAIN left' = DOMAIN left /\ map' = map /\ index' = index /\ load' = Staled(Key)
      /\ srv' = [c \in Client |-> {}]
  BY DEF FlushAll, Spend
<1>4. srv' \in [Client -> SUBSET Key]
  BY <1>3
<1> HIDE DEF told
<1>5. told \in SUBSET Client
  BY DEF told
<1>6. Tells(Push(None), Key) /\ \A c \in told : cl'[c].wire = Append(cl[c].wire, Push(None))
  BY <1>1, <1>2, <1>3, <1>4, <1>5, Telling
<1>7. QED
  BY <1>3, <1>6 DEF told

(* Write and FlushAll *)
LEMMA TellsInv ==
    ASSUME EntryInv, NEW m, NEW ks, Tells(m, ks)
    PROVE  EntryInv'
<1>1. /\ Goes(Cache, Cache') /\ DOMAIN load' = DOMAIN load
      /\ \A n \in DOMAIN load : load'[n].st = load[n].st /\ load'[n].by = load[n].by
  BY StaledGoes DEF Tells
<1>2. Answered'
  <2>1. SUFFICES ASSUME NEW c \in Client PROVE Answers(c)'
    BY DEF Answered
  <2>2. Answers(c) /\ cl[c].wire \in Seq(Message) /\ m \in Message /\ ~m.reply
    BY DEF EntryInv, Answered, Tells
  <2>3. CASE cl'[c].wire = cl[c].wire
    BY <1>1, <2>2, <2>3, AnswersSame
  <2>4. CASE cl'[c].wire = Append(cl[c].wire, m)
    BY <1>1, <2>2, <2>4, AnswersAppend
  <2>5. QED
    BY <2>3, <2>4 DEF Tells
<1>3. QED
  BY <1>1, <1>2, GoesInv DEF Tells

-----------------------------------------------------------------------------
(* The program starts with an empty cache. *)
LEMMA EntryInit == Init => EntryInv
<1> SUFFICES ASSUME Init PROVE EntryInv
  OBVIOUS
<1>1. Settings
  BY DEF Init, Settings
<1>2. cl \in [Client -> Conn] /\ \A c \in Client : cl[c].wire = <<>>
  <2>1. PICK c \in Client :
          cl = [d \in Client |->
                 LET shared == conf.provider \in {"pooled", "noredirect"} \/ d = c
                 IN  [up |-> shared, closed |-> ~shared, epoch |-> 1, wire |-> <<>>]]
    BY DEF Init
  <2>2. <<>> \in Seq(Message)
    OBVIOUS
  <2>3. \A b \in BOOLEAN : \A w \in Seq(Message) : [up |-> b, closed |-> ~b, epoch |-> 1, wire |-> w] \in Conn
    BY DEF Conn
  <2>4. \A d \in Client : cl[d] = [up |-> conf.provider \in {"pooled", "noredirect"} \/ d = c,
            closed |-> ~(conf.provider \in {"pooled", "noredirect"} \/ d = c), epoch |-> 1, wire |-> <<>>]
    BY <2>1
  <2>5. \A d \in Client : cl[d] \in Conn
    <3>1. SUFFICES ASSUME NEW d \in Client PROVE cl[d] \in Conn
      OBVIOUS
    <3>2. PICK b \in BOOLEAN : b = (conf.provider \in {"pooled", "noredirect"} \/ d = c)
      OBVIOUS
    <3>3. cl[d] = [up |-> b, closed |-> ~b, epoch |-> 1, wire |-> <<>>]
      BY <2>4, <3>2
    <3>4. QED
      BY <2>2, <2>3, <3>3
  <2>6. cl = [d \in Client |-> cl[d]]
    BY <2>1
  <2>7. cl \in [Client -> Conn]
    BY <2>5, <2>6
  <2>8. \A d \in Client : cl[d].wire = <<>>
    <3>1. SUFFICES ASSUME NEW d \in Client PROVE cl[d].wire = <<>>
      OBVIOUS
    <3>2. PICK w : w = <<>>
      OBVIOUS
    <3>3. \E a, b : cl[d] = [up |-> a, closed |-> b, epoch |-> 1, wire |-> w]
      BY <2>4, <3>2
    <3>4. cl[d].wire = w
      BY ONLY <3>3
    <3>5. QED
      BY <3>2, <3>4
  <2>9. QED
    BY <2>7, <2>8
<1>3. srv \in [Client -> SUBSET Key]
  BY DEF Init
<1>4. map = <<>> /\ load = <<>> /\ index = [k \in Key |-> {}]
  BY DEF Init
<1>5. Cache \in State
  <2>1. index \in [Key -> SUBSET Command]
    BY <1>4
  <2>2. map \in Seq(Entry) /\ load \in Seq(Load)
    BY <1>4
  <2>3. QED
    BY <2>1, <2>2 DEF Cache, State
<1>6. DOMAIN map = {} /\ DOMAIN load = {}
  BY <1>4
<1>7. Entries(Cache) = {}
  BY <1>6, NextCache DEF Entries
<1>8. Shape(Cache) /\ Promised(Cache, {})
  BY <1>5, <1>6, <1>7, NextCache DEF Shape, OneEach, Filed, Linked, Leaders, Promised
<1>9. Answered
  BY <1>2 DEF Answered, Answers
<1>10. Ends /\ Epochs
  BY <1>6, <1>7 DEF Ends, Epochs
<1>11. QED
  BY <1>1, <1>2, <1>3, <1>8, <1>9, <1>10 DEF EntryInv, Types

(* A step of any kind. *)
LEMMA EntryStep ==
    ASSUME NoRedirectStays, EntryInv, [Next]_vars
    PROVE  EntryInv'
<1>1. ASSUME NEW c \in Client, NEW cmd \in Command, Read(c, cmd) PROVE EntryInv'
  BY <1>1, ReadInv
<1>2. ASSUME NEW c \in Client, Receive(c) PROVE EntryInv'
  BY <1>2, ReceiveInv
<1>3. ASSUME NEW c \in Client, Drop(c) \/ Destroy(c) \/ Handoff(c) PROVE EntryInv'
  BY <1>3, CutInv
<1>4. ASSUME NEW c \in Client, Reconnect(c) PROVE EntryInv'
  BY <1>4, ReconnectInv
<1>5. ASSUME NEW n \in DOMAIN load, Resume(n) \/ ResumeFailed(n) \/ ResumeJoined(n) PROVE EntryInv'
  BY <1>5, ResumeInv
<1>6. ASSUME NEW n \in DOMAIN load, Execute(n) PROVE EntryInv'
  BY <1>6, ExecuteStep, ExecuteInv
<1>7. ASSUME NEW n \in DOMAIN load, Abort(n) PROVE EntryInv'
  BY <1>7, AbortInv
<1>8. ASSUME NEW i \in DOMAIN map, Expire(i) PROVE EntryInv'
  BY <1>8, ExpireStep
<1>9. ASSUME NEW k \in Key, Write(k) PROVE EntryInv'
  BY <1>9, WriteTells, TellsInv
<1>10. CASE FlushAll
  BY <1>10, FlushTells, TellsInv
<1>11. CASE UNCHANGED vars
  BY <1>11 DEF vars, EntryInv, Types, Settings, Cache, Shape, OneEach, Filed, Linked, Link, Leaders, Promised,
     Entries, Answered, Answers, Ends, EndsOf, Gone, Epochs
<1>12. QED
  BY <1>1, <1>2, <1>3, <1>4, <1>5, <1>6, <1>7, <1>8, <1>9, <1>10, <1>11 DEF Next

(* The entries and the reads they are of are in order in every behaviour. *)
LEMMA EntriesInOrder == ASSUME NoRedirectStays PROVE Spec => []EntryInv
<1>1. EntryInv /\ [Next]_vars => EntryInv'
  BY EntryStep
<1>2. QED
  BY EntryInit, <1>1, PTL DEF Spec

(* Nobody joins a read that has ended: a promise that get() hands out is   *)
(* one of a read still under way, whatever was invalidated, cleared,       *)
(* expired, evicted or lost in between (handleCache, cases 2b2 and 3).     *)
THEOREM JoinsOnlyLiveReads == ASSUME NoRedirectStays PROVE Spec => []JoinsLiveRead
BY EntriesInOrder, EntryJoins, PTL

-----------------------------------------------------------------------------
(* Why what is served is the server's value. *)

(* The invalidation of the value that read n got is on its way, or the     *)
(* value is the server's and the server would send one.                    *)
ToldOf(n) ==
    \E i \in DOMAIN cl[load[n].by].wire :
        /\ ~cl[load[n].by].wire[i].reply
        /\ \/ cl[load[n].by].wire[i].key = None
           \/ cl[load[n].by].wire[i].key \in KeysOf[load[n].cmd]
Track(n) == (load[n].fresh /\ KeysOf[load[n].cmd] \subseteq srv[load[n].by]) \/ ToldOf(n)

(* What read n gets is not stored for others. *)
Lost(n) == load[n].bad \/ load[n].cleared \/ Gone(load[n].by, load[n].epoch)
Guarded(n) == Lost(n) \/ Track(n)

Serves(e) == e.value => e.bad \/ load[e.load].cleared \/ Gone(e.by, e.epoch) \/ Track(e.load)
Theirs(e) ==
    conf.provider = "noredirect" /\ e.value /\ ~load[e.load].cleared => e.by = load[e.load].by

Unread == \A n \in DOMAIN load : load[n].st = "queued" => load[n].fresh
Replied == \A n \in DOMAIN load : load[n].st = "replied" /\ load[n].storable => Guarded(n)
Stored == \A e \in Entries(Cache) : Serves(e) /\ Theirs(e)
Tracked == \A c \in Client : srv[c] # {} => cl[c].up
Coming ==
    \A c \in Client : \A n \in DOMAIN load :
        (\E i \in DOMAIN cl[c].wire : cl[c].wire[i].reply /\ cl[c].wire[i].ok /\ cl[c].wire[i].load = n) =>
            Guarded(n)

Watched == Unread /\ Replied /\ Stored /\ Tracked /\ Coming

(* With the cache given as a configuration object, a handoff keeps it.     *)
OwnStays ==
    \A s \in Scenario : s.conf.provider = "own" => "handoff" \notin DOMAIN s.events

(* What would be served is watched. *)
LEMMA WatchedCoherent == EntryInv /\ Watched => Coherent
<1> SUFFICES ASSUME EntryInv, Watched, NEW i \in DOMAIN map,
                    map[i].value, Valid(Cache, map[i]), ~load[map[i].load].cleared
             PROVE  load[map[i].load].fresh \/ Told(map[i])
  BY DEF Coherent
<1> DEFINE e == map[i]
<1>1. e \in Entries(Cache) /\ Cache \in State
  BY DEF Entries, Cache, EntryInv, Shape
<1>2. load[e.load].cmd = e.cmd
  BY <1>1, NextCache DEF EntryInv, Shape, Linked, Link
<1>3. ~e.bad /\ OfItsConnection(e)
  BY DEF Valid
<1>4. e \in Entry
  BY <1>1, Parts
<1>5. e.epoch \in Nat /\ e.by \in Client
  BY <1>4 DEF Entry
<1>6. cl[e.by].epoch \in Nat
  BY <1>5 DEF EntryInv, Types, Conn
<1>7. ~Gone(e.by, e.epoch)
  BY <1>3, <1>5, <1>6 DEF Gone, OfItsConnection
<1>8. Serves(e)
  BY <1>1 DEF Watched, Stored
<1> HIDE DEF e
<1>9. Track(e.load)
  BY <1>3, <1>7, <1>8 DEF Serves, e
<1>10. CASE load[e.load].fresh
  BY <1>10 DEF e
<1>11. CASE ToldOf(e.load)
  BY <1>2, <1>11 DEF ToldOf, Told, e
<1>12. QED
  BY <1>9, <1>10, <1>11 DEF Track

(* What is lost stays lost. *)
LEMMA LostStays ==
    ASSUME EntryInv, Types', ConnStep, Follows(Cache, Cache'), NEW n \in DOMAIN load, Lost(n)
    PROVE  Lost(n)'
<1>1. /\ load'[n].by = load[n].by /\ load'[n].epoch = load[n].epoch
      /\ (load[n].bad => load'[n].bad) /\ (load[n].cleared => load'[n].cleared)
  BY NextCache DEF Follows
<1>2. ASSUME Gone(load[n].by, load[n].epoch) PROVE Gone(load[n].by, load[n].epoch)'
  <2>1. load[n] \in Load
    BY Parts, NextCache DEF EntryInv, Shape
  <2>2. PICK c \in Client, epoch \in Nat : c = load[n].by /\ epoch = load[n].epoch
    BY <2>1 DEF Load
  <2>3. epoch <= cl[c].epoch
    BY <1>2, <2>2 DEF EntryInv, Epochs, Gone
  <2>4. Gone(c, epoch)'
    BY <1>2, <2>2, <2>3, GoneStays
  <2>5. c = load'[n].by /\ epoch = load'[n].epoch
    BY <1>1, <2>2
  <2>6. QED
    BY <2>4, <2>5 DEF Gone
<1>3. QED
  BY <1>1, <1>2 DEF Lost

(* The server still tracks what it did, and what it sent is on its way. *)
LEMMA TrackStays ==
    ASSUME NEW n \in DOMAIN load, NEW c, c = load[n].by, Follows(Cache, Cache'), load'[n].fresh = load[n].fresh,
           srv[c] \subseteq srv'[c],
           \A i \in DOMAIN cl[c].wire : ~cl[c].wire[i].reply =>
               \E j \in DOMAIN cl'[c].wire : cl'[c].wire[j] = cl[c].wire[i],
           Track(n)
    PROVE  Track(n)'
<1>1. load'[n].by = c /\ load'[n].cmd = load[n].cmd
  BY NextCache DEF Follows
<1>2. CASE load[n].fresh /\ KeysOf[load[n].cmd] \subseteq srv[load[n].by]
  BY <1>1, <1>2 DEF Track
<1>3. CASE ToldOf(n)
  <2>1. PICK i \in DOMAIN cl[c].wire : /\ ~cl[c].wire[i].reply
                                       /\ cl[c].wire[i].key = None \/ cl[c].wire[i].key \in KeysOf[load[n].cmd]
    BY <1>3 DEF ToldOf
  <2>2. PICK j \in DOMAIN cl'[c].wire : cl'[c].wire[j] = cl[c].wire[i]
    BY <2>1
  <2>3. QED
    BY <1>1, <2>1, <2>2 DEF Track, ToldOf
<1>4. QED
  BY <1>2, <1>3 DEF Track

(* Entries that stay are still the server's or about to go. *)
LEMMA StoredStays ==
    ASSUME EntryInv, Types', ConnStep, Follows(Cache, Cache'), NEW e \in Entries(Cache), Serves(e), Theirs(e),
           Track(e.load) /\ ~load'[e.load].cleared => Track(e.load)' \/ Gone(e.by, e.epoch)'
    PROVE  Serves(e)' /\ Theirs(e)'
<1>1. e \in Entry /\ e.load \in DOMAIN load
  BY Parts, NextCache DEF EntryInv, Shape, Linked, Link
<1>2. e.epoch \in Nat /\ e.by \in Client
  BY <1>1 DEF Entry
<1>3. load'[e.load].by = load[e.load].by /\ (load[e.load].cleared => load'[e.load].cleared)
  BY <1>1, NextCache DEF Follows
<1>4. conf' = conf
  BY DEF ConnStep
<1>5. Theirs(e)'
  BY <1>3, <1>4 DEF Theirs
<1>6. Gone(e.by, e.epoch) => Gone(e.by, e.epoch)'
  <2>1. SUFFICES ASSUME Gone(e.by, e.epoch) PROVE Gone(e.by, e.epoch)'
    OBVIOUS
  <2>2. e.epoch <= cl[e.by].epoch
    BY <2>1 DEF EntryInv, Epochs, Gone
  <2>3. PICK c \in Client, epoch \in Nat : c = e.by /\ epoch = e.epoch
    BY <1>2
  <2>4. Gone(c, epoch)'
    BY <2>1, <2>2, <2>3, GoneStays
  <2>5. QED
    BY <2>3, <2>4
<1>7. Serves(e)'
  BY <1>3, <1>6 DEF Serves
<1>8. QED
  BY <1>5, <1>7

(* A step that loses nothing the server said. *)
LEMMA WatchedKept ==
    ASSUME EntryInv, Types', ConnStep, Follows(Cache, Cache'), Watched,
           \A n \in DOMAIN load : Track(n) => Track(n)',
           \A n \in DOMAIN load' : load'[n].st = "queued" => load'[n].fresh,
           \A n \in DOMAIN load' : load'[n].st = "replied" /\ load'[n].storable =>
               n \in DOMAIN load /\ ((load[n].st = "replied" /\ load[n].storable) \/ Guarded(n)),
           \A e \in Entries(Cache') : e \in Entries(Cache) \/ (Serves(e)' /\ Theirs(e)'),
           Tracked',
           \A c \in Client : \A i \in DOMAIN cl'[c].wire : cl'[c].wire[i].reply /\ cl'[c].wire[i].ok =>
               \/ \E j \in DOMAIN cl[c].wire : cl[c].wire[j] = cl'[c].wire[i]
               \/ \E n \in DOMAIN load : n = cl'[c].wire[i].load /\ Guarded(n)'
    PROVE  Watched'
<1>1. \A n \in DOMAIN load : Guarded(n) => Guarded(n)'
  BY LostStays DEF Guarded
<1>2. Unread'
  BY DEF Unread
<1>3. Replied'
  BY <1>1 DEF Replied, Watched
<1>4. Stored'
  <2>1. SUFFICES ASSUME NEW e \in Entries(Cache') PROVE Serves(e)' /\ Theirs(e)'
    BY NextCache DEF Stored
  <2>2. CASE e \in Entries(Cache)
    <3>1. Serves(e) /\ Theirs(e)
      BY <2>2 DEF Watched, Stored
    <3>2. e.load \in DOMAIN load
      BY <2>2, NextCache DEF EntryInv, Shape, Linked, Link
    <3>3. QED
      BY <2>2, <3>1, <3>2, StoredStays
  <2>3. QED
    BY <2>1, <2>2
<1>5. Coming'
  <2>1. SUFFICES ASSUME NEW c \in Client, NEW n \in DOMAIN load', NEW i \in DOMAIN cl'[c].wire,
                        cl'[c].wire[i].reply, cl'[c].wire[i].ok, cl'[c].wire[i].load = n
        PROVE  Guarded(n)'
    BY DEF Coming
  <2>2. CASE \E j \in DOMAIN cl[c].wire : cl[c].wire[j] = cl'[c].wire[i]
    <3>1. PICK j \in DOMAIN cl[c].wire : cl[c].wire[j] = cl'[c].wire[i]
      BY <2>2
    <3>2. n \in DOMAIN load /\ n = cl[c].wire[j].load
      BY <2>1, <3>1 DEF EntryInv, Answered, Answers
    <3>3. Guarded(n)
      BY <2>1, <3>1, <3>2 DEF Watched, Coming
    <3>4. QED
      BY <1>1, <3>1, <3>2, <3>3
  <2>3. QED
    BY <2>1, <2>2
<1>6. QED
  BY <1>2, <1>3, <1>4, <1>5 DEF Watched

(* A step of the client alone. *)
LEMMA WatchedStill ==
    ASSUME EntryInv, Watched, conf' = conf, cl' = cl, srv' = srv, DOMAIN left' = DOMAIN left, Follows(Cache, Cache'),
           \A n \in DOMAIN load : load'[n].fresh = load[n].fresh,
           \A n \in DOMAIN load' : load'[n].st = "queued" => load'[n].fresh,
           \A n \in DOMAIN load' : load'[n].st = "replied" /\ load'[n].storable =>
               n \in DOMAIN load /\ load[n].st = "replied" /\ load[n].storable,
           \A e \in Entries(Cache') : e \in Entries(Cache) \/ (Serves(e)' /\ Theirs(e)')
    PROVE  Watched'
<1>1. Types' /\ ConnStep
  BY ConnSame
<1>2. \A n \in DOMAIN load : Track(n) => Track(n)'
  <2>1. SUFFICES ASSUME NEW n \in DOMAIN load, Track(n) PROVE Track(n)'
    OBVIOUS
  <2>2. PICK c : c = load[n].by
    OBVIOUS
  <2>3. srv[c] \subseteq srv'[c] /\ \A i \in DOMAIN cl[c].wire : ~cl[c].wire[i].reply =>
               \E j \in DOMAIN cl'[c].wire : cl'[c].wire[j] = cl[c].wire[i]
    OBVIOUS
  <2>4. QED
    BY <2>1, <2>2, <2>3, TrackStays
<1>3. Tracked'
  BY DEF Watched, Tracked
<1>4. \A c \in Client : \A i \in DOMAIN cl'[c].wire : \E j \in DOMAIN cl[c].wire : cl[c].wire[j] = cl'[c].wire[i]
  OBVIOUS
<1>5. QED
  BY <1>1, <1>2, <1>3, <1>4, WatchedKept

(* A promise serves nothing. *)
LEMMA PromiseServes ==
    ASSUME NEW e, ~e.value
    PROVE  Serves(e)' /\ Theirs(e)'
BY DEF Serves, Theirs

(* Read *)
LEMMA ReadWatched ==
    ASSUME EntryInv, Watched, NEW c \in Client, NEW cmd \in Command, Read(c, cmd)
    PROVE  Watched'
<1>1. Grows(Cache, Cache', c)
  BY ReadGrows
<1>2. conf' = conf /\ cl' = cl /\ srv' = srv /\ DOMAIN left' = DOMAIN left
  BY DEF Read, Spend
<1>3. /\ Follows(Cache, Cache')
      /\ \A n \in DOMAIN load : /\ load'[n].st = load[n].st /\ load'[n].fresh = load[n].fresh
                                /\ load'[n].storable = load[n].storable
      /\ \A n \in DOMAIN load' \ DOMAIN load : load'[n].st # "replied" /\ load'[n].fresh
  BY <1>1, NextCache DEF Grows, AsBefore, Begun
<1>4. \A n \in DOMAIN load' : load'[n].st = "queued" => load'[n].fresh
  BY <1>3 DEF Watched, Unread
<1>5. \A e \in Entries(Cache') : e \in Entries(Cache) \/ (Serves(e)' /\ Theirs(e)')
  BY <1>1, PromiseServes DEF Grows
<1>6. QED
  BY <1>2, <1>3, <1>4, <1>5, WatchedStill

(* A read that ended. *)
LEMMA SettlesWatched ==
    ASSUME EntryInv, Watched, NEW n \in DOMAIN load, NEW st \in Ended, NEW new, Settles(n, st, new),
           \A e \in new : Serves(e)' /\ Theirs(e)',
           UNCHANGED <<conf, cl, srv, left>>
    PROVE  Watched'
<1>1. /\ Follows(Cache, Cache') /\ DOMAIN load' = DOMAIN load /\ load'[n].st = st
      /\ \A m \in DOMAIN load : /\ m # n => load'[m].st = load[m].st
                                /\ load'[m].fresh = load[m].fresh /\ load'[m].storable = load[m].storable
      /\ Entries(Cache') \subseteq Entries(Cache) \cup new
  BY DEF Settles
<1>2. load'[n].st \notin {"queued", "replied"}
  BY <1>1 DEF Ended
<1>3. \A m \in DOMAIN load' : load'[m].st = "queued" => load'[m].fresh
  BY <1>1, <1>2 DEF Watched, Unread
<1>4. \A m \in DOMAIN load' : load'[m].st = "replied" /\ load'[m].storable =>
               m \in DOMAIN load /\ load[m].st = "replied" /\ load[m].storable
  BY <1>1, <1>2
<1>5. \A e \in Entries(Cache') : e \in Entries(Cache) \/ (Serves(e)' /\ Theirs(e)')
  BY <1>1
<1>6. QED
  BY <1>1, <1>3, <1>4, <1>5, WatchedStill

(* Resume, ResumeFailed and ResumeJoined: a value is stored only while the *)
(* server is going to say when it changes.                                 *)
LEMMA ResumeWatched ==
    ASSUME EntryInv, Watched, NEW n \in DOMAIN load, Resume(n) \/ ResumeFailed(n) \/ ResumeJoined(n)
    PROVE  Watched'
<1>0. UNCHANGED <<conf, cl, srv, left>>
  BY DEF Resume, ResumeFailed, ResumeJoined
<1>1. CASE Resume(n)
  <2>1. \/ Settles(n, "done", {NewEntry(n, load[n], TRUE)}) /\ Stores(n)
        \/ Settles(n, "done", {})
    BY <1>1, ResumeSettles
  <2>2. "done" \in Ended
    BY DEF Ended
  <2>3. CASE Settles(n, "done", {NewEntry(n, load[n], TRUE)}) /\ Stores(n)
    <3>1. PICK e : e = NewEntry(n, load[n], TRUE)
      OBVIOUS
    <3>2. e.load = n /\ e.by = load[n].by
      BY <3>1 DEF NewEntry
    <3>3. load[n].st = "replied" /\ load[n].storable /\ StillValid(n)
      BY <1>1, <2>3 DEF Resume, Stores
    <3>4. Guarded(n)
      BY <3>3 DEF Watched, Replied
    <3>5. load[n] \in Load
      BY Parts, NextCache DEF EntryInv, Shape
    <3>6. load[n].epoch \in Nat /\ load[n].by \in Client
      BY <3>5 DEF Load
    <3>7. cl[load[n].by].epoch \in Nat
      BY <3>6 DEF EntryInv, Types, Conn
    <3>8. ~load[n].bad /\ ~Gone(load[n].by, load[n].epoch)
      BY <3>3, <3>6, <3>7 DEF StillValid, OfItsConnection, Gone
    <3>9. load[n].cleared \/ Track(n)
      BY <3>4, <3>8 DEF Guarded, Lost
    <3>10. /\ load'[n].by = load[n].by /\ load'[n].cmd = load[n].cmd /\ load'[n].fresh = load[n].fresh
           /\ load[n].cleared => load'[n].cleared
      BY <2>3, NextCache DEF Settles, Follows
    <3>11. Track(n) => Track(n)'
      BY <1>0, <3>10 DEF Track, ToldOf
    <3>12. Serves(e)'
      BY <3>2, <3>9, <3>10, <3>11 DEF Serves
    <3>13. Theirs(e)'
      BY <3>2, <3>10 DEF Theirs
    <3>14. QED
      BY <1>0, <2>2, <2>3, <3>1, <3>12, <3>13, SettlesWatched
  <2>4. CASE Settles(n, "done", {})
    BY <1>0, <2>2, <2>4, SettlesWatched
  <2>5. QED
    BY <2>1, <2>3, <2>4
<1>2. CASE ResumeFailed(n)
  <2>1. Settles(n, "threw", {}) /\ "threw" \in Ended
    BY <1>2, ResumeFailedSettles DEF Ended
  <2>2. QED
    BY <1>0, <2>1, SettlesWatched
<1>3. CASE ResumeJoined(n)
  <2>1. PICK st \in Ended, m \in DOMAIN load, e \in Entry :
              /\ e.load = m /\ e.value
              /\ Settles(n, st, {}) \/ (Settles(n, st, {e}) /\ load[m].cleared)
    BY <1>3, ResumeJoinedSettles
  <2>2. CASE Settles(n, st, {})
    BY <1>0, <2>1, <2>2, SettlesWatched
  <2>3. CASE Settles(n, st, {e}) /\ load[m].cleared
    <3>1. load'[m].cleared
      BY <2>3, NextCache DEF Settles, Follows
    <3>2. Serves(e)' /\ Theirs(e)'
      BY <2>1, <3>1 DEF Serves, Theirs
    <3>3. QED
      BY <1>0, <2>1, <2>3, <3>2, SettlesWatched
  <2>4. QED
    BY <2>1, <2>2, <2>3
<1>4. QED
  BY <1>1, <1>2, <1>3

(* Abort *)
LEMMA AbortWatched ==
    ASSUME EntryInv, Watched, NEW n \in DOMAIN load, Abort(n)
    PROVE  Watched'
<1>1. Falls(Cache, Cache', load[n].by)
  BY AbortFalls
<1>2. conf' = conf /\ cl' = cl /\ srv' = srv /\ DOMAIN left' = DOMAIN left
  BY DEF Abort, Spend
<1>3. /\ Follows(Cache, Cache') /\ DOMAIN load' = DOMAIN load
      /\ \A m \in DOMAIN load : /\ load'[m].fresh = load[m].fresh /\ load'[m].storable = load[m].storable
                                /\ load'[m].st = load[m].st \/ load'[m].st = "failed"
      /\ Entries(Cache') \subseteq Entries(Cache)
  BY <1>1, NextCache DEF Falls
<1>4. \A m \in DOMAIN load' : load'[m].st = "queued" => load'[m].fresh
  BY <1>3 DEF Watched, Unread
<1>5. QED
  BY <1>2, <1>3, <1>4, WatchedStill

(* Expire *)
LEMMA ExpireWatched ==
    ASSUME EntryInv, Watched, NEW i \in DOMAIN map, Expire(i)
    PROVE  Watched'
<1>1. /\ conf' = conf /\ cl' = cl /\ srv' = srv
      /\ Follows(Cache, Cache') /\ DOMAIN load' = DOMAIN load
      /\ \A n \in DOMAIN load : /\ load'[n].st = load[n].st /\ load'[n].fresh = load[n].fresh
                                /\ load'[n].storable = load[n].storable
      /\ \A e \in Entries(Cache') : e \in Entries(Cache) \/ e.bad
      /\ \A e \in Entries(Cache') : \E f \in Entries(Cache) :
                e.by = f.by /\ e.load = f.load /\ e.value = f.value
  BY ExpireStep
<1>2. DOMAIN left' = DOMAIN left
  BY DEF Expire, Spend
<1>3. \A n \in DOMAIN load' : load'[n].st = "queued" => load'[n].fresh
  BY <1>1 DEF Watched, Unread
<1>4. \A e \in Entries(Cache') : e \in Entries(Cache) \/ (Serves(e)' /\ Theirs(e)')
  <2>1. SUFFICES ASSUME NEW e \in Entries(Cache'), e \notin Entries(Cache) PROVE Serves(e)' /\ Theirs(e)'
    OBVIOUS
  <2>2. PICK f \in Entries(Cache) : e.by = f.by /\ e.load = f.load /\ e.value = f.value
    BY <1>1
  <2>3. Theirs(f) /\ f.load \in DOMAIN load
    BY NextCache DEF Watched, Stored, EntryInv, Shape, Linked, Link
  <2>4. load'[f.load].by = load[f.load].by /\ (load[f.load].cleared => load'[f.load].cleared)
    BY <1>1, <2>3, NextCache DEF Follows
  <2>5. Theirs(e)'
    BY <1>1, <2>2, <2>3, <2>4 DEF Theirs
  <2>6. Serves(e)'
    BY <1>1, <2>1 DEF Serves
  <2>7. QED
    BY <2>5, <2>6
<1>5. QED
  BY <1>1, <1>2, <1>3, <1>4, WatchedStill

(* Reconnect *)
LEMMA ReconnectWatched ==
    ASSUME EntryInv, Watched, NEW c \in Client, Reconnect(c)
    PROVE  Watched'
<1>1. /\ EntryInv' /\ ConnStep
      /\ \A d \in Client : cl'[d].wire = cl[d].wire /\ (cl[d].up => cl'[d].up)
  BY ReconnectInv
<1>2. map' = map /\ index' = index /\ load' = load /\ srv' = srv
  BY DEF Reconnect
<1>3. Types' /\ Follows(Cache, Cache') /\ Cache' = Cache
  BY <1>1, <1>2 DEF EntryInv, Follows, Cache
<1>4. \A n \in DOMAIN load : Track(n) => Track(n)'
  <2>1. \A n \in DOMAIN load : load[n] \in Load
    BY Parts, NextCache DEF EntryInv, Shape
  <2>2. \A n \in DOMAIN load : load[n].by \in Client
    BY <2>1 DEF Load
  <2>3. QED
    BY <1>1, <1>2, <2>2 DEF Track, ToldOf
<1>5. Tracked'
  BY <1>1, <1>2 DEF Watched, Tracked
<1>6. \A d \in Client : \A i \in DOMAIN cl'[d].wire : \E j \in DOMAIN cl[d].wire : cl[d].wire[j] = cl'[d].wire[i]
  BY <1>1
<1>7. \A n \in DOMAIN load' : load'[n].st = "queued" => load'[n].fresh
  BY <1>2 DEF Watched, Unread
<1>8. QED
  BY <1>1, <1>2, <1>3, <1>4, <1>5, <1>6, <1>7, WatchedKept

(* The messages of a connection that one is added to. *)
Extends(v, w, m) ==
    /\ \A i \in DOMAIN w : \E j \in DOMAIN v : v[j] = w[i]
    /\ \A j \in DOMAIN v : v[j] = m \/ \E i \in DOMAIN w : w[i] = v[j]
    /\ \E j \in DOMAIN v : v[j] = m

(* What Append leaves of the messages of a connection. *)
LEMMA Longest ==
    ASSUME NEW w \in Seq(Message), NEW m \in Message
    PROVE  Extends(Append(w, m), w, m)
BY AppendEntries DEF Extends

(* The client of a read. *)
LEMMA ByClient ==
    ASSUME EntryInv, NEW n \in DOMAIN load
    PROVE  load[n].by \in Client /\ load[n].cmd \in Command
<1>1. load[n] \in Load
  BY Parts, NextCache DEF EntryInv, Shape
<1>2. QED
  BY <1>1 DEF Load

(* Execute: the keys of a read are tracked before it is answered. *)
LEMMA ExecuteWatched ==
    ASSUME EntryInv, Watched, NEW n \in DOMAIN load, NEW ok \in BOOLEAN, Executes(n, ok)
    PROVE  Watched'
<1>0. PICK c \in Client : c = load[n].by
  BY DEF Executes
<1>1. /\ load[n].st = "queued" /\ cl[c].up /\ Types' /\ ConnStep
      /\ Reply(n, ok) \in Message
      /\ cl[c].wire \in Seq(Message) /\ cl'[c].wire = Append(cl[c].wire, Reply(n, ok))
      /\ \A d \in Client : cl'[d].up = cl[d].up /\ (d # c => cl'[d].wire = cl[d].wire)
      /\ \A d \in Client : srv[d] \subseteq srv'[d] /\ (d # c => srv'[d] = srv[d])
      /\ ok => KeysOf[load[n].cmd] \subseteq srv'[c]
      /\ Goes(Cache, Cache') /\ DOMAIN load' = DOMAIN load
      /\ load'[n].st = "sent" /\ load'[n].by = c /\ load'[n].fresh = load[n].fresh
      /\ load'[n].cmd = load[n].cmd
      /\ \A m \in DOMAIN load : m # n => load'[m] = load[m]
      /\ Entries(Cache') = Entries(Cache)
  BY <1>0 DEF Executes
<1>2. Follows(Cache, Cache')
  BY <1>1, FollowsSteps
<1>3. /\ \A i \in DOMAIN cl[c].wire : \E j \in DOMAIN cl'[c].wire : cl'[c].wire[j] = cl[c].wire[i]
      /\ \A j \in DOMAIN cl'[c].wire : cl'[c].wire[j] = Reply(n, ok) \/ \E i \in DOMAIN cl[c].wire : cl[c].wire[i] = cl'[c].wire[j]
  <2>1. cl[c].wire \in Seq(Message) /\ Reply(n, ok) \in Message /\ cl'[c].wire = Append(cl[c].wire, Reply(n, ok))
    BY <1>1
  <2>2. Extends(cl'[c].wire, cl[c].wire, Reply(n, ok))
    BY ONLY <2>1, Longest
  <2>3. QED
    BY ONLY <2>2 DEF Extends
<1>4. \A m \in DOMAIN load : Track(m) => Track(m)'
  <2>1. SUFFICES ASSUME NEW m \in DOMAIN load, Track(m) PROVE Track(m)'
    OBVIOUS
  <2>2. PICK d \in Client : d = load[m].by
    BY ByClient
  <2>3. srv[d] \subseteq srv'[d] /\ load'[m].fresh = load[m].fresh
    BY <1>1
  <2>4. \A i \in DOMAIN cl[d].wire : \E j \in DOMAIN cl'[d].wire : cl'[d].wire[j] = cl[d].wire[i]
    <3>1. d # c => cl'[d].wire = cl[d].wire
      BY <1>1
    <3>2. QED
      BY ONLY <1>3, <3>1
  <2>5. QED
    BY <1>2, <2>1, <2>2, <2>3, <2>4, TrackStays
<1>5. \A m \in DOMAIN load' : load'[m].st = "queued" => load'[m].fresh
  BY <1>1 DEF Watched, Unread
<1>6. \A m \in DOMAIN load' : load'[m].st = "replied" => m \in DOMAIN load /\ load'[m] = load[m]
  BY <1>1
<1>7. Tracked'
  BY <1>1 DEF Watched, Tracked
<1>8. ok => Guarded(n)'
  <2>1. load[n].fresh
    BY <1>1 DEF Watched, Unread
  <2>2. QED
    BY <1>1, <2>1 DEF Guarded, Track
<1>9. \A d \in Client : \A i \in DOMAIN cl'[d].wire : cl'[d].wire[i].reply /\ cl'[d].wire[i].ok =>
               \/ \E j \in DOMAIN cl[d].wire : cl[d].wire[j] = cl'[d].wire[i]
               \/ \E m \in DOMAIN load : m = cl'[d].wire[i].load /\ Guarded(m)'
  <2>1. Reply(n, ok).ok = ok /\ Reply(n, ok).load = n
    BY DEF Reply
  <2>2. SUFFICES ASSUME NEW d \in Client, NEW i \in DOMAIN cl'[d].wire, cl'[d].wire[i].reply, cl'[d].wire[i].ok,
                        ~\E j \in DOMAIN cl[d].wire : cl[d].wire[j] = cl'[d].wire[i]
        PROVE  \E m \in DOMAIN load : m = cl'[d].wire[i].load /\ Guarded(m)'
    OBVIOUS
  <2>3. d = c
    <3>1. d # c => cl'[d].wire = cl[d].wire
      BY <1>1
    <3>2. QED
      BY ONLY <2>2, <3>1
  <2>4. cl'[d].wire[i] = Reply(n, ok)
    BY ONLY <1>3, <2>2, <2>3
  <2>5. QED
    BY <1>8, <2>1, <2>2, <2>4
<1>10. QED
  BY <1>1, <1>2, <1>4, <1>5, <1>6, <1>7, <1>9, WatchedKept

(* Write and FlushAll: who tracked a key is told. *)
LEMMA TellsWatched ==
    ASSUME EntryInv, Watched, NEW k, NEW ks, Tells(Push(k), ks),
           \A c \in Client : srv'[c] \subseteq srv[c],
           \A n \in DOMAIN load : \A c \in Client :
               KeysOf[load[n].cmd] \subseteq srv[c] =>
                   \/ KeysOf[load[n].cmd] \cap ks = {} /\ KeysOf[load[n].cmd] \subseteq srv'[c]
                   \/ cl'[c].wire = Append(cl[c].wire, Push(k)) /\ (k = None \/ k \in KeysOf[load[n].cmd])
    PROVE  Watched'
<1>1. /\ Types' /\ ConnStep /\ Push(k) \in Message /\ ~Push(k).reply
      /\ \A c \in Client : /\ cl[c].wire \in Seq(Message)
                           /\ cl'[c].wire = cl[c].wire \/ cl'[c].wire = Append(cl[c].wire, Push(k))
                           /\ cl'[c].up = cl[c].up
      /\ map' = map /\ index' = index /\ load' = Staled(ks)
  BY DEF Tells
<1>2. /\ Goes(Cache, Cache') /\ DOMAIN load' = DOMAIN load
      /\ \A n \in DOMAIN load :
            /\ load'[n].st = load[n].st /\ load'[n].by = load[n].by /\ load'[n].cmd = load[n].cmd
            /\ load'[n].storable = load[n].storable
            /\ load[n].st = "queued" \/ KeysOf[load[n].cmd] \cap ks = {} => load'[n].fresh = load[n].fresh
  BY <1>1, StaledGoes
<1>3. Follows(Cache, Cache') /\ Entries(Cache') = Entries(Cache)
  BY <1>2, FollowsSteps, GoesShape DEF EntryInv
<1>4. \A c \in Client :
         /\ \A i \in DOMAIN cl[c].wire : \E j \in DOMAIN cl'[c].wire : cl'[c].wire[j] = cl[c].wire[i]
         /\ \A j \in DOMAIN cl'[c].wire : cl'[c].wire[j] = Push(k) \/ \E i \in DOMAIN cl[c].wire : cl[c].wire[i] = cl'[c].wire[j]
         /\ cl'[c].wire = Append(cl[c].wire, Push(k)) => \E j \in DOMAIN cl'[c].wire : cl'[c].wire[j] = Push(k)
  <2>1. SUFFICES ASSUME NEW c \in Client
        PROVE  /\ \A i \in DOMAIN cl[c].wire : \E j \in DOMAIN cl'[c].wire : cl'[c].wire[j] = cl[c].wire[i]
               /\ \A j \in DOMAIN cl'[c].wire : cl'[c].wire[j] = Push(k) \/ \E i \in DOMAIN cl[c].wire : cl[c].wire[i] = cl'[c].wire[j]
               /\ cl'[c].wire = Append(cl[c].wire, Push(k)) => \E j \in DOMAIN cl'[c].wire : cl'[c].wire[j] = Push(k)
    OBVIOUS
  <2>2. CASE cl'[c].wire = Append(cl[c].wire, Push(k))
    <3>1. cl[c].wire \in Seq(Message) /\ Push(k) \in Message
      BY <1>1
    <3>2. Extends(cl'[c].wire, cl[c].wire, Push(k))
      BY ONLY <2>2, <3>1, Longest
    <3>3. QED
      BY ONLY <3>2 DEF Extends
  <2>3. CASE cl'[c].wire = cl[c].wire /\ cl'[c].wire # Append(cl[c].wire, Push(k))
    BY <2>3
  <2>4. QED
    BY <1>1, <2>2, <2>3
<1>5. \A n \in DOMAIN load : Track(n) => Track(n)'
  <2>1. SUFFICES ASSUME NEW n \in DOMAIN load, Track(n) PROVE Track(n)'
    OBVIOUS
  <2>2. PICK c \in Client : c = load[n].by
    BY ByClient
  <2>3. load'[n].by = c /\ load'[n].cmd = load[n].cmd
    BY <1>2, <2>2
  <2>4. CASE load[n].fresh /\ KeysOf[load[n].cmd] \subseteq srv[c]
    <3>1. CASE KeysOf[load[n].cmd] \cap ks = {} /\ KeysOf[load[n].cmd] \subseteq srv'[c]
      BY <1>2, <2>3, <2>4, <3>1 DEF Track
    <3>2. CASE cl'[c].wire = Append(cl[c].wire, Push(k)) /\ (k = None \/ k \in KeysOf[load[n].cmd])
      <4>1. PICK j \in DOMAIN cl'[c].wire : cl'[c].wire[j] = Push(k)
        BY <1>4, <3>2
      <4>2. ~Push(k).reply /\ Push(k).key = k
        BY DEF Push
      <4>3. QED
        BY <2>3, <3>2, <4>1, <4>2 DEF Track, ToldOf
    <3>3. QED
      BY <2>4, <3>1, <3>2
  <2>5. CASE ToldOf(n)
    <3>1. PICK i \in DOMAIN cl[c].wire : /\ ~cl[c].wire[i].reply
                                         /\ cl[c].wire[i].key = None \/ cl[c].wire[i].key \in KeysOf[load[n].cmd]
      BY <2>2, <2>5 DEF ToldOf
    <3>2. PICK j \in DOMAIN cl'[c].wire : cl'[c].wire[j] = cl[c].wire[i]
      BY <1>4
    <3>3. QED
      BY <2>3, <3>1, <3>2 DEF Track, ToldOf
  <2>6. QED
    BY <2>1, <2>2, <2>4, <2>5 DEF Track
<1>6. \A n \in DOMAIN load' : load'[n].st = "queued" => load'[n].fresh
  BY <1>2 DEF Watched, Unread
<1>7. Tracked'
  BY <1>1 DEF Watched, Tracked
<1>8. \A c \in Client : \A i \in DOMAIN cl'[c].wire : cl'[c].wire[i].reply =>
         \E j \in DOMAIN cl[c].wire : cl[c].wire[j] = cl'[c].wire[i]
  BY <1>1, <1>4
<1>9. QED
  BY <1>1, <1>2, <1>3, <1>5, <1>6, <1>7, <1>8, WatchedKept

(* Somebody writes a key. *)
LEMMA WriteWatched ==
    ASSUME EntryInv, Watched, NEW k \in Key, Write(k)
    PROVE  Watched'
<1>1. /\ Tells(Push(k), {k})
      /\ \A c \in Client : srv'[c] = srv[c] \ {k} /\ (k \in srv[c] => cl'[c].wire = Append(cl[c].wire, Push(k)))
  BY WriteTells
<1>2. \A n \in DOMAIN load : \A c \in Client :
               KeysOf[load[n].cmd] \subseteq srv[c] =>
                   \/ KeysOf[load[n].cmd] \cap {k} = {} /\ KeysOf[load[n].cmd] \subseteq srv'[c]
                   \/ cl'[c].wire = Append(cl[c].wire, Push(k)) /\ (k = None \/ k \in KeysOf[load[n].cmd])
  BY <1>1
<1>3. \A c \in Client : srv'[c] \subseteq srv[c]
  BY <1>1
<1>4. QED
  BY <1>1, <1>2, <1>3, TellsWatched

(* FLUSHALL *)
LEMMA FlushWatched ==
    ASSUME EntryInv, Watched, FlushAll
    PROVE  Watched'
<1>0. PICK k : k = None
  OBVIOUS
<1>1. /\ Tells(Push(k), Key)
      /\ \A c \in Client : srv'[c] = {} /\ (cl[c].up => cl'[c].wire = Append(cl[c].wire, Push(k)))
  BY <1>0, FlushTells
<1>2. \A n \in DOMAIN load : KeysOf[load[n].cmd] # {}
  BY ByClient, CacheAssumption
<1>3. \A c \in Client : srv[c] # {} => cl[c].up
  BY DEF Watched, Tracked
<1>4. \A n \in DOMAIN load : \A c \in Client :
               KeysOf[load[n].cmd] \subseteq srv[c] =>
                   \/ KeysOf[load[n].cmd] \cap Key = {} /\ KeysOf[load[n].cmd] \subseteq srv'[c]
                   \/ /\ cl'[c].wire = Append(cl[c].wire, Push(k))
                      /\ k = None \/ k \in KeysOf[load[n].cmd]
  BY <1>0, <1>1, <1>2, <1>3
<1>5. \A c \in Client : srv'[c] \subseteq srv[c]
  BY <1>1
<1>6. QED
  BY <1>1, <1>4, <1>5, TellsWatched

(* The messages of a connection that one is taken from. *)
Shrinks(v, w) ==
    /\ \A i \in DOMAIN w : i = 1 \/ \E j \in DOMAIN v : v[j] = w[i]
    /\ \A j \in DOMAIN v : \E i \in DOMAIN w : w[i] = v[j]

(* What Tail leaves of the messages of a connection. *)
LEMMA Shorter ==
    ASSUME NEW w \in Seq(Message), w # <<>>
    PROVE  Shrinks(Tail(w), w)
<1>1. /\ DOMAIN w = 1..Len(w) /\ DOMAIN Tail(w) = 1..(Len(w) - 1) /\ Len(w) \in Nat
      /\ \A j \in 1..(Len(w) - 1) : Tail(w)[j] = w[j + 1]
  OBVIOUS
<1>2. \A i \in 1..Len(w) : i = 1 \/ (i - 1 \in 1..(Len(w) - 1) /\ Tail(w)[i - 1] = w[i])
  BY <1>1
<1>3. \A j \in 1..(Len(w) - 1) : j + 1 \in 1..Len(w)
  BY <1>1
<1>4. QED
  BY <1>1, <1>2, <1>3 DEF Shrinks

(* Entries are dropped: what the cache keeps, or will, is still watched.   *)
LEMMA FallsWatched ==
    ASSUME EntryInv, Watched, Types', ConnStep, NEW c, Falls(Cache, Cache', c),
           \A n \in DOMAIN load : load[n].st \in InFlight /\ Track(n) => Guarded(n)',
           \A e \in Entries(Cache') : e.value /\ Track(e.load) /\ ~load'[e.load].cleared =>
               Track(e.load)' \/ Gone(e.by, e.epoch)',
           Tracked',
           \A d \in Client : \A i \in DOMAIN cl'[d].wire : \E j \in DOMAIN cl[d].wire : cl[d].wire[j] = cl'[d].wire[i]
    PROVE  Watched'
<1>1. /\ Follows(Cache, Cache') /\ DOMAIN load' = DOMAIN load
      /\ \A m \in DOMAIN load : /\ load'[m].fresh = load[m].fresh /\ load'[m].storable = load[m].storable
                                /\ load'[m].st = load[m].st \/ load'[m].st = "failed"
      /\ Entries(Cache') \subseteq Entries(Cache)
  BY NextCache DEF Falls
<1>2. \A n \in DOMAIN load : load[n].st \in InFlight /\ Guarded(n) => Guarded(n)'
  BY <1>1, LostStays DEF Guarded
<1>3. Unread'
  BY <1>1 DEF Watched, Unread
<1>4. Replied'
  <2>1. SUFFICES ASSUME NEW n \in DOMAIN load', load'[n].st = "replied", load'[n].storable
        PROVE  Guarded(n)'
    BY DEF Replied
  <2>2. n \in DOMAIN load /\ load[n].st = "replied" /\ load[n].storable
    BY <1>1, <2>1
  <2>3. Guarded(n) /\ load[n].st \in InFlight
    BY <2>2 DEF Watched, Replied, InFlight
  <2>4. QED
    BY <1>2, <2>2, <2>3
<1>5. Stored'
  <2>1. SUFFICES ASSUME NEW e \in Entries(Cache') PROVE Serves(e)' /\ Theirs(e)'
    BY NextCache DEF Stored
  <2>2. e \in Entries(Cache)
    BY <1>1
  <2>3. Serves(e) /\ Theirs(e)
    BY <2>2 DEF Watched, Stored
  <2>4. CASE ~e.value
    BY <2>4, PromiseServes
  <2>5. CASE e.value
    BY <1>1, <2>1, <2>2, <2>3, <2>5, StoredStays
  <2>6. QED
    BY <2>4, <2>5
<1>6. Coming'
  <2>1. SUFFICES ASSUME NEW d \in Client, NEW n \in DOMAIN load', NEW i \in DOMAIN cl'[d].wire,
                        cl'[d].wire[i].reply, cl'[d].wire[i].ok, cl'[d].wire[i].load = n
        PROVE  Guarded(n)'
    BY DEF Coming
  <2>2. PICK j \in DOMAIN cl[d].wire : cl[d].wire[j] = cl'[d].wire[i]
    OBVIOUS
  <2>3. n \in DOMAIN load /\ n = cl[d].wire[j].load /\ load[n].st = "sent"
    BY <2>1, <2>2 DEF EntryInv, Answered, Answers
  <2>4. Guarded(n) /\ load[n].st \in InFlight
    BY <2>1, <2>2, <2>3 DEF Watched, Coming, InFlight
  <2>5. QED
    BY <1>2, <2>3, <2>4
<1>7. QED
  BY <1>3, <1>4, <1>5, <1>6 DEF Watched

(* Receive, a reply: whether it may be stored was settled when the server  *)
(* sent it.                                                                *)
LEMMA ReplyWatched ==
    ASSUME EntryInv, Watched, NEW c \in Client, Takes(c), cl[c].wire[1].reply
    PROVE  Watched'
<1>0. PICK n : n = cl[c].wire[1].load
  OBVIOUS
<1>1. /\ n \in DOMAIN load /\ load[n].st = "sent" /\ load[n].by = c
      /\ Goes(Cache, Cache') /\ DOMAIN load' = DOMAIN load
      /\ \A m \in DOMAIN load : m # n => load'[m] = load[m]
      /\ load'[n].st = "replied" /\ load'[n].storable = cl[c].wire[1].ok /\ load'[n].fresh = load[n].fresh
      /\ Entries(Cache') = Entries(Cache)
  BY <1>0, ReplyGoes
<1>2. /\ Types' /\ ConnStep /\ srv' = srv
      /\ cl[c].wire \in Seq(Message) /\ cl[c].wire # <<>> /\ cl'[c].wire = Tail(cl[c].wire)
      /\ \A d \in Client : cl'[d].up = cl[d].up /\ (d # c => cl'[d].wire = cl[d].wire)
  BY DEF Takes
<1>3. Shrinks(cl'[c].wire, cl[c].wire)
  BY ONLY <1>2, Shorter
<1>4. Follows(Cache, Cache')
  BY <1>1, FollowsSteps
<1>5. \A m \in DOMAIN load : Track(m) => Track(m)'
  <2>1. SUFFICES ASSUME NEW m \in DOMAIN load, Track(m) PROVE Track(m)'
    OBVIOUS
  <2>2. PICK d \in Client : d = load[m].by
    BY ByClient
  <2>3. srv[d] \subseteq srv'[d] /\ load'[m].fresh = load[m].fresh
    BY <1>1, <1>2
  <2>4. \A i \in DOMAIN cl[d].wire : ~cl[d].wire[i].reply => \E j \in DOMAIN cl'[d].wire : cl'[d].wire[j] = cl[d].wire[i]
    <3>1. d # c => cl'[d].wire = cl[d].wire
      BY <1>2
    <3>2. cl[c].wire[1].reply
      OBVIOUS
    <3>3. QED
      BY ONLY <1>3, <3>1, <3>2 DEF Shrinks
  <2>5. QED
    BY <1>4, <2>1, <2>2, <2>3, <2>4, TrackStays
<1>6. \A m \in DOMAIN load' : load'[m].st = "queued" => load'[m].fresh
  BY <1>1 DEF Watched, Unread
<1>7. \A m \in DOMAIN load' : load'[m].st = "replied" /\ load'[m].storable =>
         m \in DOMAIN load /\ ((load[m].st = "replied" /\ load[m].storable) \/ Guarded(m))
  <2>1. SUFFICES ASSUME load'[n].storable PROVE Guarded(n)
    BY <1>1
  <2>2. 1 \in DOMAIN cl[c].wire
    BY <1>2
  <2>3. cl[c].wire[1].ok
    BY <1>1, <2>1
  <2>4. QED
    BY <1>0, <1>1, <2>2, <2>3 DEF Watched, Coming
<1>8. Tracked'
  BY <1>2 DEF Watched, Tracked
<1>9. \A d \in Client : \A i \in DOMAIN cl'[d].wire : \E j \in DOMAIN cl[d].wire : cl[d].wire[j] = cl'[d].wire[i]
  <2>1. \A d \in Client : d # c => cl'[d].wire = cl[d].wire
    BY <1>2
  <2>2. QED
    BY ONLY <1>3, <2>1 DEF Shrinks
<1>10. QED
  BY <1>1, <1>2, <1>4, <1>5, <1>6, <1>7, <1>8, <1>9, WatchedKept

(* Receive, an invalidation: what it is about is dropped, or will not be   *)
(* stored; the rest is not affected.                                       *)
LEMMA PushWatched ==
    ASSUME EntryInv, Watched, NEW c \in Client, Takes(c), ~cl[c].wire[1].reply
    PROVE  Watched'
<1>0. PICK k : k = cl[c].wire[1].key
  OBVIOUS
<1>1. /\ Falls(Cache, Cache', c)
      /\ \A e \in Entries(Cache) : k = None \/ k \in KeysOf[e.cmd] =>
            e \notin Entries(Cache') /\ (~e.value => load'[e.load].bad \/ load'[e.load].cleared)
  BY <1>0, PushFalls
<1>2. /\ Types' /\ ConnStep /\ srv' = srv
      /\ cl[c].wire \in Seq(Message) /\ cl[c].wire # <<>> /\ cl'[c].wire = Tail(cl[c].wire)
      /\ \A d \in Client : cl'[d].up = cl[d].up /\ (d # c => cl'[d].wire = cl[d].wire)
  BY DEF Takes
<1>3. Shrinks(cl'[c].wire, cl[c].wire)
  BY ONLY <1>2, Shorter
<1>4. /\ Follows(Cache, Cache') /\ DOMAIN load' = DOMAIN load /\ Entries(Cache') \subseteq Entries(Cache)
      /\ \A n \in DOMAIN load : /\ load'[n].fresh = load[n].fresh
                                /\ load'[n].by = load[n].by /\ load'[n].cmd = load[n].cmd
                                /\ load[n].bad => load'[n].bad
                                /\ load[n].cleared => load'[n].cleared
  BY <1>1, NextCache DEF Falls, Follows
<1>5. \A n \in DOMAIN load : Track(n) => Track(n)' \/ k = None \/ k \in KeysOf[load[n].cmd]
  <2>1. SUFFICES ASSUME NEW n \in DOMAIN load, Track(n), k # None, k \notin KeysOf[load[n].cmd]
        PROVE  Track(n)'
    OBVIOUS
  <2>2. PICK d \in Client : d = load[n].by
    BY ByClient
  <2>3. load'[n].by = d /\ load'[n].cmd = load[n].cmd /\ load'[n].fresh = load[n].fresh /\ srv'[d] = srv[d]
    BY <1>2, <1>4, <2>2
  <2>4. CASE load[n].fresh /\ KeysOf[load[n].cmd] \subseteq srv[d]
    BY <2>3, <2>4 DEF Track
  <2>5. CASE ToldOf(n)
    <3>1. PICK i \in DOMAIN cl[d].wire : /\ ~cl[d].wire[i].reply
                                         /\ cl[d].wire[i].key = None \/ cl[d].wire[i].key \in KeysOf[load[n].cmd]
      BY <2>2, <2>5 DEF ToldOf
    <3>2. \E j \in DOMAIN cl'[d].wire : cl'[d].wire[j] = cl[d].wire[i]
      <4>1. d # c => cl'[d].wire = cl[d].wire
        BY <1>2
      <4>2. d = c => i # 1
        BY <1>0, <2>1, <3>1
      <4>3. i \in DOMAIN cl[d].wire
        BY <3>1
      <4>4. QED
        BY ONLY <1>3, <4>1, <4>2, <4>3 DEF Shrinks
    <3>3. PICK j \in DOMAIN cl'[d].wire : cl'[d].wire[j] = cl[d].wire[i]
      BY <3>2
    <3>4. QED
      BY <2>3, <3>1, <3>3 DEF Track, ToldOf
  <2>6. QED
    BY <2>1, <2>2, <2>4, <2>5 DEF Track
<1>6. \A n \in DOMAIN load : load[n].st \in InFlight /\ Track(n) => Guarded(n)'
  <2>1. SUFFICES ASSUME NEW n \in DOMAIN load, load[n].st \in InFlight, k = None \/ k \in KeysOf[load[n].cmd]
        PROVE  load'[n].bad \/ load'[n].cleared
    BY <1>5 DEF Guarded, Lost
  <2>2. CASE \E p \in Entries(Cache) : ~p.value /\ p.load = n /\ p.cmd = load[n].cmd
    BY <1>1, <2>1, <2>2
  <2>3. CASE load[n].bad \/ load[n].cleared
    BY <1>4, <2>3
  <2>4. QED
    BY <2>1, <2>2, <2>3, PromiseOf
<1>7. \A e \in Entries(Cache') : e.value /\ Track(e.load) /\ ~load'[e.load].cleared =>
               Track(e.load)' \/ Gone(e.by, e.epoch)'
  <2>1. SUFFICES ASSUME NEW e \in Entries(Cache'), Track(e.load) PROVE Track(e.load)'
    OBVIOUS
  <2>2. e \in Entries(Cache)
    BY <1>4
  <2>3. PICK n \in DOMAIN load : n = e.load /\ load[n].cmd = e.cmd
    BY <2>2, NextCache DEF EntryInv, Shape, Linked, Link
  <2>4. ~(k = None \/ k \in KeysOf[e.cmd])
    BY <1>1, <2>2
  <2>5. Track(n)'
    BY <1>5, <2>1, <2>3, <2>4
  <2>6. QED
    BY <2>3, <2>5
<1>8. Tracked'
  BY <1>2 DEF Watched, Tracked
<1>9. \A d \in Client : \A i \in DOMAIN cl'[d].wire : \E j \in DOMAIN cl[d].wire : cl[d].wire[j] = cl'[d].wire[i]
  <2>1. \A d \in Client : d # c => cl'[d].wire = cl[d].wire
    BY <1>2
  <2>2. QED
    BY ONLY <1>3, <2>1 DEF Shrinks
<1>10. QED
  BY <1>1, <1>2, <1>6, <1>7, <1>8, <1>9, FallsWatched

(* A cache of its own sees no handoff. *)
LEMMA NoOwnHandoff ==
    ASSUME EntryInv, OwnStays, NEW c, Handoff(c)
    PROVE  conf.provider # "own"
<1>1. "handoff" \in DOMAIN left
  BY DEF Handoff, Spend
<1>2. QED
  BY <1>1 DEF EntryInv, Types, Settings, OwnStays

(* Drop, Destroy and Handoff: the provider drops everything, or, with no   *)
(* redirection, what is of the connection.                                 *)
LEMMA CutWatched ==
    ASSUME NoRedirectStays, OwnStays, EntryInv, Watched, NEW c \in Client, Drop(c) \/ Destroy(c) \/ Handoff(c)
    PROVE  Watched'
<1>1. Falls(Cache, Cache', c) /\ (conf.provider # "noredirect" => Bare(Cache, Cache'))
  BY DropFalls, DestroyFalls, HandoffFalls, NoOwnHandoff
<1>2. Cut(c) /\ Types' /\ (conf.provider = "noredirect" => ~cl'[c].up)
  BY CutStep, NoHandoff
<1>3. ConnStep
  <2>1. \A d \in Client : cl[d].epoch \in Nat
    BY DEF EntryInv, Types, Conn
  <2>2. conf.provider = "noredirect" => cl'[c].epoch = cl[c].epoch
    BY CutStep, NoHandoff
  <2>3. QED
    BY <1>2, <2>1, <2>2 DEF ConnStep, Cut
<1>4. /\ Follows(Cache, Cache') /\ DOMAIN load' = DOMAIN load /\ Entries(Cache') \subseteq Entries(Cache)
      /\ \A n \in DOMAIN load : /\ load'[n].fresh = load[n].fresh
                                /\ load'[n].by = load[n].by
                                /\ load[n].cleared => load'[n].cleared
  BY <1>1, NextCache DEF Falls, Follows
<1>5. srv \in [Client -> SUBSET Key] /\ srv'[c] = {} /\ \A d \in Client \ {c} : srv'[d] = srv[d] /\ cl'[d] = cl[d]
  BY <1>2 DEF EntryInv, Types, Cut
<1>6. Tracked'
  BY <1>5 DEF Watched, Tracked
<1>7. \A d \in Client : \A i \in DOMAIN cl'[d].wire : \E j \in DOMAIN cl[d].wire : cl[d].wire[j] = cl'[d].wire[i]
  <2>1. DOMAIN cl'[c].wire = {}
    BY <1>2 DEF Cut
  <2>2. QED
    BY <1>5, <2>1
<1>8. CASE conf.provider # "noredirect"
  <2>1. Entries(Cache') = {} /\ \A n \in DOMAIN load : load[n].st \in InFlight => load'[n].bad \/ load'[n].cleared
    BY <1>1, <1>8, NextCache DEF Bare
  <2>2. \A n \in DOMAIN load : load[n].st \in InFlight => Guarded(n)'
    BY <2>1 DEF Guarded, Lost
  <2>3. QED
    BY <1>1, <1>2, <1>3, <1>6, <1>7, <2>1, <2>2, FallsWatched
<1>9. CASE conf.provider = "noredirect"
  <2>1. conf' = conf /\ ~cl'[c].up
    BY <1>2, <1>9 DEF Cut
  <2>2. \A epoch : Gone(c, epoch)'
    BY <1>9, <2>1 DEF Gone
  <2>3. \A n \in DOMAIN load : load[n].by # c /\ Track(n) => Track(n)'
    <3>1. SUFFICES ASSUME NEW n \in DOMAIN load, load[n].by # c, Track(n) PROVE Track(n)'
      OBVIOUS
    <3>2. PICK d \in Client : d = load[n].by
      BY ByClient
    <3>3. /\ srv[d] \subseteq srv'[d] /\ load'[n].fresh = load[n].fresh
          /\ \A i \in DOMAIN cl[d].wire : \E j \in DOMAIN cl'[d].wire : cl'[d].wire[j] = cl[d].wire[i]
      BY <1>4, <1>5, <3>1, <3>2
    <3>4. QED
      BY <1>4, <3>1, <3>2, <3>3, TrackStays
  <2>4. \A n \in DOMAIN load : load[n].st \in InFlight /\ Track(n) => Guarded(n)'
    <3>1. SUFFICES ASSUME NEW n \in DOMAIN load, load[n].by = c PROVE Guarded(n)'
      BY <2>3 DEF Guarded
    <3>2. load'[n].by = c
      BY <1>4, <3>1
    <3>3. QED
      BY <2>1, <1>9, <3>2 DEF Guarded, Lost, Gone
  <2>5. \A e \in Entries(Cache') : e.value /\ Track(e.load) /\ ~load'[e.load].cleared =>
               Track(e.load)' \/ Gone(e.by, e.epoch)'
    <3>1. SUFFICES ASSUME NEW e \in Entries(Cache'), e.value, Track(e.load), ~load'[e.load].cleared
          PROVE  Track(e.load)' \/ Gone(e.by, e.epoch)'
      OBVIOUS
    <3>2. e \in Entries(Cache)
      BY <1>4
    <3>3. PICK n \in DOMAIN load : n = e.load
      BY <3>2, NextCache DEF EntryInv, Shape, Linked, Link
    <3>4. e.by = load[n].by
      BY <1>4, <1>9, <3>1, <3>2, <3>3 DEF Watched, Stored, Theirs
    <3>5. CASE load[n].by = c
      BY <2>2, <3>4, <3>5
    <3>6. CASE load[n].by # c
      <4>1. Track(n)'
        BY <2>3, <3>1, <3>3, <3>6
      <4>2. QED
        BY <3>3, <4>1
    <3>7. QED
      BY <3>5, <3>6
  <2>6. QED
    BY <1>1, <1>2, <1>3, <1>6, <1>7, <2>4, <2>5, FallsWatched
<1>10. QED
  BY <1>8, <1>9

-----------------------------------------------------------------------------
(* At first nothing is cached, read or tracked. *)
LEMMA WatchedInit == Init => Watched
<1> SUFFICES ASSUME Init PROVE Watched
  OBVIOUS
<1>1. map = <<>> /\ load = <<>> /\ \A c \in Client : srv[c] = {}
  BY DEF Init
<1>2. DOMAIN map = {} /\ DOMAIN load = {}
  BY <1>1
<1>3. Entries(Cache) = {}
  BY <1>2, NextCache DEF Entries
<1>4. QED
  BY <1>1, <1>2, <1>3 DEF Watched, Unread, Replied, Stored, Tracked, Coming

(* Every step leaves what is served watched. *)
LEMMA WatchedStep ==
    ASSUME NoRedirectStays, OwnStays, EntryInv, Watched, [Next]_vars
    PROVE  Watched'
<1>1. ASSUME NEW c \in Client, NEW cmd \in Command, Read(c, cmd) PROVE Watched'
  BY <1>1, ReadWatched
<1>2. ASSUME NEW c \in Client, Receive(c) PROVE Watched'
  <2>1. Takes(c)
    BY <1>2, ReceiveTakes
  <2>2. QED
    BY <2>1, ReplyWatched, PushWatched
<1>3. ASSUME NEW c \in Client, Drop(c) \/ Destroy(c) \/ Handoff(c) PROVE Watched'
  BY <1>3, CutWatched
<1>4. ASSUME NEW c \in Client, Reconnect(c) PROVE Watched'
  BY <1>4, ReconnectWatched
<1>5. ASSUME NEW n \in DOMAIN load, Resume(n) \/ ResumeFailed(n) \/ ResumeJoined(n) PROVE Watched'
  BY <1>5, ResumeWatched
<1>6. ASSUME NEW n \in DOMAIN load, Execute(n) PROVE Watched'
  BY <1>6, ExecuteStep, ExecuteWatched
<1>7. ASSUME NEW n \in DOMAIN load, Abort(n) PROVE Watched'
  BY <1>7, AbortWatched
<1>8. ASSUME NEW i \in DOMAIN map, Expire(i) PROVE Watched'
  BY <1>8, ExpireWatched
<1>9. ASSUME NEW k \in Key, Write(k) PROVE Watched'
  BY <1>9, WriteWatched
<1>10. CASE FlushAll
  BY <1>10, FlushWatched
<1>11. CASE UNCHANGED vars
  <2>1. conf' = conf /\ cl' = cl /\ srv' = srv /\ left' = left /\ load' = load /\ Cache' = Cache
    BY <1>11 DEF vars, Cache
  <2>2. Follows(Cache, Cache') /\ \A n \in DOMAIN load' : load'[n].st = "queued" => load'[n].fresh
    BY <2>1 DEF Follows, Watched, Unread
  <2>3. QED
    BY <2>1, <2>2, WatchedStill
<1>12. QED
  BY <1>1, <1>2, <1>3, <1>4, <1>5, <1>6, <1>7, <1>8, <1>9, <1>10, <1>11 DEF Next

(* What get() would serve is the server's value, or the invalidation that  *)
(* removes it is already on the connection: whatever the order of replies, *)
(* invalidations, writes, evictions and lost connections (handleCache, and *)
(* invalidate, onError and onClose of the providers).                      *)
THEOREM CacheIsCoherent == ASSUME NoRedirectStays, OwnStays PROVE Spec => []Coherent
<1>1. Init => EntryInv /\ Watched
  BY EntryInit, WatchedInit
<1>2. (EntryInv /\ Watched) /\ [Next]_vars => (EntryInv /\ Watched)'
  BY EntryStep, WatchedStep
<1>3. QED
  BY <1>1, <1>2, WatchedCoherent, PTL DEF Spec
==============================================================================
