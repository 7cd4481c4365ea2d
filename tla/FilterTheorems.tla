---------------------------- MODULE FilterTheorems ----------------------------
(***************************************************************************)
(* What Filter leaves of a sequence.  Filter is recursive, so the theorems *)
(* need induction: it is obtained, for sets, from the least element that a *)
(* set of numbers has.                                                     *)
(***************************************************************************)
EXTENDS Filters, Integers, WellFoundedInduction, TLAPS

(* Every set of numbers that is not empty has a least one. *)
LEMMA LeastNat ==
    ASSUME NEW T, T \subseteq Nat, T # {}
    PROVE  \E x \in T : \A y \in T : x <= y
<1>1. IsWellFoundedOn({ss \in Nat \X Nat : ss[1] < ss[2]}, Nat)
  BY NatLessThanWellFounded DEF OpToRel
<1>2. PICK x \in T : \A y \in T : ~ (<<y, x>> \in {ss \in Nat \X Nat : ss[1] < ss[2]})
  BY <1>1, WFMin
<1>3. ASSUME NEW y \in T PROVE x <= y
  <2>1. <<y, x>> \in Nat \X Nat
    OBVIOUS
  <2>2. ~(y < x)
    BY <1>2, <2>1
  <2>3. QED
    BY <2>2
<1>4. QED
  BY <1>3

(* Induction: a set closed under successor has every number. *)
LEMMA NatSetInduction ==
    ASSUME NEW S, 0 \in S, \A n \in Nat : n \in S => n + 1 \in S
    PROVE  Nat \subseteq S
<1>1. SUFFICES ASSUME Nat \ S # {} PROVE FALSE
  OBVIOUS
<1>2. PICK x \in Nat \ S : \A y \in Nat \ S : x <= y
  <2> DEFINE T == Nat \ S
  <2>1. T \subseteq Nat /\ T # {} BY <1>1
  <2> HIDE DEF T
  <2>2. \E x \in T : \A y \in T : x <= y  BY <2>1, LeastNat
  <2>3. QED BY <2>2 DEF T
<1>3. x # 0 BY <1>2
<1>4. x - 1 \in Nat /\ x - 1 \notin Nat \ S BY <1>2, <1>3
<1>5. QED BY <1>2, <1>4

(* The function Filter is defined by, with the recursion made explicit. *)
Grown(r, x, keep) == IF x \in keep THEN Append(r, x) ELSE r

Kept(s, keep, g, n) ==
    g = [i \in 0..n |-> IF i = 0 THEN <<>> ELSE Grown(g[i - 1], s[i], keep)]

(* The recursion has a solution for every length. *)
LEMMA KeptExists ==
    ASSUME NEW s, NEW keep, NEW m \in Nat
    PROVE  \E g : Kept(s, keep, g, m)
<1> DEFINE S == {n \in Nat : \E g : Kept(s, keep, g, n)}
<1>1. 0 \in S
  <2>1. Kept(s, keep, [i \in 0..0 |-> <<>>], 0)
    BY DEF Kept
  <2>2. QED
    BY <2>1
<1>2. ASSUME NEW n \in Nat, n \in S PROVE n + 1 \in S
  <2>1. PICK g : Kept(s, keep, g, n)
    BY <1>2
  <2> DEFINE h == [i \in 0..(n + 1) |-> IF i <= n THEN g[i]
                     ELSE Grown(g[n], s[i], keep)]
  <2>2. Kept(s, keep, h, n + 1)
    <3>1. ASSUME NEW i \in 0..(n + 1)
          PROVE  h[i] = IF i = 0 THEN <<>>
                        ELSE Grown(h[i - 1], s[i], keep)
      <4>1. CASE i = 0
        BY <4>1, <2>1 DEF Kept
      <4>2. CASE i # 0 /\ i <= n
        <5>1. h[i - 1] = g[i - 1] /\ h[i] = g[i]
          BY <4>2
        <5>2. g[i] = Grown(g[i - 1], s[i], keep)
          BY <4>2, <2>1 DEF Kept
        <5> HIDE DEF h
        <5>3. QED
          BY <5>1, <5>2, <4>2
      <4>3. CASE i = n + 1
        <5>1. h[i - 1] = g[n] /\ i # 0
          BY <4>3
        <5>2. QED
          BY <5>1, <4>3
      <4>4. QED
        BY <4>1, <4>2, <4>3
    <3>2. QED
      BY <3>1 DEF Kept
  <2>3. QED
    BY <2>2
<1> HIDE DEF S
<1>3. Nat \subseteq S
  BY <1>1, <1>2, NatSetInduction
<1>4. QED
  BY <1>3 DEF S

(* Filter is the last value of one. *)
LEMMA FilterKept ==
    ASSUME NEW s, NEW keep, Len(s) \in Nat
    PROVE  \E g : Kept(s, keep, g, Len(s)) /\ Filter(s, keep) = g[Len(s)]
<1>1. \E g : Kept(s, keep, g, Len(s))
  BY KeptExists
<1> DEFINE h == CHOOSE g : Kept(s, keep, g, Len(s))
<1>2. Kept(s, keep, h, Len(s))
  BY <1>1
<1>3. Filter(s, keep) = h[Len(s)]
  BY DEF Filter, Kept, Grown
<1>4. QED
  BY <1>2, <1>3


(* What a solution is for each element. *)
LEMMA KeptUnfold ==
    ASSUME NEW s, NEW keep, NEW g, NEW n \in Nat, Kept(s, keep, g, n)
    PROVE  /\ g[0] = <<>>
           /\ \A i \in 1..n : g[i] = Grown(g[i - 1], s[i], keep)
BY DEF Kept

(* Filtering depends only on the elements, one by one. *)
LEMMA KeptAgree ==
    ASSUME NEW s, NEW t, NEW K, NEW L, NEW g, NEW h, NEW m \in Nat, NEW n \in Nat, m <= n,
           Kept(s, K, g, m), Kept(t, L, h, n),
           \A i \in 1..m : s[i] = t[i] /\ (s[i] \in K <=> t[i] \in L)
    PROVE  g[m] = h[m]
<1> DEFINE S == {k \in Nat : k <= m => g[k] = h[k]}
<1>1. 0 \in S
  BY KeptUnfold
<1>2. ASSUME NEW k \in Nat, k \in S PROVE k + 1 \in S
  <2>1. SUFFICES ASSUME k + 1 <= m PROVE g[k + 1] = h[k + 1]
    OBVIOUS
  <2>2. g[k] = h[k] /\ k + 1 \in 1..m /\ k + 1 \in 1..n /\ (k + 1) - 1 = k
    BY <1>2, <2>1
  <2>3. g[k + 1] = Grown(g[(k + 1) - 1], s[k + 1], K)
    BY <2>2, KeptUnfold
  <2>4. h[k + 1] = Grown(h[(k + 1) - 1], t[k + 1], L)
    BY <2>2, KeptUnfold
  <2>5. QED
    BY <2>2, <2>3, <2>4 DEF Grown
<1> HIDE DEF S
<1>3. Nat \subseteq S
  BY <1>1, <1>2, NatSetInduction
<1>4. QED
  BY <1>3 DEF S

(* Nothing is left of nothing. *)
LEMMA FilterEmpty ==
    ASSUME NEW keep
    PROVE  Filter(<<>>, keep) = <<>>
<1>1. PICK g : Kept(<<>>, keep, g, 0) /\ Filter(<<>>, keep) = g[0]
  BY FilterKept, SMTT(60)
<1>2. QED
  BY <1>1, KeptUnfold

(* An element at the end is kept or not. *)
LEMMA FilterAppend ==
    ASSUME NEW S, NEW s \in Seq(S), NEW x \in S, NEW keep
    PROVE  Filter(Append(s, x), keep) =
               IF x \in keep THEN Append(Filter(s, keep), x) ELSE Filter(s, keep)
<1> DEFINE t == Append(s, x)
           n == Len(s)
<1>1. n \in Nat /\ t \in Seq(S) /\ Len(t) = n + 1 /\ t[n + 1] = x /\ \A i \in 1..n : t[i] = s[i]
  OBVIOUS
<1> HIDE DEF t, n
<1>2. PICK g : Kept(s, keep, g, n) /\ Filter(s, keep) = g[n]
  BY <1>1, FilterKept DEF n
<1>3. PICK h : Kept(t, keep, h, n + 1) /\ Filter(t, keep) = h[n + 1]
  BY <1>1, FilterKept
<1>4. g[n] = h[n]
  BY <1>1, <1>2, <1>3, KeptAgree
<1>5. h[n + 1] = Grown(h[(n + 1) - 1], t[n + 1], keep)
  BY <1>1, <1>3, KeptUnfold
<1>6. QED
  BY <1>1, <1>2, <1>3, <1>4, <1>5 DEF t, Grown

(* Induction on sequences, for a set of sequences. *)
LEMMA SeqSetInduction ==
    ASSUME NEW S, NEW P, <<>> \in P,
           \A s \in Seq(S), x \in S : s \in P => Append(s, x) \in P
    PROVE  Seq(S) \subseteq P
<1> DEFINE N == {n \in Nat : \A s \in Seq(S) : Len(s) = n => s \in P}
<1>1. 0 \in N
  OBVIOUS
<1>2. ASSUME NEW n \in Nat, n \in N PROVE n + 1 \in N
  <2>1. SUFFICES ASSUME NEW s \in Seq(S), Len(s) = n + 1 PROVE s \in P
    OBVIOUS
  <2> DEFINE t == SubSeq(s, 1, n)
  <2>2. t \in Seq(S) /\ Len(t) = n /\ s[n + 1] \in S /\ s = Append(t, s[n + 1])
    BY <2>1
  <2>3. QED
    BY <1>2, <2>2
<1> HIDE DEF N
<1>3. Nat \subseteq N
  BY <1>1, <1>2, NatSetInduction
<1>4. QED
  BY <1>3 DEF N

(* What is left is a sequence of the elements to keep. *)
LEMMA FilterType ==
    ASSUME NEW S, NEW s \in Seq(S), NEW keep
    PROVE  /\ Filter(s, keep) \in Seq(S)
           /\ {Filter(s, keep)[i] : i \in DOMAIN Filter(s, keep)} = {s[i] : i \in DOMAIN s} \cap keep
<1> DEFINE Els(q) == {q[i] : i \in DOMAIN q}
           P == {q \in Seq(S) : Filter(q, keep) \in Seq(S) /\ Els(Filter(q, keep)) = Els(q) \cap keep}
<1>1. <<>> \in P
  <2>1. Filter(<<>>, keep) = <<>> /\ <<>> \in Seq(S) /\ DOMAIN <<>> = {}
    BY FilterEmpty
  <2>2. Els(<<>>) = {}
    BY <2>1
  <2>3. QED
    BY <2>1, <2>2
<1>2. ASSUME NEW q \in Seq(S), NEW x \in S, q \in P PROVE Append(q, x) \in P
  <2> DEFINE f == Filter(q, keep)
  <2>1. f \in Seq(S) /\ Els(f) = Els(q) \cap keep
    BY <1>2
  <2>2. Filter(Append(q, x), keep) = IF x \in keep THEN Append(f, x) ELSE f
    BY FilterAppend
  <2>3. \A r \in Seq(S) : Els(Append(r, x)) = Els(r) \cup {x}
    <3>1. TAKE r \in Seq(S)
    <3>2. DOMAIN Append(r, x) = 1..(Len(r) + 1) /\ DOMAIN r = 1..Len(r) /\ Len(r) \in Nat
      OBVIOUS
    <3>3. Append(r, x)[Len(r) + 1] = x /\ \A i \in 1..Len(r) : Append(r, x)[i] = r[i]
      OBVIOUS
    <3>4. QED
      BY <3>2, <3>3
  <2>4. Els(Append(q, x)) = Els(q) \cup {x} /\ Els(Append(f, x)) = Els(f) \cup {x}
    BY <2>1, <2>3
  <2>5. Append(q, x) \in Seq(S) /\ Append(f, x) \in Seq(S)
    BY <2>1
  <2> HIDE DEF f, Els
  <2>6. CASE x \in keep
    BY <2>1, <2>2, <2>4, <2>5, <2>6
  <2>7. CASE x \notin keep
    BY <2>1, <2>2, <2>4, <2>5, <2>7
  <2>8. QED
    BY <2>6, <2>7
<1> HIDE DEF P
<1>3. Seq(S) \subseteq P
  BY <1>1, <1>2, SeqSetInduction
<1>4. QED
  BY <1>3 DEF P

(* The parts of a sequence are filtered separately. *)
LEMMA FilterConcat ==
    ASSUME NEW S, NEW s \in Seq(S), NEW t \in Seq(S), NEW keep
    PROVE  Filter(s \o t, keep) = Filter(s, keep) \o Filter(t, keep)
<1> DEFINE P == {q \in Seq(S) : Filter(s \o q, keep) = Filter(s, keep) \o Filter(q, keep)}
<1>1. <<>> \in P
  BY FilterEmpty, FilterType
<1>2. ASSUME NEW q \in Seq(S), NEW x \in S, q \in P PROVE Append(q, x) \in P
  <2>1. s \o Append(q, x) = Append(s \o q, x) /\ s \o q \in Seq(S)
    OBVIOUS
  <2>2. Filter(Append(s \o q, x), keep) = IF x \in keep THEN Append(Filter(s \o q, keep), x) ELSE Filter(s \o q, keep)
    BY <2>1, FilterAppend
  <2>3. Filter(Append(q, x), keep) = IF x \in keep THEN Append(Filter(q, keep), x) ELSE Filter(q, keep)
    BY FilterAppend
  <2>4. Filter(s, keep) \in Seq(S) /\ Filter(q, keep) \in Seq(S)
    BY FilterType
  <2>5. Filter(s, keep) \o Append(Filter(q, keep), x) = Append(Filter(s, keep) \o Filter(q, keep), x)
    BY <2>4
  <2>6. Filter(s \o q, keep) = Filter(s, keep) \o Filter(q, keep)
    BY <1>2
  <2>7. Filter(s \o Append(q, x), keep) = Filter(s, keep) \o Filter(Append(q, x), keep)
    BY <2>1, <2>2, <2>3, <2>5, <2>6, Zenon
  <2>8. QED
    BY <2>7
<1> HIDE DEF P
<1>3. Seq(S) \subseteq P
  BY <1>1, <1>2, SeqSetInduction
<1>4. QED
  BY <1>3 DEF P

(* Tests that agree on the elements leave the same. *)
LEMMA FilterSame ==
    ASSUME NEW S, NEW s \in Seq(S), NEW K, NEW L, \A i \in 1..Len(s) : s[i] \in K <=> s[i] \in L
    PROVE  Filter(s, K) = Filter(s, L)
<1>1. PICK g : Kept(s, K, g, Len(s)) /\ Filter(s, K) = g[Len(s)]
  BY FilterKept
<1>2. PICK h : Kept(s, L, h, Len(s)) /\ Filter(s, L) = h[Len(s)]
  BY FilterKept
<1>3. QED
  BY <1>1, <1>2, KeptAgree

==============================================================================
