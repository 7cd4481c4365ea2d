------------------------ MODULE CommandsQueueProofs ------------------------
(***************************************************************************)
(* Proofs about CommandsQueue, for every set of commands and requests and  *)
(* every value of commandsQueueMaxLength: what becomes of a command, that  *)
(* chains and transactions stay whole, and that the queue implements       *)
(* Delivery.                                                               *)
(***************************************************************************)
EXTENDS CommandsQueue, FilterTheorems, TLAPS

-----------------------------------------------------------------------------
(* Sequences: what the slices and concatenations of the queue contain.     *)

Distinct(s) == \A i, j \in DOMAIN s : s[i] = s[j] => i = j

(* The empty queue holds nothing. *)
LEMMA EmptySequence ==
    /\ Elements(<<>>) = {}
    /\ Distinct(<<>>)
BY DEF Elements, Distinct

(* A queue of one command holds that command, once. *)
LEMMA Singleton ==
    ASSUME NEW S, NEW x \in S
    PROVE  <<x>> \in Seq(S) /\ Elements(<<x>>) = {x} /\ Distinct(<<x>>)
<1>1. DOMAIN <<x>> = {1} /\ <<x>>[1] = x
  OBVIOUS
<1> QED BY <1>1 DEF Elements, Distinct

(* A concatenation holds what its parts hold. *)
LEMMA ElementsConcat ==
    ASSUME NEW S, NEW s \in Seq(S), NEW t \in Seq(S)
    PROVE  /\ s \o t \in Seq(S)
           /\ Elements(s \o t) = Elements(s) \cup Elements(t)
<1>1. /\ s \o t \in Seq(S)
      /\ Len(s \o t) = Len(s) + Len(t)
      /\ \A i \in 1..Len(s) : (s \o t)[i] = s[i]
      /\ \A i \in 1..Len(t) : (s \o t)[Len(s) + i] = t[i]
      /\ \A i \in 1..Len(s \o t) : i <= Len(s) \/ i - Len(s) \in 1..Len(t)
  OBVIOUS
<1>2. ASSUME NEW x \in Elements(s \o t) PROVE x \in Elements(s) \cup Elements(t)
  <2>1. PICK i \in 1..Len(s \o t) : x = (s \o t)[i]
    BY <1>1 DEF Elements
  <2>2. CASE i <= Len(s)
    BY <1>1, <2>1, <2>2 DEF Elements
  <2>3. CASE i - Len(s) \in 1..Len(t)
    <3>1. x = t[i - Len(s)]
      BY <1>1, <2>1, <2>3
    <3> QED BY <2>3, <3>1 DEF Elements
  <2> QED BY <1>1, <2>1, <2>2, <2>3
<1>3. Elements(s) \subseteq Elements(s \o t)
  BY <1>1 DEF Elements
<1>4. Elements(t) \subseteq Elements(s \o t)
  <2>0. DOMAIN t = 1..Len(t)
    OBVIOUS
  <2> SUFFICES ASSUME NEW i \in 1..Len(t) PROVE t[i] \in Elements(s \o t)
    BY <2>0 DEF Elements
  <2>1. Len(s) + i \in 1..Len(s \o t) /\ t[i] = (s \o t)[Len(s) + i]
    BY <1>1
  <2>2. DOMAIN (s \o t) = 1..Len(s \o t)
    BY <1>1
  <2> QED BY <2>1, <2>2 DEF Elements
<1> QED BY <1>1, <1>2, <1>3, <1>4

(* The concatenation of two queues without repetitions that have nothing   *)
(* in common has no repetition.                                            *)
LEMMA DistinctConcat ==
    ASSUME NEW S, NEW s \in Seq(S), NEW t \in Seq(S),
           Distinct(s), Distinct(t), Elements(s) \cap Elements(t) = {}
    PROVE  Distinct(s \o t)
<1>1. /\ s \o t \in Seq(S)
      /\ Len(s \o t) = Len(s) + Len(t)
      /\ \A i \in 1..Len(s) : (s \o t)[i] = s[i]
      /\ \A i \in 1..Len(t) : (s \o t)[Len(s) + i] = t[i]
  OBVIOUS
<1> SUFFICES ASSUME NEW i \in 1..Len(s \o t), NEW j \in 1..Len(s \o t), i <= j,
                    (s \o t)[i] = (s \o t)[j]
             PROVE  i = j
  BY <1>1 DEF Distinct
<1>2. CASE j <= Len(s)
  BY <1>1, <1>2 DEF Distinct
<1>3. CASE i > Len(s)
  <2>1. i - Len(s) \in 1..Len(t) /\ j - Len(s) \in 1..Len(t)
    BY <1>1, <1>3
  <2>2. (s \o t)[i] = t[i - Len(s)] /\ (s \o t)[j] = t[j - Len(s)]
    BY <2>1, <1>1
  <2>3. DOMAIN t = 1..Len(t)
    OBVIOUS
  <2>4. i - Len(s) = j - Len(s)
    BY <2>1, <2>2, <2>3 DEF Distinct
  <2> QED BY <2>1, <2>4
<1>4. CASE i <= Len(s) /\ j > Len(s)
  <2>1. j - Len(s) \in 1..Len(t) /\ i \in 1..Len(s)
    BY <1>1, <1>4
  <2>2. (s \o t)[i] = s[i] /\ (s \o t)[j] = t[j - Len(s)]
    BY <2>1, <1>1
  <2>3. s[i] \in Elements(s) /\ t[j - Len(s)] \in Elements(t)
    BY <2>1 DEF Elements
  <2> QED BY <2>2, <2>3
<1> QED BY <1>1, <1>2, <1>3, <1>4

(* A slice of a queue holds what the queue holds at the positions of the   *)
(* slice, and inherits that nothing is repeated.                           *)
LEMMA SliceProperties ==
    ASSUME NEW S, NEW s \in Seq(S), NEW m \in 1..(Len(s) + 1), NEW n \in 0..Len(s)
    PROVE  /\ SubSeq(s, m, n) \in Seq(S)
           /\ Elements(SubSeq(s, m, n)) = {s[i] : i \in m..n}
           /\ Elements(SubSeq(s, m, n)) \subseteq Elements(s)
           /\ Distinct(s) => Distinct(SubSeq(s, m, n))
<1>1. /\ SubSeq(s, m, n) \in Seq(S)
      /\ Len(SubSeq(s, m, n)) = IF m <= n THEN n - m + 1 ELSE 0
      /\ \A i \in 1..Len(SubSeq(s, m, n)) :
           SubSeq(s, m, n)[i] = s[m + i - 1] /\ m + i - 1 \in m..n
  OBVIOUS
<1>2. \A i \in m..n : /\ i - m + 1 \in 1..Len(SubSeq(s, m, n))
                      /\ SubSeq(s, m, n)[i - m + 1] = s[i]
                      /\ i \in 1..Len(s)
  BY <1>1
<1>3. Elements(SubSeq(s, m, n)) = {s[i] : i \in m..n}
  <2>1. DOMAIN SubSeq(s, m, n) = 1..Len(SubSeq(s, m, n))
    BY <1>1
  <2>2. Elements(SubSeq(s, m, n)) \subseteq {s[i] : i \in m..n}
    BY <1>1, <2>1 DEF Elements
  <2>3. {s[i] : i \in m..n} \subseteq Elements(SubSeq(s, m, n))
    <3> SUFFICES ASSUME NEW i \in m..n
                 PROVE  \E k \in 1..Len(SubSeq(s, m, n)) : s[i] = SubSeq(s, m, n)[k]
      BY <2>1 DEF Elements
    <3> WITNESS i - m + 1 \in 1..Len(SubSeq(s, m, n))
    <3> QED BY <1>2
  <2> QED BY <2>2, <2>3
<1>4. Elements(SubSeq(s, m, n)) \subseteq Elements(s)
  BY <1>2, <1>3 DEF Elements
<1>5. Distinct(s) => Distinct(SubSeq(s, m, n))
  BY <1>1, <1>2 DEF Distinct
<1> QED BY <1>1, <1>3, <1>4, <1>5

(* shift() takes the head from a queue and nothing else. *)
LEMMA TailProperties ==
    ASSUME NEW S, NEW s \in Seq(S), s # <<>>
    PROVE  /\ Head(s) \in S
           /\ Tail(s) \in Seq(S)
           /\ Elements(s) = {Head(s)} \cup Elements(Tail(s))
           /\ Distinct(s) => Distinct(Tail(s)) /\ Head(s) \notin Elements(Tail(s))
<1>1. /\ Len(s) \in Nat \ {0}
      /\ Head(s) = s[1]
      /\ Head(s) \in S
      /\ Tail(s) \in Seq(S)
      /\ Len(Tail(s)) = Len(s) - 1
      /\ \A i \in 1..Len(Tail(s)) : Tail(s)[i] = s[i + 1] /\ i + 1 \in 1..Len(s)
      /\ DOMAIN Tail(s) = 1..Len(Tail(s))
      /\ DOMAIN s = 1..Len(s)
  OBVIOUS
<1>2. ASSUME NEW x \in Elements(s) PROVE x \in {Head(s)} \cup Elements(Tail(s))
  <2>1. PICK i \in 1..Len(s) : x = s[i]
    BY <1>1 DEF Elements
  <2>2. CASE i = 1
    BY <1>1, <2>1, <2>2
  <2>3. CASE i # 1
    <3>1. i - 1 \in 1..Len(Tail(s)) /\ x = Tail(s)[i - 1]
      BY <1>1, <2>1, <2>3
    <3> QED BY <1>1, <3>1 DEF Elements
  <2> QED BY <2>2, <2>3
<1>3. {Head(s)} \cup Elements(Tail(s)) \subseteq Elements(s)
  BY <1>1 DEF Elements
<1>4. Distinct(s) => Distinct(Tail(s))
  BY <1>1 DEF Distinct
<1>5. Distinct(s) => Head(s) \notin Elements(Tail(s))
  <2> SUFFICES ASSUME Distinct(s), NEW i \in 1..Len(Tail(s)), Tail(s)[i] = s[1]
               PROVE  FALSE
    BY <1>1 DEF Elements
  <2> QED BY <1>1 DEF Distinct
<1> QED BY <1>1, <1>2, <1>3, <1>4, <1>5

(* Cutting a queue in two loses nothing and repeats nothing. *)
LEMMA SplitProperties ==
    ASSUME NEW S, NEW s \in Seq(S), NEW k \in 0..Len(s)
    PROVE  /\ SubSeq(s, 1, k) \in Seq(S)
           /\ SubSeq(s, k + 1, Len(s)) \in Seq(S)
           /\ Elements(s) = Elements(SubSeq(s, 1, k))
                            \cup Elements(SubSeq(s, k + 1, Len(s)))
           /\ Distinct(s) =>
                /\ Distinct(SubSeq(s, 1, k))
                /\ Distinct(SubSeq(s, k + 1, Len(s)))
                /\ Elements(SubSeq(s, 1, k)) \cap Elements(SubSeq(s, k + 1, Len(s))) = {}
<1>1. /\ 1 \in 1..(Len(s) + 1) /\ k + 1 \in 1..(Len(s) + 1) /\ Len(s) \in 0..Len(s)
      /\ DOMAIN s = 1..Len(s)
  OBVIOUS
<1>2. /\ SubSeq(s, 1, k) \in Seq(S)
      /\ Elements(SubSeq(s, 1, k)) = {s[i] : i \in 1..k}
      /\ Distinct(s) => Distinct(SubSeq(s, 1, k))
  BY <1>1, SliceProperties
<1>3. /\ SubSeq(s, k + 1, Len(s)) \in Seq(S)
      /\ Elements(SubSeq(s, k + 1, Len(s))) = {s[i] : i \in (k + 1)..Len(s)}
      /\ Distinct(s) => Distinct(SubSeq(s, k + 1, Len(s)))
  BY <1>1, SliceProperties
<1>4. {s[i] : i \in 1..Len(s)} = {s[i] : i \in 1..k} \cup {s[i] : i \in (k + 1)..Len(s)}
  <2>1. 1..Len(s) = (1..k) \cup ((k + 1)..Len(s))
    BY <1>1
  <2> QED BY <2>1
<1>5. Distinct(s) => {s[i] : i \in 1..k} \cap {s[i] : i \in (k + 1)..Len(s)} = {}
  <2> SUFFICES ASSUME Distinct(s), NEW i \in 1..k, NEW j \in (k + 1)..Len(s), s[i] = s[j]
               PROVE  FALSE
    OBVIOUS
  <2>1. i \in DOMAIN s /\ j \in DOMAIN s /\ i # j
    BY <1>1
  <2> QED BY <2>1 DEF Distinct
<1> QED BY <1>1, <1>2, <1>3, <1>4, <1>5 DEF Elements

-----------------------------------------------------------------------------
(* Type correctness.                                                       *)

(* What addCommand and addBatch admit of a request are commands. *)
LEMMA AdmittedTypes ==
    ASSUME QueueAssumption, RequestAssumption, TypeOK, NEW r \in Req
    PROVE  /\ AdmittedLead(r) \in Seq(Cmd)
           /\ Elements(AdmittedLead(r)) \subseteq {LeadOf[r]} \ {NoLead}
           /\ Distinct(AdmittedLead(r))
           /\ \A n \in Nat : AdmittedLen(r, n) \in 0..Len(BodyOf[r])
           /\ PendingCount + Len(AdmittedLead(r)) \in Nat
<1>1. /\ AdmittedLead(r) \in Seq(Cmd)
      /\ Len(AdmittedLead(r)) \in 0..1
      /\ \/ AdmittedLead(r) = <<>>
         \/ AdmittedLead(r) = <<LeadOf[r]>> /\ LeadOf[r] # NoLead
  BY DEF AdmittedLead, QueueAssumption
<1>2. Elements(AdmittedLead(r)) \subseteq {LeadOf[r]} \ {NoLead} /\ Distinct(AdmittedLead(r))
  <2>1. CASE AdmittedLead(r) = <<>>
    BY <2>1, EmptySequence
  <2>2. CASE AdmittedLead(r) = <<LeadOf[r]>> /\ LeadOf[r] # NoLead
    BY <2>2, Singleton DEF QueueAssumption
  <2> QED BY <1>1, <2>1, <2>2
<1>3. PendingCount + Len(AdmittedLead(r)) \in Nat
  BY <1>1 DEF PendingCount, TypeOK
<1>4. ASSUME NEW n \in Nat
      PROVE  AdmittedLen(r, n) \in 0..Len(BodyOf[r])
  BY DEF AdmittedLen, QueueAssumption, RequestAssumption
<1> QED BY <1>1, <1>2, <1>3, <1>4

(* What AddRequest appends to toWrite: the ASKING in front and the part of *)
(* the body that is admitted, each command once.                           *)
AdmittedBody(r) ==
    SubSeq(BodyOf[r], 1, AdmittedLen(r, PendingCount + Len(AdmittedLead(r))))

(* What addCommand and addBatch admit of a request are commands of that    *)
(* request, each once.                                                     *)
LEMMA AdmittedProperties ==
    ASSUME QueueAssumption, RequestAssumption, TypeOK, NEW r \in Req
    PROVE  LET lead == AdmittedLead(r)
               body == AdmittedBody(r)
           IN  /\ lead \in Seq(Cmd) /\ body \in Seq(Cmd)
               /\ Elements(lead) \cup Elements(body) \subseteq CmdsOf(r)
               /\ Distinct(lead) /\ Distinct(body)
               /\ Elements(lead) \cap Elements(body) = {}
<1> DEFINE lead == AdmittedLead(r)
           body == AdmittedBody(r)
<1>1. /\ lead \in Seq(Cmd)
      /\ Elements(lead) \subseteq {LeadOf[r]} \ {NoLead}
      /\ Distinct(lead)
      /\ AdmittedLen(r, PendingCount + Len(lead)) \in 0..Len(BodyOf[r])
  BY AdmittedTypes
<1>2. BodyOf[r] \in Seq(Cmd) /\ Distinct(BodyOf[r])
  BY DEF QueueAssumption, RequestAssumption, Distinct
<1>3. /\ body \in Seq(Cmd)
      /\ Elements(body) \subseteq BodyCmds(r)
      /\ Distinct(body)
  <2>1. 1 \in 1..(Len(BodyOf[r]) + 1)
    BY <1>2
  <2>2. Elements(BodyOf[r]) = BodyCmds(r)
    BY DEF Elements, BodyCmds
  <2> QED BY <1>1, <1>2, <2>1, <2>2, SliceProperties DEF AdmittedBody
<1>4. Elements(lead) \cap Elements(body) = {}
  BY <1>1, <1>3 DEF RequestAssumption
<1> QED BY <1>1, <1>3, <1>4 DEF CmdsOf

(* #arm attaches listeners the code knows. *)
LEMMA ArmedOfType ==
    ASSUME QueueAssumption, NEW c \in Cmd
    PROVE  ArmedOf(c) \in SUBSET Listener
BY DEF ArmedOf, QueueAssumption, Listener

(* Arming some commands and leaving the others alone keeps the listener    *)
(* sets well typed.                                                        *)
LEMMA ArmedUpdate ==
    ASSUME TypeOK, NEW c \in Cmd, NEW S \in SUBSET Listener
    PROVE  [armed EXCEPT ![c] = S] \in [Cmd -> SUBSET Listener]
<1>1. armed \in [Cmd -> SUBSET Listener]
  BY DEF TypeOK
<1> DEFINE T == SUBSET Listener
<1> HIDE DEF T
<1>2. S \in T /\ armed \in [Cmd -> T]
  BY <1>1 DEF T
<1>3. [armed EXCEPT ![c] = S] \in [Cmd -> T]
  BY <1>2
<1> QED BY <1>3 DEF T

(* A new queue is well typed. *)
LEMMA InitType == QueueAssumption /\ Init => TypeOK
<1> SUFFICES ASSUME QueueAssumption, Init PROVE TypeOK
  OBVIOUS
<1>1. 1 \in 1..MaxConn
  BY DEF QueueAssumption
<1>2. armed \in [Cmd -> SUBSET Listener] /\ outcome \in [Cmd -> Outcome]
  BY DEF Init, Outcome
<1>3. /\ waiting \in Seq(Slot) /\ wire \in Seq(Slot)
      /\ log \in Seq([cmd : Cmd, conn : 1..MaxConn])
      /\ toWrite \in Seq(Cmd)
  BY DEF Init
<1> QED BY <1>1, <1>2, <1>3 DEF Init, TypeOK

(* Every operation of the queue keeps it well typed. *)
LEMMA NextType ==
    ASSUME QueueAssumption, RequestAssumption, TypeOK, [Next]_vars
    PROVE  TypeOK'
<1>1. ASSUME NEW r \in Req, AddRequest(r) PROVE TypeOK'
  <2>1. AdmittedLead(r) \in Seq(Cmd) /\ AdmittedBody(r) \in Seq(Cmd)
    BY AdmittedProperties
  <2>2. toWrite' \in Seq(Cmd)
    BY <1>1, <2>1 DEF AddRequest, AdmittedBody, TypeOK
  <2>3. armed' \in [Cmd -> SUBSET Listener]
    <3> DEFINE lead == AdmittedLead(r)
               body == AdmittedBody(r)
               S == Elements(lead) \cup
                    (IF body = <<>> \/ KindOf[r] = "internal" THEN {} ELSE {body[1]})
    <3>1. armed' = [c \in Cmd |-> IF c \in S THEN ArmedOf(c) ELSE armed[c]]
      BY <1>1 DEF AddRequest, AdmittedBody
    <3> HIDE DEF S
    <3> QED BY <3>1, ArmedOfType DEF TypeOK
  <2>4. outcome' \in [Cmd -> Outcome]
    BY <1>1 DEF AddRequest, TypeOK, Outcome
  <2> QED BY <1>1, <2>2, <2>3, <2>4 DEF AddRequest, TypeOK, wireVars
<1>2. ASSUME NEW r \in Req, AddAsap(r) PROVE TypeOK'
  <2> DEFINE c == BodyOf[r][1]
  <2>1. c \in Cmd
    BY <1>2 DEF AddAsap, QueueAssumption
  <2>2. toWrite' \in Seq(Cmd)
    <3>1. CASE UNCHANGED toWrite
      BY <3>1 DEF TypeOK
    <3>2. CASE \E k \in 0..Len(toWrite) :
                 toWrite' = SubSeq(toWrite, 1, k) \o <<c>> \o
                            SubSeq(toWrite, k + 1, Len(toWrite))
      <4>1. PICK k \in 0..Len(toWrite) :
                 toWrite' = SubSeq(toWrite, 1, k) \o <<c>> \o
                            SubSeq(toWrite, k + 1, Len(toWrite))
        BY <3>2
      <4>2. /\ SubSeq(toWrite, 1, k) \in Seq(Cmd)
            /\ SubSeq(toWrite, k + 1, Len(toWrite)) \in Seq(Cmd)
        BY SplitProperties DEF TypeOK
      <4> QED BY <2>1, <4>1, <4>2
    <3> QED BY <1>2, <3>1, <3>2 DEF AddAsap
  <2>3. armed' \in [Cmd -> SUBSET Listener]
    <3>1. \/ armed' = armed
          \/ armed' = [armed EXCEPT ![c] = {}]
          \/ armed' = [armed EXCEPT ![c] = ArmedOf(c)]
      BY <1>2 DEF AddAsap
    <3>2. ArmedOf(c) \in SUBSET Listener
      BY <2>1, ArmedOfType
    <3>3. {} \in SUBSET Listener /\ armed \in [Cmd -> SUBSET Listener]
      BY DEF TypeOK
    <3>4. /\ [armed EXCEPT ![c] = {}] \in [Cmd -> SUBSET Listener]
          /\ [armed EXCEPT ![c] = ArmedOf(c)] \in [Cmd -> SUBSET Listener]
      BY <2>1, <3>2, <3>3, ArmedUpdate, Zenon
    <3> QED BY <3>1, <3>3, <3>4, Zenon
  <2>4. outcome' \in [Cmd -> Outcome]
    <3>1. Settle({c}, "pending") \/ Settle({c}, "refused")
      BY <1>2 DEF AddAsap
    <3> QED BY <3>1 DEF TypeOK, Outcome, Settle
  <2> QED BY <1>2, <2>2, <2>3, <2>4 DEF AddAsap, TypeOK, wireVars
<1>3. ASSUME NEW r \in Req, AddAborted(r) PROVE TypeOK'
  <2>1. AdmittedLead(r) \in Seq(Cmd)
    BY AdmittedTypes
  <2>2. toWrite' \in Seq(Cmd)
    BY <1>3, <2>1 DEF AddAborted, TypeOK
  <2> DEFINE L == Elements(AdmittedLead(r))
  <2>a. armed' = [c \in Cmd |-> IF c \in L THEN ArmedOf(c) ELSE armed[c]]
    BY <1>3 DEF AddAborted
  <2>b. outcome' = [c \in Cmd |-> IF c \in L THEN "pending"
                                  ELSE IF c \in CmdsOf(r) THEN "refused"
                                  ELSE outcome[c]]
    BY <1>3 DEF AddAborted
  <2> HIDE DEF L
  <2>3. armed' \in [Cmd -> SUBSET Listener]
    BY <2>a, ArmedOfType DEF TypeOK
  <2>4. outcome' \in [Cmd -> Outcome]
    BY <2>b DEF TypeOK, Outcome
  <2> QED BY <1>3, <2>2, <2>3, <2>4 DEF AddAborted, TypeOK, wireVars
<1>4. ASSUME NEW c \in Cmd, NEW l \in Listener, FireListener(c, l) PROVE TypeOK'
  <2>1. ASSUME NEW i \in DOMAIN toWrite, RejectCommand(i)
        PROVE  toWrite' \in Seq(Cmd) /\ outcome' \in [Cmd -> Outcome]
    <3>1. PICK j \in i..Len(toWrite) :
              /\ toWrite' = SubSeq(toWrite, 1, i - 1) \o SubSeq(toWrite, j + 1, Len(toWrite))
              /\ Settle(Elements(SubSeq(toWrite, i, j)), "cancelled")
      BY <2>1 DEF RejectCommand
    <3>2. DOMAIN toWrite = 1..Len(toWrite)
      BY DEF TypeOK
    <3>3. i - 1 \in 0..Len(toWrite) /\ j \in 0..Len(toWrite)
      BY <3>2 DEF TypeOK
    <3>4. /\ SubSeq(toWrite, 1, i - 1) \in Seq(Cmd)
          /\ SubSeq(toWrite, j + 1, Len(toWrite)) \in Seq(Cmd)
      BY <3>3, SplitProperties DEF TypeOK
    <3> DEFINE s == SubSeq(toWrite, 1, i - 1)
               u == SubSeq(toWrite, j + 1, Len(toWrite))
    <3>5. toWrite' \in Seq(Cmd)
      <4>1. toWrite' = s \o u /\ s \in Seq(Cmd) /\ u \in Seq(Cmd)
        BY ONLY <3>1, <3>4
      <4> HIDE DEF s, u
      <4> QED BY ONLY <4>1
    <3>6. outcome' \in [Cmd -> Outcome]
      <4>1. PICK S : Settle(S, "cancelled")
        BY <3>1
      <4>2. outcome \in [Cmd -> Outcome] /\ "cancelled" \in Outcome
        BY DEF TypeOK, Outcome
      <4> QED BY ONLY <4>1, <4>2 DEF Settle
    <3> QED BY <3>5, <3>6
  <2>2. toWrite' \in Seq(Cmd) /\ outcome' \in [Cmd -> Outcome]
    BY <1>4, <2>1 DEF FireListener, TypeOK
  <2>3. armed' \in [Cmd -> SUBSET Listener]
    <3>1. armed' = [armed EXCEPT ![c] = armed[c] \ {l}] \/ armed' = [armed EXCEPT ![c] = {}]
      BY <1>4 DEF FireListener
    <3>2. {} \in SUBSET Listener /\ armed[c] \ {l} \in SUBSET Listener
      BY DEF TypeOK
    <3>3. /\ [armed EXCEPT ![c] = {}] \in [Cmd -> SUBSET Listener]
          /\ [armed EXCEPT ![c] = armed[c] \ {l}] \in [Cmd -> SUBSET Listener]
      BY <3>2, ArmedUpdate, Zenon
    <3> QED BY <3>1, <3>3, Zenon
  <2> QED BY <1>4, <2>2, <2>3 DEF FireListener, TypeOK, wireVars
<1>5. CASE StartMaintenance
  BY <1>5 DEF TypeOK, StartMaintenance, Listener, wireVars
<1>6. CASE EndMaintenance
  BY <1>6 DEF TypeOK, EndMaintenance, wireVars
<1>7. CASE Write
  <2> DEFINE c == Head(toWrite)
  <2>1. c \in Cmd /\ Tail(toWrite) \in Seq(Cmd)
    BY <1>7 DEF Write, TypeOK
  <2>2. SlotsOf(c) \in Seq(Slot)
    <3>1. <<c, "prelude">> \in Slot /\ <<c, "main">> \in Slot
      BY <2>1 DEF Slot
    <3> HIDE DEF c
    <3> QED BY <3>1 DEF SlotsOf
  <2>3. waiting' \in Seq(Slot) /\ wire' \in Seq(Slot)
    BY <1>7, <2>2 DEF Write, TypeOK
  <2>4. log' \in Seq([cmd : Cmd, conn : 1..MaxConn])
    BY <1>7, <2>1 DEF Write, TypeOK
  <2>5. armed' \in [Cmd -> SUBSET Listener] /\ chainInExecution' \in Chain \cup {NoChain}
    BY <1>7, <2>1 DEF Write, TypeOK, QueueAssumption
  <2> QED BY <1>7, <2>1, <2>3, <2>4, <2>5 DEF Write, TypeOK
<1>8. CASE WriteUnencodable
  BY <1>8 DEF TypeOK, WriteUnencodable, Settle, Outcome, wireVars
<1>9. CASE Reply
  BY <1>9 DEF TypeOK, Reply, Settle, Outcome
<1>10. CASE ConnectionLost
  <2>1. PICK k \in 0..Len(toWrite) :
            /\ Settle(InFlight \cup Elements(SubSeq(toWrite, 1, k)), "lost")
            /\ toWrite' = SubSeq(toWrite, k + 1, Len(toWrite))
            /\ armed' = [c \in Cmd |->
                 IF c \in Elements(SubSeq(toWrite, 1, k)) THEN {} ELSE armed[c]]
    BY <1>10 DEF ConnectionLost, FlushWaitingForReply
  <2>2. toWrite' \in Seq(Cmd)
    BY <2>1, SplitProperties DEF TypeOK
  <2>3. armed' \in [Cmd -> SUBSET Listener] /\ outcome' \in [Cmd -> Outcome]
    BY <2>1 DEF TypeOK, Settle, Outcome
  <2>4. conn' \in 1..MaxConn
    BY <1>10 DEF ConnectionLost, NextConnection, TypeOK, QueueAssumption
  <2> QED BY <1>10, <2>2, <2>3, <2>4
          DEF ConnectionLost, FlushWaitingForReply, NextConnection, TypeOK
<1>11. CASE ConnectionClosed
  <2>1. conn' \in 1..MaxConn
    BY <1>11 DEF ConnectionClosed, NextConnection, TypeOK, QueueAssumption
  <2> QED BY <1>11, <2>1
          DEF TypeOK, ConnectionClosed, FlushAll, NextConnection, Settle, Outcome
<1>12. CASE UNCHANGED vars
  BY <1>12 DEF TypeOK, vars
<1> QED BY <1>1, <1>2, <1>3, <1>4, <1>5, <1>6, <1>7, <1>8, <1>9, <1>10,
           <1>11, <1>12 DEF Next

(* Every reachable state of the queue and its connection is well typed: in *)
(* particular each listener set and promise outcome is one the code knows. *)
THEOREM TypeCorrect == Spec => []TypeOK
BY QueueAssumption, RequestAssumption, InitType, NextType, PTL DEF Spec

-----------------------------------------------------------------------------
(* Replies.                                                                *)

(* Every operation changes #waitingForReply and the connection alike. *)
LEMMA NextReplyMatching ==
    ASSUME ReplyMatching, [Next]_vars
    PROVE  ReplyMatching'
<1>1. ASSUME NEW r \in Req, AddRequest(r) \/ AddAsap(r) \/ AddAborted(r) PROVE ReplyMatching'
  BY <1>1 DEF ReplyMatching, AddRequest, AddAsap, AddAborted, wireVars
<1>2. ASSUME NEW c \in Cmd, NEW l \in Listener, FireListener(c, l) PROVE ReplyMatching'
  BY <1>2 DEF ReplyMatching, FireListener, wireVars
<1>3. CASE StartMaintenance \/ EndMaintenance \/ WriteUnencodable
  BY <1>3 DEF ReplyMatching, StartMaintenance, EndMaintenance, WriteUnencodable, wireVars
<1>4. CASE Write
  BY <1>4 DEF ReplyMatching, Write
<1>5. CASE Reply
  BY <1>5 DEF ReplyMatching, Reply
<1>6. CASE ConnectionLost \/ ConnectionClosed
  BY <1>6 DEF ReplyMatching, ConnectionLost, ConnectionClosed, FlushWaitingForReply,
              FlushAll, NextConnection
<1>7. CASE UNCHANGED vars
  BY <1>7 DEF ReplyMatching, vars
<1> QED BY <1>1, <1>2, <1>3, <1>4, <1>5, <1>6, <1>7 DEF Next

(* Whatever is cancelled, written or flushed, the oldest entry of          *)
(* #waitingForReply is the command the server answers next.                *)
THEOREM RepliesMatch == Spec => []ReplyMatching
<1>1. Init => ReplyMatching
  BY DEF Init, ReplyMatching
<1> QED BY <1>1, NextReplyMatching, PTL DEF Spec

-----------------------------------------------------------------------------
(* Promises: the inductive invariant of NoCommandLost.                     *)

(* A prelude's entry is followed by its command's: a reply to a prelude    *)
(* settles nothing, so the command's own entry must still be there.        *)
PreludeFirst ==
    \A i \in DOMAIN waiting : waiting[i][2] = "prelude" =>
        /\ i + 1 \in DOMAIN waiting
        /\ waiting[i + 1] = <<waiting[i][1], "main">>

Pending == {c \in Cmd : outcome[c] = "pending"}

PromiseInv ==
    /\ TypeOK
    /\ Pending = Elements(toWrite) \cup InFlight
    /\ Elements(toWrite) \cap InFlight = {}
    /\ Distinct(toWrite)
    /\ Distinct(waiting)
    /\ PreludeFirst

(* A step that leaves waiting alone, and queues the commands A that were   *)
(* not pending, preserves the invariant.                                   *)
LEMMA QueueAdd ==
    ASSUME PromiseInv, TypeOK', UNCHANGED waiting,
           NEW A, A \cap Pending = {},
           Elements(toWrite') = Elements(toWrite) \cup A,
           Distinct(toWrite'),
           Pending' = Pending \cup A
    PROVE  PromiseInv'
<1>1. InFlight' = InFlight
  BY DEF InFlight
<1>2. Pending' = Elements(toWrite)' \cup InFlight'
  BY <1>1 DEF PromiseInv
<1>3. Elements(toWrite)' \cap InFlight' = {}
  BY <1>1 DEF PromiseInv
<1>4. Distinct(waiting)' /\ PreludeFirst'
  BY DEF PromiseInv, PreludeFirst
<1> QED BY <1>2, <1>3, <1>4 DEF PromiseInv

(* A step that leaves waiting alone, and settles and removes the queued    *)
(* commands R, preserves the invariant.                                    *)
LEMMA QueueRemove ==
    ASSUME PromiseInv, TypeOK', UNCHANGED waiting,
           NEW R, R \subseteq Elements(toWrite),
           Elements(toWrite') = Elements(toWrite) \ R,
           Distinct(toWrite'),
           Pending' = Pending \ R
    PROVE  PromiseInv'
<1>1. InFlight' = InFlight
  BY DEF InFlight
<1>2. Pending' = Elements(toWrite)' \cup InFlight'
  BY <1>1 DEF PromiseInv
<1>3. Elements(toWrite)' \cap InFlight' = {}
  BY <1>1 DEF PromiseInv
<1>4. Distinct(waiting)' /\ PreludeFirst'
  BY DEF PromiseInv, PreludeFirst
<1> QED BY <1>2, <1>3, <1>4 DEF PromiseInv

(* Inserting distinct new commands between two parts of the queue.         *)
LEMMA InsertBetween ==
    ASSUME NEW S, NEW s \in Seq(S), NEW t \in Seq(S), NEW u \in Seq(S),
           Distinct(s), Distinct(t), Distinct(u),
           Elements(s) \cap Elements(t) = {}, Elements(s) \cap Elements(u) = {},
           Elements(t) \cap Elements(u) = {}
    PROVE  /\ Elements(s \o t \o u) = Elements(s) \cup Elements(t) \cup Elements(u)
           /\ Distinct(s \o t \o u)
<1>1. /\ s \o t \in Seq(S)
      /\ Elements(s \o t) = Elements(s) \cup Elements(t)
      /\ Distinct(s \o t)
  BY ElementsConcat, DistinctConcat
<1>2. (Elements(s) \cup Elements(t)) \cap Elements(u) = {}
  OBVIOUS
<1> DEFINE v == s \o t
<1> HIDE DEF v
<1>3. v \in Seq(S) /\ Distinct(v) /\ Elements(v) = Elements(s) \cup Elements(t)
  BY <1>1 DEF v
<1>4. Elements(v \o u) = Elements(v) \cup Elements(u) /\ Distinct(v \o u)
  BY <1>2, <1>3, ElementsConcat, DistinctConcat
<1> QED BY <1>3, <1>4 DEF v

(* addCommand and addBatch preserve the invariant: what is admitted is     *)
(* new.                                                                    *)
LEMMA AddRequestPromise ==
    ASSUME QueueAssumption, RequestAssumption, PromiseInv, TypeOK',
           NEW r \in Req, AddRequest(r)
    PROVE  PromiseInv'
<1> DEFINE lead == AdmittedLead(r)
           body == AdmittedBody(r)
           A == Elements(lead) \cup Elements(body)
<1>1. /\ lead \in Seq(Cmd) /\ body \in Seq(Cmd)
      /\ A \subseteq CmdsOf(r)
      /\ Distinct(lead) /\ Distinct(body)
      /\ Elements(lead) \cap Elements(body) = {}
  BY AdmittedProperties DEF PromiseInv
<1>2. /\ toWrite' = toWrite \o lead \o body
      /\ outcome' = [c \in Cmd |-> IF c \in A THEN "pending"
                                   ELSE IF c \in CmdsOf(r) THEN "refused"
                                   ELSE outcome[c]]
      /\ \A c \in CmdsOf(r) : outcome[c] = "unused"
      /\ waiting' = waiting
  BY DEF AddRequest, AdmittedBody, Unused
<1> HIDE DEF lead, body
<1>3. A \in SUBSET Cmd
  BY <1>1 DEF Elements
<1>4. CmdsOf(r) \cap Pending = {}
  BY <1>2 DEF Pending
<1>5. A \cap Elements(toWrite) = {}
  BY <1>1, <1>4 DEF PromiseInv
<1>6. /\ Elements(toWrite') = Elements(toWrite) \cup A
      /\ Distinct(toWrite')
  <2>1. toWrite \in Seq(Cmd) /\ Distinct(toWrite)
    BY DEF PromiseInv, TypeOK
  <2>2. /\ Elements(toWrite) \cap Elements(lead) = {}
        /\ Elements(toWrite) \cap Elements(body) = {}
    BY <1>5
  <2>3. /\ Elements(toWrite \o lead \o body)
             = Elements(toWrite) \cup Elements(lead) \cup Elements(body)
        /\ Distinct(toWrite \o lead \o body)
    BY <1>1, <2>1, <2>2, InsertBetween
  <2> QED BY <1>2, <2>3
<1> HIDE DEF A
<1>7. Pending' = Pending \cup A
  BY <1>1, <1>2, <1>3, <1>4 DEF Pending
<1>8. A \cap Pending = {}
  BY <1>1, <1>4
<1> QED BY <1>2, <1>6, <1>7, <1>8, QueueAdd

(* #insertAtFront preserves the invariant, wherever it inserts. *)
LEMMA AddAsapPromise ==
    ASSUME QueueAssumption, RequestAssumption, PromiseInv, TypeOK',
           NEW r \in Req, AddAsap(r)
    PROVE  PromiseInv'
<1> DEFINE c == BodyOf[r][1]
<1>1. c \in Cmd /\ c \notin Pending
  <2>1. c \in Cmd
    BY DEF AddAsap, QueueAssumption
  <2>2. c \in CmdsOf(r)
    BY DEF CmdsOf, BodyCmds, QueueAssumption, RequestAssumption
  <2> QED BY <2>1, <2>2 DEF AddAsap, Unused, Pending
<1>2. waiting' = waiting
  BY DEF AddAsap
<1>3. CASE toWrite' = toWrite /\ Settle({c}, "refused")
  <2>1. Pending' = Pending
    BY <1>1, <1>3 DEF Settle, Pending
  <2> QED BY <1>2, <1>3, <2>1 DEF PromiseInv, InFlight, PreludeFirst
<1>4. CASE /\ Settle({c}, "pending")
           /\ \E k \in 0..Len(toWrite) :
                toWrite' = SubSeq(toWrite, 1, k) \o <<c>> \o
                           SubSeq(toWrite, k + 1, Len(toWrite))
  <2>1. Pending' = Pending \cup {c}
    BY <1>1, <1>4 DEF Settle, Pending
  <2>2. PICK k \in 0..Len(toWrite) :
                toWrite' = SubSeq(toWrite, 1, k) \o <<c>> \o
                           SubSeq(toWrite, k + 1, Len(toWrite))
    BY <1>4
  <2> DEFINE s == SubSeq(toWrite, 1, k)
             u == SubSeq(toWrite, k + 1, Len(toWrite))
  <2>3. toWrite \in Seq(Cmd) /\ Distinct(toWrite) /\ Elements(toWrite) \subseteq Pending
    BY DEF PromiseInv, TypeOK
  <2>4. /\ s \in Seq(Cmd) /\ u \in Seq(Cmd)
        /\ Distinct(s) /\ Distinct(u)
        /\ Elements(toWrite) = Elements(s) \cup Elements(u)
        /\ Elements(s) \cap Elements(u) = {}
    BY <2>3, SplitProperties
  <2>5. <<c>> \in Seq(Cmd) /\ Elements(<<c>>) = {c} /\ Distinct(<<c>>)
    BY <1>1, Singleton
  <2> HIDE DEF s, u, c
  <2>6. /\ Elements(s) \cap Elements(<<c>>) = {}
        /\ Elements(<<c>>) \cap Elements(u) = {}
    <3>1. c \notin Elements(s) \cup Elements(u)
      BY ONLY <1>1, <2>3, <2>4
    <3> QED BY ONLY <2>5, <3>1
  <2>7. /\ Elements(s \o <<c>> \o u) = Elements(s) \cup Elements(<<c>>) \cup Elements(u)
        /\ Distinct(s \o <<c>> \o u)
    BY <2>4, <2>5, <2>6, InsertBetween
  <2>8. toWrite' = s \o <<c>> \o u
    BY <2>2 DEF s, u, c
  <2>9. Elements(toWrite') = Elements(toWrite) \cup {c} /\ Distinct(toWrite')
    BY <2>4, <2>5, <2>7, <2>8
  <2>10. {c} \cap Pending = {}
    BY <1>1
  <2> QED BY <1>2, <2>1, <2>9, <2>10, QueueAdd
<1> QED BY <1>3, <1>4 DEF AddAsap

(* A request refused because its signal is aborted already preserves the   *)
(* invariant.                                                              *)
LEMMA AddAbortedPromise ==
    ASSUME QueueAssumption, RequestAssumption, PromiseInv, TypeOK',
           NEW r \in Req, AddAborted(r)
    PROVE  PromiseInv'
<1> DEFINE lead == AdmittedLead(r)
           A == Elements(lead)
<1>1. lead \in Seq(Cmd) /\ A \subseteq CmdsOf(r) /\ Distinct(lead)
  BY AdmittedProperties DEF PromiseInv
<1>2. /\ toWrite' = toWrite \o lead
      /\ outcome' = [c \in Cmd |-> IF c \in A THEN "pending"
                                   ELSE IF c \in CmdsOf(r) THEN "refused"
                                   ELSE outcome[c]]
      /\ \A c \in CmdsOf(r) : outcome[c] = "unused"
      /\ waiting' = waiting
  BY DEF AddAborted, Unused
<1> HIDE DEF lead
<1>3. A \in SUBSET Cmd
  BY <1>1 DEF Elements
<1>4. A \cap Pending = {} /\ CmdsOf(r) \cap Pending = {}
  BY <1>1, <1>2 DEF Pending
<1>5. Elements(toWrite') = Elements(toWrite) \cup A /\ Distinct(toWrite')
  <2>1. toWrite \in Seq(Cmd) /\ Distinct(toWrite) /\ Elements(toWrite) \cap Elements(lead) = {}
    BY <1>4 DEF PromiseInv, TypeOK
  <2>2. Elements(toWrite \o lead) = Elements(toWrite) \cup Elements(lead)
    BY <1>1, <2>1, ElementsConcat
  <2>3. Distinct(toWrite \o lead)
    BY <1>1, <2>1, DistinctConcat
  <2> QED BY <1>2, <2>2, <2>3
<1> HIDE DEF A
<1>6. Pending' = Pending \cup A
  BY <1>1, <1>2, <1>3, <1>4 DEF Pending
<1> QED BY <1>2, <1>4, <1>5, <1>6, QueueAdd

(* #rejectCommand preserves the invariant: what it cuts out of the queue   *)
(* is what it rejects.                                                     *)
LEMMA FireListenerPromise ==
    ASSUME PromiseInv, TypeOK', NEW c \in Cmd, NEW l \in Listener, FireListener(c, l)
    PROVE  PromiseInv'
<1>1. waiting' = waiting
  BY DEF FireListener
<1>2. CASE UNCHANGED <<toWrite, outcome>>
  BY <1>1, <1>2 DEF PromiseInv, Pending, InFlight, PreludeFirst
<1>3. ASSUME NEW i \in DOMAIN toWrite, RejectCommand(i) PROVE PromiseInv'
  <2>1. PICK j \in i..Len(toWrite) :
            /\ toWrite' = SubSeq(toWrite, 1, i - 1) \o SubSeq(toWrite, j + 1, Len(toWrite))
            /\ Settle(Elements(SubSeq(toWrite, i, j)), "cancelled")
    BY <1>3 DEF RejectCommand
  <2>2. toWrite \in Seq(Cmd) /\ DOMAIN toWrite = 1..Len(toWrite) /\ Distinct(toWrite)
    BY DEF PromiseInv, TypeOK
  <2>3. /\ i \in 1..(Len(toWrite) + 1) /\ j \in 0..Len(toWrite)
        /\ i - 1 \in 0..Len(toWrite)
        /\ 1 \in 1..(Len(toWrite) + 1) /\ j + 1 \in 1..(Len(toWrite) + 1)
        /\ Len(toWrite) \in 0..Len(toWrite)
    BY <2>2
  <2> DEFINE s == SubSeq(toWrite, 1, i - 1)
             R == Elements(SubSeq(toWrite, i, j))
             u == SubSeq(toWrite, j + 1, Len(toWrite))
  <2>4. /\ s \in Seq(Cmd) /\ Distinct(s) /\ Elements(s) = {toWrite[m] : m \in 1..(i - 1)}
        /\ u \in Seq(Cmd) /\ Distinct(u)
        /\ Elements(u) = {toWrite[m] : m \in (j + 1)..Len(toWrite)}
        /\ R = {toWrite[m] : m \in i..j}
        /\ R \subseteq Elements(toWrite)
    <3>1. s \in Seq(Cmd) /\ Distinct(s) /\ Elements(s) = {toWrite[m] : m \in 1..(i - 1)}
      BY <2>2, <2>3, SliceProperties
    <3>2. /\ u \in Seq(Cmd) /\ Distinct(u)
          /\ Elements(u) = {toWrite[m] : m \in (j + 1)..Len(toWrite)}
      BY <2>2, <2>3, SliceProperties
    <3>3. R = {toWrite[m] : m \in i..j} /\ R \subseteq Elements(toWrite)
      BY <2>2, <2>3, SliceProperties
    <3> QED BY <3>1, <3>2, <3>3
  <2>5. Elements(toWrite) = Elements(s) \cup R \cup Elements(u)
    <3>1. 1..Len(toWrite) = (1..(i - 1)) \cup (i..j) \cup ((j + 1)..Len(toWrite))
      BY <2>2
    <3>2. Elements(toWrite) = {toWrite[m] : m \in 1..Len(toWrite)}
      BY <2>2 DEF Elements
    <3> HIDE DEF s, u, R
    <3> QED BY <2>4, <3>1, <3>2
  <2>6. Elements(s) \cap R = {} /\ Elements(u) \cap R = {} /\ Elements(s) \cap Elements(u) = {}
    <3>1. \A m, n \in 1..Len(toWrite) : m # n => toWrite[m] # toWrite[n]
      BY <2>2 DEF Distinct
    <3>2. /\ \A m \in 1..(i - 1), n \in i..j : toWrite[m] # toWrite[n]
          /\ \A m \in 1..(i - 1), n \in (j + 1)..Len(toWrite) : toWrite[m] # toWrite[n]
          /\ \A m \in i..j, n \in (j + 1)..Len(toWrite) : toWrite[m] # toWrite[n]
      BY <2>2, <3>1
    <3> HIDE DEF s, u, R
    <3> QED BY <2>4, <3>2
  <2>7. toWrite' = s \o u /\ Settle(R, "cancelled")
    BY <2>1
  <2> HIDE DEF s, u, R
  <2>8. Elements(s \o u) = Elements(s) \cup Elements(u) /\ Distinct(s \o u)
    <3>1. Elements(s \o u) = Elements(s) \cup Elements(u)
      BY ONLY <2>4, ElementsConcat
    <3>2. Distinct(s \o u)
      BY ONLY <2>4, <2>6, DistinctConcat
    <3> QED BY <3>1, <3>2
  <2>9. Elements(toWrite') = Elements(toWrite) \ R /\ Distinct(toWrite')
    BY <2>5, <2>6, <2>7, <2>8
  <2>10. Pending' = Pending \ R
    BY <2>7 DEF Pending, Settle
  <2> QED BY <1>1, <2>4, <2>9, <2>10, QueueRemove
<1> QED BY <1>2, <1>3 DEF FireListener

(* commandsToWrite preserves the invariant when encodeCommand throws. *)
LEMMA WriteUnencodablePromise ==
    ASSUME PromiseInv, TypeOK', WriteUnencodable
    PROVE  PromiseInv'
<1> DEFINE R == {Head(toWrite)}
<1>1. toWrite \in Seq(Cmd) /\ toWrite # <<>> /\ Distinct(toWrite)
  BY DEF PromiseInv, TypeOK, WriteUnencodable
<1>2. /\ Elements(toWrite) = R \cup Elements(Tail(toWrite))
      /\ Distinct(Tail(toWrite)) /\ Head(toWrite) \notin Elements(Tail(toWrite))
  BY <1>1, TailProperties
<1>3. toWrite' = Tail(toWrite) /\ Settle(R, "invalid") /\ waiting' = waiting
  BY DEF WriteUnencodable
<1>4. Elements(toWrite') = Elements(toWrite) \ R /\ Distinct(toWrite')
  BY <1>2, <1>3
<1>5. R \subseteq Elements(toWrite)
  BY <1>2
<1> HIDE DEF R
<1>6. Pending' = Pending \ R
  BY <1>3 DEF Pending, Settle
<1> QED BY <1>3, <1>4, <1>5, <1>6, QueueRemove

(* The entries of #waitingForReply for one command: its own, after the one *)
(* of its prelude if it has one.                                           *)
LEMMA SlotsProperties ==
    ASSUME NEW c \in Cmd
    PROVE  /\ SlotsOf(c) \in Seq(Slot)
           /\ <<c, "main">> \in Elements(SlotsOf(c))
           /\ Elements(SlotsOf(c)) \subseteq {<<c, "main">>, <<c, "prelude">>}
           /\ Distinct(SlotsOf(c))
           /\ \A i \in 1..Len(SlotsOf(c)) : SlotsOf(c)[i][2] = "prelude" =>
                i + 1 \in 1..Len(SlotsOf(c)) /\ SlotsOf(c)[i + 1] = <<c, "main">>
<1> DEFINE m == <<c, "main">>
           p == <<c, "prelude">>
<1>1. m \in Slot /\ p \in Slot /\ m # p /\ m[2] = "main" /\ p[2] = "prelude"
  BY DEF Slot
<1>2. CASE c \notin WithPrelude
  <2>1. SlotsOf(c) = <<m>>
    BY <1>2 DEF SlotsOf
  <2> HIDE DEF m, p
  <2>2. <<m>> \in Seq(Slot) /\ Elements(<<m>>) = {m} /\ Distinct(<<m>>)
    BY <1>1, Singleton
  <2>3. Len(<<m>>) = 1 /\ <<m>>[1] = m
    OBVIOUS
  <2>4. \A i \in 1..1 : i = 1
    OBVIOUS
  <2>5. m[2] # "prelude"
    BY <1>1
  <2> QED BY <2>1, <2>2, <2>3, <2>4, <2>5 DEF m, p
<1>3. CASE c \in WithPrelude
  <2>1. SlotsOf(c) = <<p, m>>
    BY <1>3 DEF SlotsOf
  <2> HIDE DEF m, p
  <2>2. <<p, m>> \in Seq(Slot) /\ Len(<<p, m>>) = 2 /\ DOMAIN <<p, m>> = 1..2
    BY <1>1
  <2>3. <<p, m>>[1] = p /\ <<p, m>>[2] = m /\ \A i \in 1..2 : i = 1 \/ i = 2
    OBVIOUS
  <2>4. Elements(<<p, m>>) = {p, m}
    BY <2>2, <2>3 DEF Elements
  <2>5. Distinct(<<p, m>>)
    BY <1>1, <2>2, <2>3 DEF Distinct
  <2>6. \A i \in 1..2 : <<p, m>>[i][2] = "prelude" => i + 1 \in 1..2 /\ <<p, m>>[i + 1] = m
    BY <1>1, <2>3
  <2> QED BY <2>1, <2>2, <2>4, <2>5, <2>6 DEF m, p
<1> QED BY <1>2, <1>3

(* commandsToWrite preserves the invariant: the command moves from one     *)
(* list to the other.                                                      *)
LEMMA WritePromise ==
    ASSUME PromiseInv, TypeOK', Write
    PROVE  PromiseInv'
<1> DEFINE c == Head(toWrite)
           new == SlotsOf(c)
<1>1. toWrite \in Seq(Cmd) /\ toWrite # <<>> /\ Distinct(toWrite)
  BY DEF PromiseInv, TypeOK, Write
<1>2. /\ c \in Cmd
      /\ Elements(toWrite) = {c} \cup Elements(Tail(toWrite))
      /\ Distinct(Tail(toWrite)) /\ c \notin Elements(Tail(toWrite))
  BY <1>1, TailProperties
<1>3. toWrite' = Tail(toWrite) /\ waiting' = waiting \o new /\ outcome' = outcome
  BY DEF Write
<1> HIDE DEF c
<1>4. /\ new \in Seq(Slot)
      /\ <<c, "main">> \in Elements(new)
      /\ Elements(new) \subseteq {<<c, "main">>, <<c, "prelude">>}
      /\ Distinct(new)
      /\ \A i \in 1..Len(new) : new[i][2] = "prelude" =>
           i + 1 \in 1..Len(new) /\ new[i + 1] = <<c, "main">>
  BY <1>2, SlotsProperties
<1> HIDE DEF new
<1>5. waiting \in Seq(Slot) /\ DOMAIN waiting = 1..Len(waiting) /\ Distinct(waiting)
  BY DEF PromiseInv, TypeOK
<1>6. <<c, "main">> \notin Elements(waiting)
  BY <1>2 DEF PromiseInv, InFlight
<1>7. <<c, "prelude">> \notin Elements(waiting)
  <2> SUFFICES ASSUME NEW i \in DOMAIN waiting, waiting[i] = <<c, "prelude">> PROVE FALSE
    BY DEF Elements
  <2>1. i + 1 \in DOMAIN waiting /\ waiting[i + 1] = <<c, "main">>
    BY DEF PromiseInv, PreludeFirst
  <2> QED BY <1>6, <2>1 DEF Elements
<1>8. Elements(waiting') = Elements(waiting) \cup Elements(new)
  BY <1>3, <1>4, <1>5, ElementsConcat
<1>9. Distinct(waiting')
  <2>1. Elements(waiting) \cap Elements(new) = {}
    BY <1>4, <1>6, <1>7
  <2> QED BY ONLY <1>3, <1>4, <1>5, <2>1, DistinctConcat
<1>10. InFlight' = InFlight \cup {c}
  <2>1. ASSUME NEW d \in Cmd, d # c PROVE <<d, "main">> \notin Elements(new)
    BY <1>4, <2>1
  <2> QED BY <1>2, <1>4, <1>8, <2>1 DEF InFlight
<1>11. PreludeFirst'
  <2>1. /\ DOMAIN waiting' = 1..(Len(waiting) + Len(new))
        /\ \A i \in 1..Len(waiting) : waiting'[i] = waiting[i]
        /\ \A i \in 1..Len(new) : waiting'[Len(waiting) + i] = new[i]
        /\ Len(waiting) \in Nat /\ Len(new) \in Nat
    BY <1>3, <1>4, <1>5
  <2> SUFFICES ASSUME NEW i \in DOMAIN waiting', waiting'[i][2] = "prelude"
               PROVE  /\ i + 1 \in DOMAIN waiting'
                      /\ waiting'[i + 1] = <<waiting'[i][1], "main">>
    BY DEF PreludeFirst
  <2>2. CASE i \in 1..Len(waiting)
    <3>1. i + 1 \in 1..Len(waiting) /\ waiting[i + 1] = <<waiting[i][1], "main">>
      BY <1>5, <2>1, <2>2 DEF PromiseInv, PreludeFirst
    <3> QED BY <2>1, <2>2, <3>1
  <2>3. CASE i \notin 1..Len(waiting)
    <3>1. i - Len(waiting) \in 1..Len(new) /\ waiting'[i] = new[i - Len(waiting)]
      BY <2>1, <2>3
    <3> DEFINE k == i - Len(waiting)
    <3>2. k + 1 \in 1..Len(new) /\ new[k + 1] = <<c, "main">>
      BY <1>4, <3>1
    <3>3. new[k] = <<c, "prelude">>
      <4>1. new[k] \in Elements(new)
        BY <1>4, <3>1 DEF Elements
      <4> QED BY <1>4, <3>1, <4>1
    <3>4. waiting'[Len(waiting) + (k + 1)] = new[k + 1]
      BY <2>1, <3>2
    <3>5. i \in Nat /\ Len(waiting) \in Nat /\ Len(new) \in Nat
      BY <2>1
    <3>6. Len(waiting) + (k + 1) = i + 1
      BY <3>5
    <3>7. i + 1 \in DOMAIN waiting'
      BY <2>1, <3>2, <3>5
    <3> QED BY <3>1, <3>2, <3>3, <3>4, <3>6, <3>7
  <2> QED BY <2>2, <2>3
<1>12. Pending' = Pending
  BY <1>3 DEF Pending
<1> QED BY <1>2, <1>3, <1>9, <1>10, <1>11, <1>12 DEF PromiseInv

(* #onReply and #onErrorReply preserve the invariant: the entry of a       *)
(* prelude settles nothing.                                                *)
LEMMA ReplyPromise ==
    ASSUME PromiseInv, TypeOK', Reply
    PROVE  PromiseInv'
<1> DEFINE h == Head(waiting)
<1>1. waiting \in Seq(Slot) /\ waiting # <<>> /\ Distinct(waiting)
  BY DEF PromiseInv, TypeOK, Reply
<1>2. /\ h \in Slot
      /\ Elements(waiting) = {h} \cup Elements(Tail(waiting))
      /\ Distinct(Tail(waiting)) /\ h \notin Elements(Tail(waiting))
  BY <1>1, TailProperties
<1>3. /\ waiting' = Tail(waiting) /\ toWrite' = toWrite
      /\ IF h[2] = "main" THEN Settle({h[1]}, "answered") ELSE UNCHANGED outcome
  BY DEF Reply
<1>4. PreludeFirst'
  <2>1. /\ DOMAIN waiting = 1..Len(waiting) /\ DOMAIN Tail(waiting) = 1..(Len(waiting) - 1)
        /\ \A i \in 1..(Len(waiting) - 1) : Tail(waiting)[i] = waiting[i + 1]
        /\ Len(waiting) \in Nat
    BY <1>1
  <2> SUFFICES ASSUME NEW i \in 1..(Len(waiting) - 1), waiting[i + 1][2] = "prelude"
               PROVE  /\ i + 1 \in 1..(Len(waiting) - 1)
                      /\ waiting[i + 2] = <<waiting[i + 1][1], "main">>
    BY <1>3, <2>1 DEF PreludeFirst
  <2>2. i + 1 \in 1..Len(waiting)
    BY <2>1
  <2>3. i + 1 + 1 \in 1..Len(waiting) /\ waiting[i + 1 + 1] = <<waiting[i + 1][1], "main">>
    BY <2>1, <2>2 DEF PromiseInv, PreludeFirst
  <2> QED BY <2>1, <2>3
<1> HIDE DEF h
<1>5. CASE h[2] = "main"
  <2>1. h = <<h[1], "main">> /\ h[1] \in Cmd
    BY <1>2, <1>5 DEF Slot
  <2>2. InFlight' = InFlight \ {h[1]}
    BY <1>2, <1>3, <2>1 DEF InFlight
  <2>3. Pending' = Pending \ {h[1]}
    BY <1>3, <1>5 DEF Pending, Settle
  <2>4. h[1] \in InFlight
    BY <1>2, <2>1 DEF InFlight
  <2> QED BY <1>2, <1>3, <1>4, <2>2, <2>3, <2>4 DEF PromiseInv
<1>6. CASE h[2] # "main"
  <2>1. InFlight' = InFlight
    BY <1>2, <1>3, <1>6 DEF InFlight
  <2>2. Pending' = Pending
    BY <1>3, <1>6 DEF Pending
  <2> QED BY <1>2, <1>3, <1>4, <2>1, <2>2 DEF PromiseInv
<1> QED BY <1>5, <1>6

(* flushWaitingForReply and flushAll preserve the invariant: what they     *)
(* drop is what they reject.                                               *)
LEMMA ConnectionPromise ==
    ASSUME PromiseInv, TypeOK', ConnectionLost \/ ConnectionClosed
    PROVE  PromiseInv'
<1>1. waiting' = <<>>
  BY DEF ConnectionLost, ConnectionClosed, FlushWaitingForReply, FlushAll
<1>2. InFlight' = {} /\ Distinct(waiting') /\ PreludeFirst'
  BY <1>1, EmptySequence DEF InFlight, PreludeFirst
<1>3. CASE ConnectionLost
  <2>1. PICK k \in 0..Len(toWrite) :
            /\ Settle(InFlight \cup Elements(SubSeq(toWrite, 1, k)), "lost")
            /\ toWrite' = SubSeq(toWrite, k + 1, Len(toWrite))
    BY <1>3 DEF ConnectionLost, FlushWaitingForReply
  <2> DEFINE R == Elements(SubSeq(toWrite, 1, k))
  <2>2. /\ Elements(toWrite) = R \cup Elements(toWrite')
        /\ Distinct(toWrite')
        /\ R \cap Elements(toWrite') = {}
    BY <2>1, SplitProperties DEF PromiseInv, TypeOK
  <2>3. Settle(InFlight \cup R, "lost")
    BY <2>1
  <2> HIDE DEF R
  <2>4. Pending' = Pending \ (InFlight \cup R)
    BY <2>3 DEF Pending, Settle
  <2>5. Pending' = Elements(toWrite')
    BY <2>2, <2>4 DEF PromiseInv
  <2> QED BY <1>2, <2>2, <2>5 DEF PromiseInv
<1>4. CASE ConnectionClosed
  <2>1. toWrite' = <<>> /\ Settle(InFlight \cup Elements(toWrite), "closed")
    BY <1>4 DEF ConnectionClosed, FlushAll
  <2>2. Pending' = Pending \ (InFlight \cup Elements(toWrite))
    BY <2>1 DEF Pending, Settle
  <2>3. Elements(toWrite') = {} /\ Distinct(toWrite')
    BY <2>1, EmptySequence
  <2> QED BY <1>2, <2>2, <2>3 DEF PromiseInv
<1> QED BY <1>3, <1>4

(* A new queue satisfies the invariant. *)
LEMMA InitPromise == Init => PromiseInv
<1> SUFFICES ASSUME Init PROVE PromiseInv
  OBVIOUS
<1>1. TypeOK
  BY InitType, QueueAssumption
<1>2. Pending = {}
  BY DEF Init, Pending
<1> QED BY <1>1, <1>2, EmptySequence DEF Init, PromiseInv, InFlight, PreludeFirst

(* Every operation of the queue preserves the invariant. *)
LEMMA NextPromise ==
    ASSUME PromiseInv, [Next]_vars
    PROVE  PromiseInv'
<1> USE QueueAssumption, RequestAssumption
<1>1. TypeOK'
  BY NextType DEF PromiseInv
<1>2. ASSUME NEW r \in Req, AddRequest(r) PROVE PromiseInv'
  BY <1>1, <1>2, AddRequestPromise
<1>3. ASSUME NEW r \in Req, AddAsap(r) PROVE PromiseInv'
  BY <1>1, <1>3, AddAsapPromise
<1>4. ASSUME NEW r \in Req, AddAborted(r) PROVE PromiseInv'
  BY <1>1, <1>4, AddAbortedPromise
<1>5. ASSUME NEW c \in Cmd, NEW l \in Listener, FireListener(c, l) PROVE PromiseInv'
  BY <1>1, <1>5, FireListenerPromise
<1>6. CASE StartMaintenance \/ EndMaintenance \/ UNCHANGED vars
  BY <1>1, <1>6 DEF PromiseInv, StartMaintenance, EndMaintenance, vars,
                          Pending, InFlight, PreludeFirst
<1>7. CASE Write
  BY <1>1, <1>7, WritePromise
<1>8. CASE WriteUnencodable
  BY <1>1, <1>8, WriteUnencodablePromise
<1>9. CASE Reply
  BY <1>1, <1>9, ReplyPromise
<1>10. CASE ConnectionLost \/ ConnectionClosed
  BY <1>1, <1>10, ConnectionPromise
<1> QED BY <1>2, <1>3, <1>4, <1>5, <1>6, <1>7, <1>8, <1>9, <1>10 DEF Next

(* Every promise is settled exactly when its command has left the queue:   *)
(* a caller's promise neither hangs nor is settled for a command that is   *)
(* still to be sent, whatever is cancelled, refused, flushed or answered.  *)
THEOREM NoCommandIsLost == Spec => []NoCommandLost
<1>1. PromiseInv => NoCommandLost
  BY DEF PromiseInv, NoCommandLost, Distinct, Pending
<1> QED BY <1>1, InitPromise, NextPromise, PTL DEF Spec

-----------------------------------------------------------------------------
(* What was written has left the queue for good: it is not queued, and its *)
(* promise was made.                                                       *)

LogInv ==
    /\ PromiseInv
    /\ AtMostOnce
    /\ \A i \in DOMAIN log :
         log[i].cmd \notin Elements(toWrite) /\ outcome[log[i].cmd] # "unused"

(* The log holds commands. *)
LEMMA LogTyped ==
    ASSUME LogInv
    PROVE  \A i \in DOMAIN log : log[i].cmd \in Cmd
<1> DEFINE E == [cmd : Cmd, conn : 1..MaxConn]
<1>1. log \in Seq(E)
  BY DEF LogInv, PromiseInv, TypeOK
<1>2. \A e \in E : e.cmd \in Cmd
  OBVIOUS
<1> HIDE DEF E
<1>3. \A i \in DOMAIN log : log[i] \in E
  BY <1>1
<1> QED BY <1>2, <1>3

(* A step that writes nothing, and makes no promise pending again or       *)
(* takes one back from #waitingForReply, preserves it.                     *)
LEMMA LogUnchanged ==
    ASSUME LogInv, PromiseInv', log' = log,
           \A c \in Cmd : outcome[c] # "unused" =>
             /\ outcome'[c] # "unused"
             /\ c \in Pending' \ InFlight' => c \in Pending \ InFlight
    PROVE  LogInv'
<1>1. \A i \in DOMAIN log : log[i].cmd \in Cmd
  BY LogTyped
<1>2. ASSUME NEW i \in DOMAIN log
      PROVE  log[i].cmd \notin Elements(toWrite') /\ outcome'[log[i].cmd] # "unused"
  <2> DEFINE c == log[i].cmd
  <2>1. c \in Cmd /\ c \notin Elements(toWrite) /\ outcome[c] # "unused"
    BY <1>1 DEF LogInv
  <2>2. c \notin Pending \ InFlight
    BY <2>1 DEF LogInv, PromiseInv
  <2>3. c \in Elements(toWrite') => c \in Pending' \ InFlight'
    BY DEF PromiseInv
  <2> QED BY <2>1, <2>2, <2>3
<1>3. AtMostOnce'
  BY DEF LogInv, AtMostOnce
<1> QED BY <1>2, <1>3 DEF LogInv

(* addCommand and addBatch make promises only for commands that are new.   *)
LEMMA AddLog ==
    ASSUME QueueAssumption, RequestAssumption, LogInv, PromiseInv', NEW r \in Req,
           AddRequest(r) \/ AddAsap(r) \/ AddAborted(r)
    PROVE  LogInv'
<1>1. log' = log /\ waiting' = waiting /\ Unused(r)
  BY DEF AddRequest, AddAsap, AddAborted, wireVars
<1>2. InFlight' = InFlight
  BY <1>1 DEF InFlight
<1>3. ASSUME NEW c \in Cmd, outcome[c] # "unused" PROVE outcome'[c] = outcome[c]
  <2>1. c \notin CmdsOf(r)
    BY <1>1, <1>3 DEF Unused
  <2>2. CASE AddRequest(r)
    <3>1. Elements(AdmittedLead(r)) \cup Elements(AdmittedBody(r)) \subseteq CmdsOf(r)
      BY AdmittedProperties DEF LogInv, PromiseInv
    <3> DEFINE A == Elements(AdmittedLead(r)) \cup Elements(AdmittedBody(r))
    <3>2. outcome' = [d \in Cmd |-> IF d \in A THEN "pending"
                                    ELSE IF d \in CmdsOf(r) THEN "refused"
                                    ELSE outcome[d]]
      BY <2>2 DEF AddRequest, AdmittedBody
    <3> HIDE DEF A
    <3>3. c \notin A
      BY <2>1, <3>1 DEF A
    <3> QED BY <2>1, <3>2, <3>3
  <2>3. CASE AddAborted(r)
    <3>1. Elements(AdmittedLead(r)) \subseteq CmdsOf(r)
      BY AdmittedProperties DEF LogInv, PromiseInv
    <3> QED BY <2>1, <2>3, <3>1 DEF AddAborted
  <2>4. CASE AddAsap(r)
    <3>1. BodyOf[r][1] \in CmdsOf(r)
      BY DEF CmdsOf, BodyCmds, QueueAssumption, RequestAssumption
    <3>2. PICK what : Settle({BodyOf[r][1]}, what)
      BY <2>4 DEF AddAsap
    <3>3. c # BodyOf[r][1]
      BY <2>1, <3>1
    <3> QED BY <3>2, <3>3 DEF Settle
  <2> QED BY <2>2, <2>3, <2>4
<1> QED BY <1>1, <1>2, <1>3, LogUnchanged DEF Pending

(* Settling promises, cancelled, rejected or answered, preserves it.       *)
LEMMA SettleLog ==
    ASSUME LogInv, PromiseInv', log' = log,
           Pending' \subseteq Pending,
           \A c \in Cmd : outcome'[c] = "unused" => outcome[c] = "unused",
           waiting' = waiting \/ Pending' \cap InFlight \subseteq InFlight'
    PROVE  LogInv'
<1>1. Pending' \cap InFlight \subseteq InFlight'
  BY DEF InFlight
<1>2. \A c \in Cmd : c \in Pending' \ InFlight' => c \in Pending \ InFlight
  BY <1>1
<1> QED BY <1>2, LogUnchanged

(* A listener that fires settles what it cuts out of the queue. *)
LEMMA FireListenerLog ==
    ASSUME LogInv, PromiseInv', NEW c \in Cmd, NEW l \in Listener, FireListener(c, l)
    PROVE  LogInv'
<1>1. log' = log /\ waiting' = waiting
  BY DEF FireListener, wireVars
<1>2. outcome' = outcome \/ \E R : Settle(R, "cancelled")
  BY DEF FireListener, RejectCommand
<1>3. Pending' \subseteq Pending /\ \A d \in Cmd : outcome'[d] = "unused" => outcome[d] = "unused"
  BY <1>2 DEF Settle, Pending
<1> QED BY <1>1, <1>3, SettleLog

(* What is written was queued, so it had not been written before, and it   *)
(* is not queued any more.                                                 *)
LEMMA WriteLog ==
    ASSUME LogInv, PromiseInv', Write
    PROVE  LogInv'
<1> DEFINE c == Head(toWrite)
           e == [cmd |-> c, conn |-> conn]
<1>1. toWrite \in Seq(Cmd) /\ toWrite # <<>> /\ Distinct(toWrite)
  BY DEF LogInv, PromiseInv, TypeOK, Write
<1>2. /\ c \in Cmd
      /\ Elements(toWrite) = {c} \cup Elements(Tail(toWrite))
      /\ c \notin Elements(Tail(toWrite))
  BY <1>1, TailProperties
<1>3. toWrite' = Tail(toWrite) /\ log' = Append(log, e) /\ outcome' = outcome
  BY DEF Write
<1>4. e.cmd = c
  OBVIOUS
<1> HIDE DEF c, e
<1>5. outcome[c] # "unused"
  BY <1>2 DEF LogInv, PromiseInv, Pending
<1>6. /\ DOMAIN log = 1..Len(log) /\ Len(log) \in Nat
      /\ DOMAIN log' = 1..(Len(log) + 1)
      /\ \A i \in 1..Len(log) : log'[i] = log[i]
      /\ log'[Len(log) + 1] = e
  BY <1>3 DEF LogInv, PromiseInv, TypeOK
<1>7. \A i \in 1..Len(log) : log[i].cmd # c
  BY <1>2, <1>6 DEF LogInv
<1>8. AtMostOnce'
  <2> SUFFICES ASSUME NEW i \in DOMAIN log', NEW j \in DOMAIN log', log'[i].cmd = log'[j].cmd
               PROVE  i = j
    BY DEF AtMostOnce
  <2>1. CASE i \in 1..Len(log) /\ j \in 1..Len(log)
    BY <1>6, <2>1 DEF LogInv, AtMostOnce
  <2>2. CASE i = Len(log) + 1 /\ j \in 1..Len(log)
    BY <1>4, <1>6, <1>7, <2>2
  <2>3. CASE i \in 1..Len(log) /\ j = Len(log) + 1
    BY <1>4, <1>6, <1>7, <2>3
  <2>4. CASE i = Len(log) + 1 /\ j = Len(log) + 1
    BY <2>4
  <2> QED BY <1>6, <2>1, <2>2, <2>3, <2>4
<1>9. ASSUME NEW i \in DOMAIN log'
      PROVE  log'[i].cmd \notin Elements(toWrite') /\ outcome'[log'[i].cmd] # "unused"
  <2>1. CASE i \in 1..Len(log)
    BY <1>2, <1>3, <1>6, <2>1 DEF LogInv
  <2>2. CASE i = Len(log) + 1
    BY <1>2, <1>3, <1>4, <1>5, <1>6, <2>2
  <2> QED BY <1>6, <2>1, <2>2
<1> QED BY <1>8, <1>9 DEF LogInv

(* The other operations settle promises, or leave them alone. *)
LEMMA OtherLog ==
    ASSUME LogInv, PromiseInv',
           \/ StartMaintenance \/ EndMaintenance \/ WriteUnencodable \/ Reply
           \/ ConnectionLost \/ ConnectionClosed \/ UNCHANGED vars
    PROVE  LogInv'
<1>1. log' = log
  BY DEF StartMaintenance, EndMaintenance, WriteUnencodable, Reply, ConnectionLost,
         ConnectionClosed, NextConnection, wireVars, vars
<1>2. CASE StartMaintenance \/ EndMaintenance \/ UNCHANGED vars
  BY <1>1, <1>2, SettleLog DEF StartMaintenance, EndMaintenance, vars, Pending
<1>3. CASE WriteUnencodable
  BY <1>1, <1>3, SettleLog DEF WriteUnencodable, Settle, Pending
<1>4. CASE Reply
  <2>1. toWrite' = toWrite
    BY <1>4 DEF Reply
  <2>2. \A c \in Cmd : outcome'[c] = "unused" => outcome[c] = "unused"
    BY <1>4 DEF Reply, Settle
  <2>3. \A i \in DOMAIN log : log[i].cmd \in Cmd
    BY LogTyped
  <2> QED BY <1>1, <2>1, <2>2, <2>3 DEF LogInv, AtMostOnce
<1>5. CASE ConnectionLost \/ ConnectionClosed
  <2>1. \E R, what : /\ what \in {"lost", "closed"}
                     /\ Settle(InFlight \cup R, what)
    BY <1>5 DEF ConnectionLost, ConnectionClosed, FlushWaitingForReply, FlushAll
  <2>2. /\ Pending' \subseteq Pending
        /\ \A c \in Cmd : outcome'[c] = "unused" => outcome[c] = "unused"
        /\ Pending' \cap InFlight = {}
    BY <2>1 DEF Settle, Pending
  <2> QED BY <1>1, <2>2, SettleLog
<1> QED BY <1>2, <1>3, <1>4, <1>5

(* A new queue has written nothing. *)
LEMMA InitLog == Init => LogInv
<1> SUFFICES ASSUME Init PROVE LogInv
  OBVIOUS
<1>1. PromiseInv
  BY InitPromise
<1> QED BY <1>1 DEF Init, LogInv, AtMostOnce

(* Every operation of the queue preserves it. *)
LEMMA NextLog ==
    ASSUME LogInv, [Next]_vars
    PROVE  LogInv'
<1> USE QueueAssumption, RequestAssumption
<1>1. PromiseInv'
  BY NextPromise DEF LogInv
<1>2. ASSUME NEW r \in Req, AddRequest(r) \/ AddAsap(r) \/ AddAborted(r) PROVE LogInv'
  BY <1>1, <1>2, AddLog
<1>3. ASSUME NEW c \in Cmd, NEW l \in Listener, FireListener(c, l) PROVE LogInv'
  BY <1>1, <1>3, FireListenerLog
<1>4. CASE Write
  BY <1>1, <1>4, WriteLog
<1>5. CASE \/ StartMaintenance \/ EndMaintenance \/ WriteUnencodable \/ Reply
           \/ ConnectionLost \/ ConnectionClosed \/ UNCHANGED vars
  BY <1>1, <1>5, OtherLog
<1> QED BY <1>2, <1>3, <1>4, <1>5 DEF Next

(* No command is written twice, on one connection or over all of them: the *)
(* queue never resends what was in flight when a connection was lost.      *)
THEOREM WrittenAtMostOnce == Spec => []AtMostOnce
<1>1. LogInv => AtMostOnce
  BY DEF LogInv
<1> QED BY <1>1, InitLog, NextLog, PTL DEF Spec

-----------------------------------------------------------------------------
(* Chains and transactions.                                                *)

(* c and d are commands of one chain. *)
SameChain(c, d) == ChainOf[c] # NoChain /\ ChainOf[c] = ChainOf[d]

(* The commands of a chain that are queued are next to each other. *)
QueueWhole ==
    \A i, k \in DOMAIN toWrite :
        SameChain(toWrite[i], toWrite[k]) =>
            \A j \in i..k : ChainOf[toWrite[j]] = ChainOf[toWrite[i]]

(* The rest of a chain of which something was written is in execution, on  *)
(* this connection, at the front of the queue, and nothing was written     *)
(* since but commands of it.                                               *)
StartedInFront ==
    \A m \in DOMAIN toWrite, i \in DOMAIN log :
        SameChain(log[i].cmd, toWrite[m]) =>
            /\ chainInExecution = ChainOf[toWrite[m]]
            /\ log[i].conn = conn
            /\ \A j \in 1..m : ChainOf[toWrite[j]] = ChainOf[toWrite[m]]
            /\ \A j \in i..Len(log) : ChainOf[log[j].cmd] = ChainOf[toWrite[m]]

(* A chain is in execution because one of its commands was written. *)
ExecutionWritten ==
    chainInExecution # NoChain =>
        \E i \in DOMAIN log : ChainOf[log[i].cmd] = chainInExecution

ChainInv ==
    /\ LogInv
    /\ QueueWhole
    /\ StartedInFront
    /\ ExecutionWritten
    /\ ChainWhole

(* The head of a batch is queued in front of its members, and behind its   *)
(* ASKING.                                                                 *)
HeadFirst ==
    \A r \in Batches : \A i, k \in DOMAIN toWrite :
        toWrite[i] = BodyOf[r][1] =>
            /\ toWrite[k] \in BodyCmds(r) => i <= k
            /\ toWrite[k] = LeadOf[r] => k < i

(* A listener is never attached to a member of a batch, only to its head.  *)
MembersUnarmed == \A c \in Cmd : armed[c] # {} => ~IsMember(c)

(* What was written is not cancelled, refused or found to be invalid. *)
Written == {"pending", "answered", "lost", "closed"}
WrittenKept == \A i \in DOMAIN log : outcome[log[i].cmd] \in Written

InvalidUnencodable == \A c \in Cmd : outcome[c] = "invalid" => c \in Unencodable

(* A transaction is admitted whole or not at all. *)
AdmittedWhole ==
    \A r \in Req : KindOf[r] = "multi" =>
        \/ \A c \in BodyCmds(r) : outcome[c] \in {"unused", "refused"}
        \/ \A c \in BodyCmds(r) : outcome[c] \notin {"unused", "refused"}

(* The members of a batch are cancelled with its head. *)
CancelledWhole ==
    \A r \in Batches : \A c \in BodyCmds(r) :
        outcome[c] = "cancelled" => outcome[BodyOf[r][1]] = "cancelled"

BatchInv ==
    /\ HeadFirst
    /\ MembersUnarmed
    /\ WrittenKept
    /\ InvalidUnencodable
    /\ AdmittedWhole
    /\ CancelledWhole

-----------------------------------------------------------------------------
(* Commands leave the queue and the others keep their order.               *)

(* The positions of a suffix, and of a concatenation. *)
LEMMA SuffixIndex ==
    ASSUME NEW S, NEW s \in Seq(S), NEW j \in 0..Len(s)
    PROVE  /\ SubSeq(s, j + 1, Len(s)) \in Seq(S)
           /\ Len(SubSeq(s, j + 1, Len(s))) = Len(s) - j
           /\ \A k \in 1..(Len(s) - j) : SubSeq(s, j + 1, Len(s))[k] = s[j + k]
<1>1. Len(s) \in Nat /\ j \in Nat /\ j + 1 \in 1..(Len(s) + 1)
  OBVIOUS
<1>2. /\ SubSeq(s, j + 1, Len(s)) \in Seq(S)
      /\ Len(SubSeq(s, j + 1, Len(s))) = IF j + 1 <= Len(s) THEN Len(s) - (j + 1) + 1 ELSE 0
      /\ \A k \in 1..Len(SubSeq(s, j + 1, Len(s))) :
           SubSeq(s, j + 1, Len(s))[k] = s[(j + 1) + k - 1]
  OBVIOUS
<1>3. Len(SubSeq(s, j + 1, Len(s))) = Len(s) - j
  BY <1>1, <1>2
<1>4. \A k \in 1..(Len(s) - j) : (j + 1) + k - 1 = j + k
  BY <1>1
<1> QED BY <1>2, <1>3, <1>4

(* The elements of two sequences put together. *)
LEMMA ConcatIndex ==
    ASSUME NEW S, NEW s \in Seq(S), NEW u \in Seq(S)
    PROVE  /\ s \o u \in Seq(S) /\ Len(s \o u) = Len(s) + Len(u)
           /\ DOMAIN (s \o u) = 1..(Len(s) + Len(u))
           /\ \A k \in 1..Len(s) : (s \o u)[k] = s[k]
           /\ \A k \in 1..Len(u) : (s \o u)[Len(s) + k] = u[k]
OBVIOUS

(* The queue q is what is left of the queue s: f says where its commands   *)
(* were.                                                                   *)
LeftOf(q, s, f) ==
    /\ f \in [DOMAIN q -> DOMAIN s]
    /\ \A i \in DOMAIN q : q[i] = s[f[i]]
    /\ \A i, k \in DOMAIN q : i < k => f[i] < f[k]

(* A queue without its first command. *)
LEMMA TailLeft ==
    ASSUME toWrite \in Seq(Cmd), toWrite # <<>>
    PROVE  LeftOf(Tail(toWrite), toWrite, [i \in DOMAIN Tail(toWrite) |-> i + 1])
<1>1. /\ Len(toWrite) \in Nat \ {0}
      /\ DOMAIN toWrite = 1..Len(toWrite)
      /\ DOMAIN Tail(toWrite) = 1..(Len(toWrite) - 1)
      /\ \A i \in 1..(Len(toWrite) - 1) : Tail(toWrite)[i] = toWrite[i + 1]
  OBVIOUS
<1> QED BY <1>1 DEF LeftOf

(* A queue without its commands from i to j. *)
LEMMA CutLeft ==
    ASSUME toWrite \in Seq(Cmd), NEW i \in 1..(Len(toWrite) + 1), NEW j \in (i - 1)..Len(toWrite)
    PROVE  LET q == SubSeq(toWrite, 1, i - 1) \o SubSeq(toWrite, j + 1, Len(toWrite))
           IN  /\ q \in Seq(Cmd)
               /\ LeftOf(q, toWrite, [k \in DOMAIN q |-> IF k < i THEN k ELSE k + (j - i) + 1])
<1> DEFINE s == SubSeq(toWrite, 1, i - 1)
           u == SubSeq(toWrite, j + 1, Len(toWrite))
           q == s \o u
<1>1. Len(toWrite) \in Nat /\ DOMAIN toWrite = 1..Len(toWrite) /\ i \in Nat /\ j \in Nat
  OBVIOUS
<1>2. /\ s \in Seq(Cmd) /\ Len(s) = i - 1
      /\ \A k \in 1..(i - 1) : s[k] = toWrite[k]
  BY <1>1
<1>3. /\ u \in Seq(Cmd) /\ Len(u) = Len(toWrite) - j
      /\ \A k \in 1..(Len(toWrite) - j) : u[k] = toWrite[j + k]
  <2>1. j \in 0..Len(toWrite) /\ toWrite \in Seq(Cmd)
    BY <1>1
  <2> QED BY ONLY <2>1, SuffixIndex DEF u
<1> HIDE DEF s, u
<1>4. /\ q \in Seq(Cmd)
      /\ DOMAIN q = 1..((i - 1) + (Len(toWrite) - j))
      /\ \A k \in 1..(i - 1) : q[k] = s[k]
      /\ \A k \in 1..(Len(toWrite) - j) : q[(i - 1) + k] = u[k]
  <2>1. /\ q \in Seq(Cmd)
        /\ DOMAIN q = 1..(Len(s) + Len(u))
        /\ \A k \in 1..Len(s) : q[k] = s[k]
        /\ \A k \in 1..Len(u) : q[Len(s) + k] = u[k]
    <3>1. s \in Seq(Cmd) /\ u \in Seq(Cmd)
      BY <1>2, <1>3
    <3> QED BY ONLY <3>1, ConcatIndex, SMTT(30) DEF q
  <2> HIDE DEF q
  <2> QED BY <1>2, <1>3, <2>1
<1> HIDE DEF q
<1> DEFINE f == [k \in DOMAIN q |-> IF k < i THEN k ELSE k + (j - i) + 1]
<1>5. ASSUME NEW k \in DOMAIN q PROVE f[k] \in DOMAIN toWrite /\ q[k] = toWrite[f[k]]
  <2>1. CASE k < i
    <3>1. k \in 1..(i - 1) /\ f[k] = k
      BY <1>1, <1>4, <2>1
    <3> QED BY <1>1, <1>2, <1>4, <3>1
  <2>2. CASE k >= i
    <3> DEFINE m == k - (i - 1)
    <3>1. /\ k \in Nat /\ f[k] = k + (j - i) + 1
      BY <1>1, <1>4, <2>2
    <3>2. /\ m \in 1..(Len(toWrite) - j) /\ (i - 1) + m = k /\ j + m = k + (j - i) + 1
      BY <1>1, <1>4, <2>2, <3>1
    <3>3. q[(i - 1) + m] = u[m] /\ u[m] = toWrite[j + m]
      BY <1>3, <1>4, <3>2
    <3>4. q[k] = toWrite[f[k]]
      BY <3>1, <3>2, <3>3
    <3>5. k + (j - i) + 1 \in 1..Len(toWrite)
      BY <1>1, <3>2
    <3> QED BY <1>1, <3>1, <3>4, <3>5
  <2> QED BY <1>1, <1>4, <2>1, <2>2
<1>6. ASSUME NEW k \in DOMAIN q, NEW m \in DOMAIN q, k < m PROVE f[k] < f[m]
  <2>1. k \in Nat /\ m \in Nat
    BY <1>4
  <2> QED BY <1>1, <1>6, <2>1
<1> QED BY <1>4, <1>5, <1>6 DEF LeftOf, q, s, u

(* A queue without its first k commands. *)
LEMMA DropLeft ==
    ASSUME toWrite \in Seq(Cmd), NEW k \in 0..Len(toWrite)
    PROVE  LET q == SubSeq(toWrite, k + 1, Len(toWrite))
           IN  LeftOf(q, toWrite, [m \in DOMAIN q |-> k + m])
<1> DEFINE q == SubSeq(toWrite, k + 1, Len(toWrite))
           f == [m \in DOMAIN q |-> k + m]
<1>1. /\ q \in Seq(Cmd) /\ Len(q) = Len(toWrite) - k
      /\ \A m \in 1..(Len(toWrite) - k) : q[m] = toWrite[k + m]
  BY SuffixIndex
<1> HIDE DEF q
<1>2. /\ Len(toWrite) \in Nat /\ k \in Nat /\ DOMAIN toWrite = 1..Len(toWrite)
      /\ DOMAIN q = 1..(Len(toWrite) - k)
  BY <1>1
<1>3. \A m \in DOMAIN q : f[m] = k + m /\ k + m \in DOMAIN toWrite /\ m \in Nat
  BY <1>2
<1>4. \A i, m \in DOMAIN q : i < m => f[i] < f[m]
  BY <1>2, <1>3
<1> QED BY <1>1, <1>2, <1>3, <1>4 DEF LeftOf, q

(* What is left of a queue whose chains are whole has whole chains, and    *)
(* what is left of a started chain is still in front.                      *)
LEMMA LeftWhole ==
    ASSUME toWrite \in Seq(Cmd), toWrite' \in Seq(Cmd), NEW f, LeftOf(toWrite', toWrite, f)
    PROVE  /\ QueueWhole => QueueWhole'
           /\ StartedInFront /\ UNCHANGED <<log, conn, chainInExecution>> => StartedInFront'
           /\ HeadFirst => HeadFirst'
<1>1. /\ DOMAIN toWrite = 1..Len(toWrite) /\ Len(toWrite) \in Nat
      /\ DOMAIN toWrite' = 1..Len(toWrite') /\ Len(toWrite') \in Nat
  OBVIOUS
<1>2. /\ \A i \in DOMAIN toWrite' : f[i] \in DOMAIN toWrite /\ toWrite'[i] = toWrite[f[i]]
      /\ \A i, k \in DOMAIN toWrite' : i < k => f[i] < f[k]
  BY DEF LeftOf
<1>3. \A i, k \in DOMAIN toWrite' : i <= k => f[i] <= f[k]
  BY <1>1, <1>2
<1>4. \A i, k \in DOMAIN toWrite' : f[i] <= f[k] => i <= k
  BY <1>1, <1>2
<1>5. ASSUME QueueWhole PROVE QueueWhole'
  <2> SUFFICES ASSUME NEW i \in DOMAIN toWrite', NEW k \in DOMAIN toWrite',
                      SameChain(toWrite'[i], toWrite'[k]), NEW j \in i..k
               PROVE  ChainOf[toWrite'[j]] = ChainOf[toWrite'[i]]
    BY DEF QueueWhole, SameChain
  <2>1. j \in DOMAIN toWrite' /\ i <= j /\ j <= k
    BY <1>1
  <2>2. f[j] \in f[i]..f[k]
    BY <1>1, <1>2, <1>3, <2>1
  <2>3. SameChain(toWrite[f[i]], toWrite[f[k]])
    BY <1>2
  <2>4. ChainOf[toWrite[f[j]]] = ChainOf[toWrite[f[i]]]
    BY <1>2, <1>5, <2>2, <2>3 DEF QueueWhole
  <2> QED BY <1>2, <2>1, <2>4
<1>6. ASSUME StartedInFront, UNCHANGED <<log, conn, chainInExecution>> PROVE StartedInFront'
  <2> SUFFICES ASSUME NEW m \in DOMAIN toWrite', NEW i \in DOMAIN log,
                      SameChain(log[i].cmd, toWrite'[m])
               PROVE  /\ chainInExecution = ChainOf[toWrite'[m]]
                      /\ log[i].conn = conn
                      /\ \A j \in 1..m : ChainOf[toWrite'[j]] = ChainOf[toWrite'[m]]
                      /\ \A j \in i..Len(log) : ChainOf[log[j].cmd] = ChainOf[toWrite'[m]]
    BY <1>6 DEF StartedInFront, SameChain
  <2>1. f[m] \in DOMAIN toWrite /\ toWrite'[m] = toWrite[f[m]]
    BY <1>2
  <2>2. /\ chainInExecution = ChainOf[toWrite[f[m]]]
        /\ log[i].conn = conn
        /\ \A j \in 1..f[m] : ChainOf[toWrite[j]] = ChainOf[toWrite[f[m]]]
        /\ \A j \in i..Len(log) : ChainOf[log[j].cmd] = ChainOf[toWrite[f[m]]]
    BY <1>6, <2>1 DEF StartedInFront
  <2>3. ASSUME NEW j \in 1..m PROVE ChainOf[toWrite'[j]] = ChainOf[toWrite'[m]]
    <3>1. j \in DOMAIN toWrite' /\ j <= m
      BY <1>1
    <3>2. f[j] \in 1..f[m]
      BY <1>1, <1>2, <1>3, <3>1
    <3> QED BY <1>2, <2>1, <2>2, <3>1, <3>2
  <2> QED BY <2>1, <2>2, <2>3
<1>7. ASSUME HeadFirst PROVE HeadFirst'
  <2> SUFFICES ASSUME NEW r \in Batches, NEW i \in DOMAIN toWrite', NEW k \in DOMAIN toWrite',
                      toWrite'[i] = BodyOf[r][1]
               PROVE  /\ toWrite'[k] \in BodyCmds(r) => i <= k
                      /\ toWrite'[k] = LeadOf[r] => k < i
    BY DEF HeadFirst
  <2>1. /\ f[i] \in 1..Len(toWrite) /\ toWrite[f[i]] = BodyOf[r][1]
        /\ f[k] \in 1..Len(toWrite) /\ toWrite[f[k]] = toWrite'[k]
    BY <1>1, <1>2
  <2>2. /\ toWrite'[k] \in BodyCmds(r) => f[i] <= f[k]
        /\ toWrite'[k] = LeadOf[r] => f[k] < f[i]
    BY <1>1, <1>7, <2>1 DEF HeadFirst
  <2>3. f[k] < f[i] => k < i
    BY <1>1, <1>3, <2>1
  <2> QED BY <1>4, <2>2, <2>3
<1> QED BY <1>5, <1>6, <1>7

-----------------------------------------------------------------------------
(* Commands enter the queue.                                               *)

(* The positions of s \o t \o u, where s and u are the parts of the queue  *)
(* in front of and behind position k.                                      *)
LEMMA InsertIndex ==
    ASSUME toWrite \in Seq(Cmd), NEW k \in 0..Len(toWrite), NEW t \in Seq(Cmd),
           toWrite' = SubSeq(toWrite, 1, k) \o t \o SubSeq(toWrite, k + 1, Len(toWrite))
    PROVE  /\ toWrite' \in Seq(Cmd)
           /\ DOMAIN toWrite' = 1..(Len(toWrite) + Len(t))
           /\ \A i \in 1..k : toWrite'[i] = toWrite[i]
           /\ \A i \in 1..Len(t) : toWrite'[k + i] = t[i]
           /\ \A i \in (k + 1)..Len(toWrite) : toWrite'[i + Len(t)] = toWrite[i]
<1> DEFINE s == SubSeq(toWrite, 1, k)
           u == SubSeq(toWrite, k + 1, Len(toWrite))
           v == s \o t
<1>1. Len(toWrite) \in Nat /\ Len(t) \in Nat /\ k \in Nat
  OBVIOUS
<1>2. s \in Seq(Cmd) /\ Len(s) = k /\ \A i \in 1..k : s[i] = toWrite[i]
  BY <1>1
<1>3. /\ u \in Seq(Cmd) /\ Len(u) = Len(toWrite) - k
      /\ \A i \in 1..(Len(toWrite) - k) : u[i] = toWrite[k + i]
  BY SuffixIndex
<1> HIDE DEF s, u
<1>4. /\ v \in Seq(Cmd) /\ Len(v) = Len(s) + Len(t)
      /\ \A i \in 1..Len(s) : v[i] = s[i]
      /\ \A i \in 1..Len(t) : v[Len(s) + i] = t[i]
  <2>1. s \in Seq(Cmd) /\ t \in Seq(Cmd)
    BY <1>2
  <2> QED BY ONLY <2>1, ConcatIndex, SMTT(30) DEF v
<1>5. toWrite' = v \o u
  BY DEF s, u
<1> HIDE DEF v
<1>6. /\ toWrite' \in Seq(Cmd)
      /\ DOMAIN toWrite' = 1..(Len(v) + Len(u))
      /\ \A i \in 1..Len(v) : toWrite'[i] = v[i]
      /\ \A i \in 1..Len(u) : toWrite'[Len(v) + i] = u[i]
  <2>1. v \in Seq(Cmd) /\ u \in Seq(Cmd)
    BY <1>3, <1>4
  <2> QED BY ONLY <1>5, <2>1, ConcatIndex, SMTT(30)
<1>7. DOMAIN toWrite' = 1..(Len(toWrite) + Len(t))
  <2>1. Len(v) + Len(u) = Len(toWrite) + Len(t)
    BY <1>1, <1>2, <1>3, <1>4
  <2> QED BY <1>6, <2>1
<1>8. ASSUME NEW i \in 1..k PROVE toWrite'[i] = toWrite[i]
  <2>1. i \in 1..Len(s) /\ i \in 1..Len(v)
    BY <1>1, <1>2, <1>4
  <2> QED BY <1>2, <1>4, <1>6, <2>1
<1>9. ASSUME NEW i \in 1..Len(t) PROVE toWrite'[k + i] = t[i]
  <2>1. Len(s) + i \in 1..Len(v)
    BY <1>1, <1>2, <1>4
  <2> QED BY <1>2, <1>4, <1>6, <2>1
<1>10. ASSUME NEW i \in (k + 1)..Len(toWrite) PROVE toWrite'[i + Len(t)] = toWrite[i]
  <2>1. /\ i - k \in 1..Len(u) /\ i - k \in 1..(Len(toWrite) - k)
        /\ Len(v) + (i - k) = i + Len(t) /\ k + (i - k) = i
    BY <1>1, <1>2, <1>3, <1>4
  <2>2. toWrite'[Len(v) + (i - k)] = u[i - k] /\ u[i - k] = toWrite[k + (i - k)]
    BY <1>3, <1>6, <2>1
  <2> QED BY <2>1, <2>2
<1> QED BY <1>6, <1>7, <1>8, <1>9, <1>10

(* The queue q is the queue s with the block t inserted: f says where its  *)
(* commands were in s, or is 0 at the positions of the block.              *)
InsertedIn(q, s, t, f) ==
    /\ f \in [DOMAIN q -> {0} \cup DOMAIN s]
    /\ \A i \in DOMAIN q : IF f[i] = 0 THEN q[i] \in Elements(t) ELSE q[i] = s[f[i]]
    /\ \A i, k \in DOMAIN q : i < k /\ f[i] # 0 /\ f[k] # 0 => f[i] < f[k]
    /\ \A i, k \in DOMAIN q : f[i] = 0 /\ f[k] = 0 => \A j \in i..k : f[j] = 0

PlaceOf(q, k, b) ==
    [i \in DOMAIN q |-> IF i <= k THEN i ELSE IF i <= k + b THEN 0 ELSE i - b]

(* addToHead, addToTail and addAfterNode insert a block. *)
LEMMA InsertPlaces ==
    ASSUME toWrite \in Seq(Cmd), NEW k \in 0..Len(toWrite), NEW t \in Seq(Cmd),
           toWrite' = SubSeq(toWrite, 1, k) \o t \o SubSeq(toWrite, k + 1, Len(toWrite))
    PROVE  InsertedIn(toWrite', toWrite, t, PlaceOf(toWrite', k, Len(t)))
<1> DEFINE n == Len(toWrite)
           b == Len(t)
           q == toWrite'
           f == PlaceOf(q, k, b)
<1>1. n \in Nat /\ b \in Nat /\ k \in Nat /\ k <= n /\ DOMAIN toWrite = 1..n /\ DOMAIN t = 1..b
  OBVIOUS
<1>2. /\ DOMAIN q = 1..(n + b)
      /\ \A i \in 1..k : q[i] = toWrite[i]
      /\ \A i \in 1..b : q[k + i] = t[i]
      /\ \A i \in (k + 1)..n : q[i + b] = toWrite[i]
  BY InsertIndex
<1> HIDE DEF n, b, q
<1>3. \A i \in 1..(n + b) : f[i] = IF i <= k THEN i ELSE IF i <= k + b THEN 0 ELSE i - b
  BY <1>2 DEF PlaceOf
<1>4. f \in [DOMAIN q -> {0} \cup DOMAIN toWrite]
  <2>1. \A i \in 1..(n + b) : f[i] \in {0} \cup (1..n)
    BY ONLY <1>1, <1>3, k \in Nat, n \in Nat, b \in Nat
  <2> QED BY <1>1, <1>2, <2>1 DEF PlaceOf
<1>5. ASSUME NEW i \in DOMAIN q
      PROVE  IF f[i] = 0 THEN q[i] \in Elements(t) ELSE q[i] = toWrite[f[i]]
  <2>1. CASE i <= k
    <3>1. i \in 1..k /\ f[i] = i /\ f[i] # 0
      BY ONLY <1>1, <1>2, <1>3, <1>5, <2>1
    <3> QED BY ONLY <1>2, <3>1
  <2>2. CASE i > k /\ i <= k + b
    <3>1. i - k \in 1..b /\ f[i] = 0 /\ k + (i - k) = i
      BY ONLY <1>1, <1>2, <1>3, <1>5, <2>2
    <3>2. q[i] = t[i - k]
      BY ONLY <1>2, <3>1
    <3> QED BY ONLY <1>1, <3>1, <3>2 DEF Elements
  <2>3. CASE i > k + b
    <3>1. i - b \in (k + 1)..n /\ f[i] = i - b /\ (i - b) + b = i /\ f[i] # 0
      BY ONLY <1>1, <1>2, <1>3, <1>5, <2>3
    <3>2. q[(i - b) + b] = toWrite[i - b]
      BY ONLY <1>2, <3>1
    <3> QED BY ONLY <3>1, <3>2
  <2>4. i \in Nat
    BY ONLY <1>2, <1>1, <1>5
  <2> QED BY ONLY <1>1, <2>1, <2>2, <2>3, <2>4
<1>6. \A i, j \in DOMAIN q : i < j /\ f[i] # 0 /\ f[j] # 0 => f[i] < f[j]
  BY ONLY <1>1, <1>2, <1>3
<1>7. \A i, j \in DOMAIN q : f[i] = 0 /\ f[j] = 0 => \A m \in i..j : f[m] = 0
  <2> SUFFICES ASSUME NEW i \in DOMAIN q, NEW j \in DOMAIN q, f[i] = 0, f[j] = 0, NEW m \in i..j
               PROVE  f[m] = 0
    OBVIOUS
  <2>0. i \in 1..(n + b) /\ j \in 1..(n + b)
    BY <1>2
  <2>1. i > k /\ j <= k + b
    BY ONLY <1>1, <1>3, f[i] = 0, f[j] = 0, <2>0
  <2>2. m \in 1..(n + b) /\ m > k /\ m <= k + b
    BY ONLY <1>1, <2>0, <2>1, m \in i..j
  <2> QED BY ONLY <1>1, <1>3, <2>2
<1> QED BY ONLY <1>4, <1>5, <1>6, <1>7 DEF InsertedIn, q, b, n

(* A block of one new chain, inserted where no chain is cut and in front   *)
(* of no started chain, leaves every chain whole.                          *)
LEMMA InsertWhole ==
    ASSUME toWrite \in Seq(Cmd), toWrite' \in Seq(Cmd), NEW t, NEW f,
           InsertedIn(toWrite', toWrite, t, f),
           UNCHANGED <<log, conn, chainInExecution>>,
           QueueWhole, StartedInFront,
           \A x, y \in Elements(t) : ChainOf[x] = ChainOf[y],
           \A x \in Elements(t) : /\ \A j \in DOMAIN toWrite : ~SameChain(toWrite[j], x)
                                  /\ \A j \in DOMAIN log : ~SameChain(log[j].cmd, x),
           \A i, j, m \in DOMAIN toWrite' :
              /\ i < j /\ j < m /\ f[i] # 0 /\ f[j] = 0 /\ f[m] # 0 =>
                   ~SameChain(toWrite[f[i]], toWrite[f[m]])
              /\ j < m /\ f[j] = 0 /\ f[m] # 0 =>
                   \A g \in DOMAIN log : ~SameChain(log[g].cmd, toWrite[f[m]])
    PROVE  QueueWhole' /\ StartedInFront'
<1>1. /\ DOMAIN toWrite = 1..Len(toWrite) /\ Len(toWrite) \in Nat
      /\ DOMAIN toWrite' = 1..Len(toWrite') /\ Len(toWrite') \in Nat
  OBVIOUS
<1>2. ASSUME NEW i \in DOMAIN toWrite'
      PROVE  \/ f[i] = 0 /\ toWrite'[i] \in Elements(t)
             \/ f[i] # 0 /\ f[i] \in DOMAIN toWrite /\ toWrite'[i] = toWrite[f[i]]
  BY DEF InsertedIn
<1>3. \A i, k \in DOMAIN toWrite' : i <= k /\ f[i] # 0 /\ f[k] # 0 => f[i] <= f[k]
  <2> SUFFICES ASSUME NEW i \in DOMAIN toWrite', NEW k \in DOMAIN toWrite',
                      i <= k, f[i] # 0, f[k] # 0
               PROVE  f[i] <= f[k]
    OBVIOUS
  <2>1. f[i] \in Nat /\ f[k] \in Nat /\ i \in Nat /\ k \in Nat
    BY <1>1, <1>2
  <2>2. i < k => f[i] < f[k]
    BY DEF InsertedIn
  <2> QED BY ONLY <2>1, <2>2, i <= k
<1>4. QueueWhole'
  <2> SUFFICES ASSUME NEW p \in DOMAIN toWrite', NEW q \in DOMAIN toWrite',
                      SameChain(toWrite'[p], toWrite'[q]), NEW m \in p..q
               PROVE  ChainOf[toWrite'[m]] = ChainOf[toWrite'[p]]
    BY DEF QueueWhole, SameChain
  <2>0. m \in DOMAIN toWrite' /\ p <= m /\ m <= q /\ p \in Nat /\ q \in Nat /\ m \in Nat
    BY ONLY <1>1, p \in DOMAIN toWrite', q \in DOMAIN toWrite', m \in p..q
  <2>1. SameChain(toWrite'[q], toWrite'[p])
    BY DEF SameChain
  <2>2. CASE f[p] = 0 /\ f[q] = 0
    <3>1. f[m] = 0
      BY <2>2 DEF InsertedIn
    <3> QED BY <1>2, <2>0, <2>2, <3>1
  <2>3. CASE f[p] = 0 /\ f[q] # 0
    BY <1>2, <2>1, <2>3
  <2>4. CASE f[p] # 0 /\ f[q] = 0
    BY <1>2, <2>4
  <2>5. CASE f[p] # 0 /\ f[q] # 0
    <3>1. /\ f[p] \in DOMAIN toWrite /\ toWrite'[p] = toWrite[f[p]]
          /\ f[q] \in DOMAIN toWrite /\ toWrite'[q] = toWrite[f[q]]
      BY <1>2, <2>5
    <3>2. f[m] # 0
      <4> SUFFICES ASSUME f[m] = 0 PROVE FALSE
        OBVIOUS
      <4>1. p < m /\ m < q
        BY ONLY <2>0, <2>5, f[m] = 0
      <4> QED BY <2>0, <2>5, <3>1, <4>1
    <3>3. f[m] \in DOMAIN toWrite /\ toWrite'[m] = toWrite[f[m]]
      BY <1>2, <2>0, <3>2
    <3>4. f[p] <= f[m] /\ f[m] <= f[q]
      BY <1>3, <2>0, <2>5, <3>2
    <3>5. f[m] \in f[p]..f[q]
      BY ONLY <1>1, <3>1, <3>3, <3>4
    <3> QED BY <3>1, <3>3, <3>5 DEF QueueWhole
  <2> QED BY <2>2, <2>3, <2>4, <2>5
<1>5. StartedInFront'
  <2> SUFFICES ASSUME NEW m \in DOMAIN toWrite', NEW i \in DOMAIN log,
                      SameChain(log[i].cmd, toWrite'[m])
               PROVE  /\ chainInExecution = ChainOf[toWrite'[m]]
                      /\ log[i].conn = conn
                      /\ \A j \in 1..m : ChainOf[toWrite'[j]] = ChainOf[toWrite'[m]]
                      /\ \A j \in i..Len(log) : ChainOf[log[j].cmd] = ChainOf[toWrite'[m]]
    BY DEF StartedInFront, SameChain
  <2>1. f[m] # 0
    BY <1>2
  <2>2. f[m] \in DOMAIN toWrite /\ toWrite'[m] = toWrite[f[m]]
    BY <1>2, <2>1
  <2>3. /\ chainInExecution = ChainOf[toWrite[f[m]]]
        /\ log[i].conn = conn
        /\ \A j \in 1..f[m] : ChainOf[toWrite[j]] = ChainOf[toWrite[f[m]]]
        /\ \A j \in i..Len(log) : ChainOf[log[j].cmd] = ChainOf[toWrite[f[m]]]
    BY <2>2 DEF StartedInFront
  <2>4. ASSUME NEW j \in 1..m PROVE ChainOf[toWrite'[j]] = ChainOf[toWrite'[m]]
    <3>1. j \in DOMAIN toWrite' /\ j <= m /\ j \in Nat /\ m \in Nat
      BY ONLY <1>1, m \in DOMAIN toWrite', j \in 1..m
    <3>2. f[j] # 0
      <4> SUFFICES ASSUME f[j] = 0 PROVE FALSE
        OBVIOUS
      <4>1. j < m
        BY ONLY <2>1, <3>1, f[j] = 0
      <4> QED BY <2>1, <2>2, <3>1, <4>1
    <3>3. f[j] \in DOMAIN toWrite /\ toWrite'[j] = toWrite[f[j]]
      BY <1>2, <3>1, <3>2
    <3>4. f[j] <= f[m]
      BY <1>3, <2>1, <3>1, <3>2
    <3>5. f[j] \in 1..f[m]
      BY ONLY <1>1, <2>2, <3>3, <3>4
    <3> QED BY <2>2, <2>3, <3>3, <3>5
  <2> QED BY <2>2, <2>3, <2>4
<1> QED BY <1>4, <1>5

-----------------------------------------------------------------------------
(* Chains stay whole.                                                      *)

(* The unwritten tail of the chain in execution is all that is queued of a *)
(* started chain, and cutting the queue behind it cuts no chain.           *)
LEMMA TailCut ==
    ASSUME ChainInv, NEW k \in 0..Len(toWrite), TailOfChain(k), NEW m \in (k + 1)..Len(toWrite)
    PROVE  /\ \A i \in 1..k : ~SameChain(toWrite[i], toWrite[m])
           /\ \A g \in DOMAIN log : ~SameChain(log[g].cmd, toWrite[m])
<1>1. toWrite \in Seq(Cmd)
  BY DEF ChainInv, LogInv, PromiseInv, TypeOK
<1>2. /\ DOMAIN toWrite = 1..Len(toWrite) /\ Len(toWrite) \in Nat /\ k \in Nat /\ m \in Nat
      /\ k < Len(toWrite) /\ m \in DOMAIN toWrite
  BY <1>1
<1>3. ASSUME NEW i \in 1..k, SameChain(toWrite[i], toWrite[m]) PROVE FALSE
  <2>1. chainInExecution # NoChain
    BY <1>2 DEF TailOfChain
  <2>2. /\ ChainOf[toWrite[i]] = chainInExecution
        /\ ChainOf[toWrite[k + 1]] # chainInExecution
    BY <1>2, <2>1 DEF TailOfChain
  <2>3. i \in DOMAIN toWrite /\ k + 1 \in i..m
    BY ONLY <1>2, i \in 1..k, m \in (k + 1)..Len(toWrite)
  <2>4. ChainOf[toWrite[k + 1]] = ChainOf[toWrite[i]]
    BY <1>2, <1>3, <2>3 DEF ChainInv, QueueWhole
  <2> QED BY <2>2, <2>4
<1>4. ASSUME NEW g \in DOMAIN log, SameChain(log[g].cmd, toWrite[m]) PROVE FALSE
  <2>1. /\ chainInExecution = ChainOf[toWrite[m]]
        /\ \A j \in 1..m : ChainOf[toWrite[j]] = ChainOf[toWrite[m]]
    BY <1>2, <1>4 DEF ChainInv, StartedInFront
  <2>2. chainInExecution # NoChain
    BY <1>4, <2>1 DEF SameChain
  <2>3. ChainOf[toWrite[k + 1]] # chainInExecution
    BY <1>2, <2>2 DEF TailOfChain
  <2>4. k + 1 \in 1..m
    BY ONLY <1>2, m \in (k + 1)..Len(toWrite)
  <2> QED BY <2>1, <2>3, <2>4
<1> QED BY <1>3, <1>4

(* The chain of a request that is not submitted yet is not the chain of    *)
(* anything queued or written.                                             *)
LEMMA NewChain ==
    ASSUME RequestAssumption, ChainInv, NEW r \in Req, Unused(r), NEW x \in CmdsOf(r)
    PROVE  /\ \A j \in DOMAIN toWrite : ~SameChain(toWrite[j], x)
           /\ \A j \in DOMAIN log : ~SameChain(log[j].cmd, x)
<1>1. ASSUME NEW c \in Cmd, outcome[c] # "unused" PROVE ~SameChain(c, x)
  <2>1. PICK s \in Req : c \in CmdsOf(s)
    BY DEF RequestAssumption
  <2>2. s # r
    BY <1>1, <2>1 DEF Unused
  <2>3. ChainOf[c] = ChainOf[x] => ChainOf[c] = NoChain
    BY <2>1, <2>2 DEF RequestAssumption
  <2> QED BY <2>3 DEF SameChain
<1>2. ASSUME NEW j \in DOMAIN toWrite PROVE toWrite[j] \in Cmd /\ outcome[toWrite[j]] # "unused"
  <2>1. toWrite[j] \in Pending
    BY DEF ChainInv, LogInv, PromiseInv, Elements
  <2> QED BY <2>1 DEF Pending
<1>3. ASSUME NEW j \in DOMAIN log PROVE log[j].cmd \in Cmd /\ outcome[log[j].cmd] # "unused"
  BY LogTyped DEF ChainInv, LogInv
<1> QED BY <1>1, <1>2, <1>3

(* What is admitted of a request is of one chain. *)
LEMMA OneChain ==
    ASSUME QueueAssumption, RequestAssumption, TypeOK, NEW r \in Req,
           NEW x \in Elements(AdmittedLead(r)) \cup Elements(AdmittedBody(r)),
           NEW y \in Elements(AdmittedLead(r)) \cup Elements(AdmittedBody(r))
    PROVE  ChainOf[x] = ChainOf[y]
<1>1. x \in CmdsOf(r) /\ y \in CmdsOf(r)
  BY AdmittedProperties
<1>2. CASE KindOf[r] \in {"pipeline", "multi"} \/ LeadOf[r] # NoLead
  BY <1>1, <1>2 DEF RequestAssumption
<1>3. CASE KindOf[r] \in {"command", "internal"} /\ LeadOf[r] = NoLead
  <2>1. CmdsOf(r) = BodyCmds(r)
    BY <1>3 DEF CmdsOf
  <2>2. BodyOf[r] \in Seq(Cmd) /\ Len(BodyOf[r]) = 1
    BY <1>3 DEF RequestAssumption, QueueAssumption
  <2>3. BodyCmds(r) = {BodyOf[r][1]}
    BY <2>2 DEF BodyCmds
  <2> QED BY <1>1, <2>1, <2>3
<1> QED BY <1>2, <1>3 DEF QueueAssumption

(* Appending is inserting behind everything. *)
LEMMA AppendPlaces ==
    ASSUME toWrite \in Seq(Cmd), NEW t \in Seq(Cmd), toWrite' = toWrite \o t
    PROVE  /\ toWrite' \in Seq(Cmd)
           /\ InsertedIn(toWrite', toWrite, t, PlaceOf(toWrite', Len(toWrite), Len(t)))
           /\ \A j, m \in DOMAIN toWrite' :
                LET f == PlaceOf(toWrite', Len(toWrite), Len(t))
                IN  j < m /\ f[j] = 0 => f[m] = 0
<1> DEFINE n == Len(toWrite)
           q == toWrite \o t
<1>1. n \in Nat /\ n \in 0..n /\ Len(t) \in Nat /\ q \in Seq(Cmd) /\ DOMAIN q = 1..(n + Len(t))
  OBVIOUS
<1>2. SubSeq(toWrite, 1, n) = toWrite /\ SubSeq(toWrite, n + 1, n) = <<>>
  OBVIOUS
<1>3. q \o <<>> = q
  BY <1>1
<1>4. toWrite' = SubSeq(toWrite, 1, n) \o t \o SubSeq(toWrite, n + 1, n)
  BY <1>2, <1>3
<1>5. InsertedIn(toWrite', toWrite, t, PlaceOf(toWrite', n, Len(t)))
  BY <1>1, <1>4, InsertPlaces
<1>6. toWrite' = q
  OBVIOUS
<1> HIDE DEF q, n
<1>7. \A j, m \in DOMAIN q : j < m /\ PlaceOf(q, n, Len(t))[j] = 0 => PlaceOf(q, n, Len(t))[m] = 0
  <2> DEFINE b == Len(t)
  <2> HIDE DEF b
  <2>1. b \in Nat /\ DOMAIN q = 1..(n + b)
    BY <1>1 DEF b
  <2>2. \A j, m \in DOMAIN q : j < m /\ PlaceOf(q, n, b)[j] = 0 => PlaceOf(q, n, b)[m] = 0
    BY ONLY <1>1, <2>1 DEF PlaceOf
  <2> QED BY <2>2 DEF b
<1> QED BY <1>1, <1>5, <1>6, <1>7 DEF n

(* A step that writes nothing leaves the history alone. *)
LEMMA HistoryKept ==
    ASSUME ChainInv, LogInv', QueueWhole', StartedInFront', log' = log,
           chainInExecution' \in {chainInExecution, NoChain}
    PROVE  ChainInv'
<1>1. ExecutionWritten'
  BY DEF ChainInv, ExecutionWritten
<1>2. ChainWhole'
  BY DEF ChainInv, ChainWhole
<1> QED BY <1>1, <1>2 DEF ChainInv

(* addCommand and addBatch append a chain that is new. *)
LEMMA AppendChain ==
    ASSUME QueueAssumption, RequestAssumption, ChainInv, LogInv', NEW r \in Req, Unused(r),
           NEW t \in Seq(Cmd), toWrite' = toWrite \o t,
           Elements(t) \subseteq Elements(AdmittedLead(r)) \cup Elements(AdmittedBody(r)),
           UNCHANGED <<log, conn, chainInExecution>>
    PROVE  ChainInv'
<1> DEFINE f == PlaceOf(toWrite', Len(toWrite), Len(t))
<1>1. toWrite \in Seq(Cmd) /\ TypeOK
  BY DEF ChainInv, LogInv, PromiseInv, TypeOK
<1>2. /\ toWrite' \in Seq(Cmd)
      /\ InsertedIn(toWrite', toWrite, t, f)
      /\ \A j, m \in DOMAIN toWrite' : j < m /\ f[j] = 0 => f[m] = 0
  BY <1>1, AppendPlaces
<1>3. \A x, y \in Elements(t) : ChainOf[x] = ChainOf[y]
  BY <1>1, OneChain
<1>4. \A x \in Elements(t) : /\ \A j \in DOMAIN toWrite : ~SameChain(toWrite[j], x)
                             /\ \A j \in DOMAIN log : ~SameChain(log[j].cmd, x)
  <2>1. Elements(t) \subseteq CmdsOf(r)
    BY <1>1, AdmittedProperties
  <2> QED BY <2>1, NewChain
<1> HIDE DEF f
<1>5. QueueWhole /\ StartedInFront
  BY DEF ChainInv
<1>6. ASSUME NEW i \in DOMAIN toWrite', NEW j \in DOMAIN toWrite', NEW m \in DOMAIN toWrite'
      PROVE  /\ i < j /\ j < m /\ f[i] # 0 /\ f[j] = 0 /\ f[m] # 0 =>
                  ~SameChain(toWrite[f[i]], toWrite[f[m]])
             /\ j < m /\ f[j] = 0 /\ f[m] # 0 =>
                  \A g \in DOMAIN log : ~SameChain(log[g].cmd, toWrite[f[m]])
  BY ONLY <1>2, <1>6
<1>7. UNCHANGED <<log, conn, chainInExecution>>
  OBVIOUS
<1>8. QueueWhole' /\ StartedInFront'
  BY ONLY <1>1, <1>2, <1>3, <1>4, <1>5, <1>6, <1>7, InsertWhole
<1> QED BY <1>7, <1>8, HistoryKept

(* sendCommand and _executeMulti: the commands of a request are added      *)
(* behind the others, or not at all.                                       *)
LEMMA AddChain ==
    ASSUME QueueAssumption, RequestAssumption, ChainInv, LogInv', NEW r \in Req,
           AddRequest(r) \/ AddAborted(r)
    PROVE  ChainInv'
<1>0. TypeOK /\ toWrite \in Seq(Cmd)
  BY DEF ChainInv, LogInv, PromiseInv, TypeOK
<1>1. UNCHANGED <<log, conn, chainInExecution>> /\ Unused(r)
  BY DEF AddRequest, AddAborted, wireVars
<1>2. CASE AddRequest(r)
  <2> DEFINE lead == AdmittedLead(r)
             body == AdmittedBody(r)
  <2>1. lead \in Seq(Cmd) /\ body \in Seq(Cmd)
    BY <1>0, AdmittedProperties
  <2>2. toWrite' = toWrite \o lead \o body
    BY <1>2 DEF AddRequest, AdmittedBody
  <2> HIDE DEF lead, body
  <2>3. toWrite' = toWrite \o (lead \o body) /\ lead \o body \in Seq(Cmd)
    BY <1>0, <2>1, <2>2, SMTT(60)
  <2>4. Elements(lead \o body) = Elements(lead) \cup Elements(body)
    BY <2>1, ElementsConcat
  <2> QED BY <1>1, <2>3, <2>4, AppendChain DEF lead, body
<1>3. CASE AddAborted(r)
  <2>1. AdmittedLead(r) \in Seq(Cmd) /\ toWrite' = toWrite \o AdmittedLead(r)
    BY <1>0, <1>3, AdmittedProperties DEF AddAborted
  <2> QED BY <1>1, <2>1, AppendChain
<1> QED BY <1>2, <1>3

(* #insertAtFront puts a command in front, but behind the unwritten tail   *)
(* of the chain in execution.                                              *)
LEMMA AsapChain ==
    ASSUME QueueAssumption, RequestAssumption, ChainInv, LogInv', NEW r \in Req, AddAsap(r)
    PROVE  ChainInv'
<1> DEFINE c == BodyOf[r][1]
<1>1. toWrite \in Seq(Cmd) /\ toWrite' \in Seq(Cmd)
  BY DEF ChainInv, LogInv, PromiseInv, TypeOK
<1>2. UNCHANGED <<log, conn, chainInExecution>> /\ Unused(r)
  BY DEF AddAsap, wireVars
<1>3. c \in Cmd /\ c \in CmdsOf(r)
  BY DEF CmdsOf, BodyCmds, QueueAssumption, RequestAssumption
<1>4. CASE toWrite' = toWrite
  <2>1. QueueWhole' /\ StartedInFront'
    BY <1>2, <1>4 DEF ChainInv, QueueWhole, StartedInFront, SameChain
  <2> QED BY <1>2, <2>1, HistoryKept
<1>5. CASE toWrite' # toWrite
  <2>1. PICK k \in 0..Len(toWrite) :
            /\ TailOfChain(k)
            /\ toWrite' = SubSeq(toWrite, 1, k) \o <<c>> \o SubSeq(toWrite, k + 1, Len(toWrite))
    BY <1>5 DEF AddAsap
  <2> DEFINE t == <<c>>
             f == PlaceOf(toWrite', k, 1)
  <2>2. t \in Seq(Cmd) /\ Len(t) = 1 /\ Elements(t) = {c}
    BY <1>3, Singleton
  <2> HIDE DEF t, c
  <2>3. InsertedIn(toWrite', toWrite, t, f)
    BY <1>1, <2>1, <2>2, InsertPlaces DEF t
  <2>4. ASSUME NEW m \in (k + 1)..Len(toWrite)
        PROVE  /\ \A i \in 1..k : ~SameChain(toWrite[i], toWrite[m])
               /\ \A g \in DOMAIN log : ~SameChain(log[g].cmd, toWrite[m])
    BY <2>1, TailCut
  <2>5. ASSUME NEW i \in DOMAIN toWrite', NEW j \in DOMAIN toWrite', i < j
        PROVE  /\ f[i] = 0 /\ f[j] # 0 => f[j] \in (k + 1)..Len(toWrite)
               /\ f[i] # 0 /\ f[j] = 0 => f[i] \in 1..k
    <3>1. k \in Nat /\ Len(toWrite) \in Nat
      BY <1>1
    <3>2. toWrite' = SubSeq(toWrite, 1, k) \o t \o SubSeq(toWrite, k + 1, Len(toWrite))
      BY <2>1 DEF t
    <3>3. DOMAIN toWrite' = 1..(Len(toWrite) + Len(t))
      BY ONLY <1>1, <2>2, <3>2, k \in 0..Len(toWrite), InsertIndex
    <3>4. DOMAIN toWrite' = 1..(Len(toWrite) + 1)
      BY ONLY <2>2, <3>3
    <3> QED BY ONLY <2>5, <3>1, <3>4 DEF PlaceOf
  <2> HIDE DEF f
  <2>6. ASSUME NEW i \in DOMAIN toWrite', NEW j \in DOMAIN toWrite', NEW m \in DOMAIN toWrite'
        PROVE  /\ i < j /\ j < m /\ f[i] # 0 /\ f[j] = 0 /\ f[m] # 0 =>
                    ~SameChain(toWrite[f[i]], toWrite[f[m]])
               /\ j < m /\ f[j] = 0 /\ f[m] # 0 =>
                    \A g \in DOMAIN log : ~SameChain(log[g].cmd, toWrite[f[m]])
    BY <2>4, <2>5
  <2>7. /\ \A x, y \in Elements(t) : ChainOf[x] = ChainOf[y]
        /\ \A x \in Elements(t) : /\ \A j \in DOMAIN toWrite : ~SameChain(toWrite[j], x)
                                  /\ \A j \in DOMAIN log : ~SameChain(log[j].cmd, x)
    BY <1>2, <1>3, <2>2, NewChain
  <2>8. QueueWhole /\ StartedInFront
    BY DEF ChainInv
  <2>9. QueueWhole' /\ StartedInFront'
    BY ONLY <1>1, <1>2, <2>3, <2>6, <2>7, <2>8, InsertWhole
  <2> QED BY <1>2, <2>9, HistoryKept
<1> QED BY <1>4, <1>5

(* #rejectCommand, and the encoder's throw, take commands out. *)
LEMMA RemoveChain ==
    ASSUME ChainInv, LogInv',
           \/ \E c \in Cmd, l \in Listener : FireListener(c, l)
           \/ WriteUnencodable
    PROVE  ChainInv'
<1>1. toWrite \in Seq(Cmd) /\ toWrite' \in Seq(Cmd)
  BY DEF ChainInv, LogInv, PromiseInv, TypeOK
<1>2. UNCHANGED <<log, conn, chainInExecution>>
  BY DEF FireListener, WriteUnencodable, wireVars
<1>3. CASE toWrite' = toWrite
  <2>1. QueueWhole' /\ StartedInFront'
    BY <1>2, <1>3 DEF ChainInv, QueueWhole, StartedInFront, SameChain
  <2> QED BY <1>2, <2>1, HistoryKept
<1>4. ASSUME NEW f, LeftOf(toWrite', toWrite, f) PROVE ChainInv'
  <2>1. QueueWhole' /\ StartedInFront'
    BY <1>1, <1>2, <1>4, LeftWhole DEF ChainInv
  <2> QED BY <1>2, <2>1, HistoryKept
<1>5. CASE WriteUnencodable
  <2>1. toWrite # <<>> /\ toWrite' = Tail(toWrite)
    BY <1>5 DEF WriteUnencodable
  <2> QED BY <1>1, <1>4, <2>1, TailLeft
<1>6. ASSUME NEW i \in DOMAIN toWrite, RejectCommand(i) PROVE ChainInv'
  <2>1. PICK j \in i..Len(toWrite) :
            toWrite' = SubSeq(toWrite, 1, i - 1) \o SubSeq(toWrite, j + 1, Len(toWrite))
    BY <1>6 DEF RejectCommand
  <2>2. i \in 1..(Len(toWrite) + 1) /\ j \in (i - 1)..Len(toWrite)
    BY <1>1
  <2> QED BY <1>1, <1>4, <2>1, <2>2, CutLeft
<1> QED BY <1>3, <1>5, <1>6 DEF FireListener

(* The history after a command is written. *)
LEMMA WriteHistory ==
    ASSUME LogInv, Write
    PROVE  /\ DOMAIN log = 1..Len(log) /\ Len(log) \in Nat
           /\ Len(log') = Len(log) + 1 /\ DOMAIN log' = 1..(Len(log) + 1)
           /\ \A i \in 1..Len(log) : log'[i] = log[i]
           /\ log'[Len(log) + 1].cmd = toWrite[1] /\ log'[Len(log) + 1].conn = conn
           /\ toWrite' = Tail(toWrite) /\ toWrite \in Seq(Cmd) /\ toWrite # <<>>
           /\ conn' = conn /\ chainInExecution' = ChainOf[toWrite[1]]
<1> DEFINE e == [cmd |-> toWrite[1], conn |-> conn]
<1>1. toWrite \in Seq(Cmd) /\ toWrite # <<>> /\ log \in Seq([cmd : Cmd, conn : 1..MaxConn])
  BY DEF LogInv, PromiseInv, TypeOK, Write
<1>2. Head(toWrite) = toWrite[1]
  BY <1>1
<1>3. /\ log' = Append(log, e) /\ toWrite' = Tail(toWrite)
      /\ conn' = conn /\ chainInExecution' = ChainOf[toWrite[1]]
  BY <1>2 DEF Write
<1>4. e.cmd = toWrite[1] /\ e.conn = conn
  OBVIOUS
<1> HIDE DEF e
<1>5. /\ DOMAIN log = 1..Len(log) /\ Len(log) \in Nat
      /\ Len(log') = Len(log) + 1 /\ DOMAIN log' = 1..(Len(log) + 1)
      /\ \A i \in 1..Len(log) : log'[i] = log[i]
      /\ log'[Len(log) + 1] = e
  BY ONLY <1>1, <1>3
<1> QED BY <1>1, <1>3, <1>4, <1>5

(* A command that is written continues the chain in execution, or starts   *)
(* one of which nothing was written.                                       *)
LEMMA WriteChain ==
    ASSUME ChainInv, LogInv', Write
    PROVE  ChainInv'
<1> DEFINE n == Len(log)
           c == toWrite[1]
<1>1. /\ DOMAIN log = 1..n /\ n \in Nat
      /\ Len(log') = n + 1 /\ DOMAIN log' = 1..(n + 1)
      /\ \A i \in 1..n : log'[i] = log[i]
      /\ log'[n + 1].cmd = c /\ log'[n + 1].conn = conn
      /\ toWrite' = Tail(toWrite) /\ toWrite \in Seq(Cmd) /\ toWrite # <<>>
      /\ conn' = conn /\ chainInExecution' = ChainOf[c]
  BY WriteHistory DEF ChainInv
<1>2. toWrite' \in Seq(Cmd)
  BY <1>1
<1>3. /\ Len(toWrite) \in Nat \ {0} /\ DOMAIN toWrite = 1..Len(toWrite)
      /\ DOMAIN toWrite' = 1..(Len(toWrite) - 1)
      /\ \A m \in 1..(Len(toWrite) - 1) : toWrite'[m] = toWrite[m + 1]
  BY <1>1
<1>4. QueueWhole'
  BY <1>1, <1>2, TailLeft, LeftWhole DEF ChainInv
<1>5. QueueWhole /\ StartedInFront /\ ChainWhole
  BY DEF ChainInv
<1> HIDE DEF n, c
<1>6. StartedInFront'
  <2> SUFFICES ASSUME NEW m \in DOMAIN toWrite', NEW i \in DOMAIN log',
                      SameChain(log'[i].cmd, toWrite'[m])
               PROVE  /\ chainInExecution' = ChainOf[toWrite'[m]]
                      /\ log'[i].conn = conn'
                      /\ \A j \in 1..m : ChainOf[toWrite'[j]] = ChainOf[toWrite'[m]]
                      /\ \A j \in i..Len(log') : ChainOf[log'[j].cmd] = ChainOf[toWrite'[m]]
    BY DEF StartedInFront, SameChain
  <2>1. /\ m \in Nat /\ m + 1 \in DOMAIN toWrite /\ 1 \in DOMAIN toWrite
        /\ toWrite'[m] = toWrite[m + 1]
    BY <1>3
  <2>2. (\A j \in 1..(m + 1) : ChainOf[toWrite[j]] = ChainOf[toWrite[m + 1]]) =>
          /\ chainInExecution' = ChainOf[toWrite'[m]]
          /\ ChainOf[c] = ChainOf[toWrite'[m]]
          /\ \A j \in 1..m : ChainOf[toWrite'[j]] = ChainOf[toWrite'[m]]
    <3> SUFFICES ASSUME \A j \in 1..(m + 1) : ChainOf[toWrite[j]] = ChainOf[toWrite[m + 1]]
                 PROVE  /\ chainInExecution' = ChainOf[toWrite'[m]]
                        /\ ChainOf[c] = ChainOf[toWrite'[m]]
                        /\ \A j \in 1..m : ChainOf[toWrite'[j]] = ChainOf[toWrite'[m]]
      OBVIOUS
    <3>1. 1 \in 1..(m + 1)
      BY <2>1
    <3>2. ASSUME NEW j \in 1..m PROVE ChainOf[toWrite'[j]] = ChainOf[toWrite'[m]]
      <4>1. j + 1 \in 1..(m + 1) /\ j \in 1..(Len(toWrite) - 1)
        BY <1>3, <2>1
      <4> QED BY <1>3, <2>1, <4>1
    <3> QED BY <1>1, <2>1, <3>1, <3>2 DEF c
  <2>3. CASE i = n + 1
    <3>1. SameChain(toWrite[1], toWrite[m + 1])
      BY <1>1, <2>1, <2>3 DEF c
    <3>2. \A j \in 1..(m + 1) : ChainOf[toWrite[j]] = ChainOf[toWrite[1]]
      BY <1>5, <2>1, <3>1 DEF QueueWhole
    <3>3. m + 1 \in 1..(m + 1)
      BY <2>1
    <3>4. \A j \in 1..(m + 1) : ChainOf[toWrite[j]] = ChainOf[toWrite[m + 1]]
      BY <3>2, <3>3
    <3>5. \A j \in i..Len(log') : j = n + 1
      BY <1>1, <2>3
    <3> QED BY <1>1, <2>2, <2>3, <3>4, <3>5
  <2>4. CASE i \in 1..n
    <3>1. SameChain(log[i].cmd, toWrite[m + 1])
      BY <1>1, <2>1, <2>4
    <3>2. /\ log[i].conn = conn
          /\ \A j \in 1..(m + 1) : ChainOf[toWrite[j]] = ChainOf[toWrite[m + 1]]
          /\ \A j \in i..n : ChainOf[log[j].cmd] = ChainOf[toWrite[m + 1]]
      BY <1>1, <1>5, <2>1, <2>4, <3>1 DEF StartedInFront, n
    <3>3. ASSUME NEW j \in i..Len(log') PROVE ChainOf[log'[j].cmd] = ChainOf[toWrite'[m]]
      <4>1. j = n + 1 \/ (j \in i..n /\ j \in 1..n)
        BY <1>1, <2>4
      <4> QED BY <1>1, <2>1, <2>2, <3>2, <4>1
    <3> QED BY <1>1, <2>2, <2>4, <3>2, <3>3
  <2> QED BY <1>1, <2>3, <2>4
<1>7. ExecutionWritten'
  <2>1. n + 1 \in DOMAIN log'
    BY <1>1
  <2> QED BY <1>1, <2>1 DEF ExecutionWritten
<1>8. ASSUME NEW i \in 1..n, SameChain(log[i].cmd, c)
      PROVE  log[i].conn = conn /\ \A j \in i..n : ChainOf[log[j].cmd] = ChainOf[c]
  <2>1. 1 \in DOMAIN toWrite
    BY <1>3
  <2> QED BY <1>1, <1>5, <1>8, <2>1 DEF StartedInFront, c, n
<1>9. ChainWhole'
  <2> SUFFICES ASSUME NEW i \in DOMAIN log', NEW k \in DOMAIN log',
                      SameChain(log'[i].cmd, log'[k].cmd)
               PROVE  /\ log'[i].conn = log'[k].conn
                      /\ \A j \in i..k : ChainOf[log'[j].cmd] = ChainOf[log'[i].cmd]
    BY DEF ChainWhole, SameChain
  <2>1. CASE i \in 1..n /\ k \in 1..n
    <3>1. \A j \in i..k : j \in 1..n
      BY <1>1, <2>1
    <3>2. /\ log[i].conn = log[k].conn
          /\ \A j \in i..k : ChainOf[log[j].cmd] = ChainOf[log[i].cmd]
      BY <1>1, <1>5, <2>1 DEF ChainWhole, SameChain
    <3> QED BY <1>1, <2>1, <3>1, <3>2
  <2>2. CASE i \in 1..n /\ k = n + 1
    <3>1. SameChain(log[i].cmd, c)
      BY <1>1, <2>2
    <3>2. log[i].conn = conn /\ \A j \in i..n : ChainOf[log[j].cmd] = ChainOf[c]
      BY <1>8, <2>2, <3>1
    <3>3. ASSUME NEW j \in i..k PROVE ChainOf[log'[j].cmd] = ChainOf[log'[i].cmd]
      <4>1. j = n + 1 \/ (j \in i..n /\ j \in 1..n)
        BY <1>1, <2>2
      <4>2. ChainOf[log'[i].cmd] = ChainOf[c]
        BY <1>1, <2>2, <3>1 DEF SameChain
      <4> QED BY <1>1, <3>2, <4>1, <4>2
    <3> QED BY <1>1, <2>2, <3>2, <3>3
  <2>3. CASE i = n + 1 /\ k \in 1..n
    <3>1. SameChain(log[k].cmd, c)
      BY <1>1, <2>3 DEF SameChain
    <3>2. log[k].conn = conn
      BY <1>8, <2>3, <3>1
    <3>3. i..k = {}
      BY <1>1, <2>3
    <3> QED BY <1>1, <2>3, <3>2, <3>3
  <2>4. CASE i = n + 1 /\ k = n + 1
    <3>1. \A j \in i..k : j = i
      BY <1>1, <2>4
    <3> QED BY <2>4, <3>1
  <2> QED BY <1>1, <2>1, <2>2, <2>3, <2>4
<1> QED BY <1>4, <1>6, <1>7, <1>9 DEF ChainInv

(* flushWaitingForReply takes the tail of the chain in execution with it,  *)
(* so that no started chain is left in the queue.                          *)
LEMMA LostChain ==
    ASSUME ChainInv, LogInv', ConnectionLost
    PROVE  ChainInv'
<1>1. toWrite \in Seq(Cmd) /\ toWrite' \in Seq(Cmd)
  BY DEF ChainInv, LogInv, PromiseInv, TypeOK
<1>2. PICK k \in 0..Len(toWrite) :
          TailOfChain(k) /\ toWrite' = SubSeq(toWrite, k + 1, Len(toWrite))
  BY DEF ConnectionLost, FlushWaitingForReply
<1>3. log' = log /\ chainInExecution' = NoChain
  BY DEF ConnectionLost, FlushWaitingForReply, NextConnection
<1>4. /\ Len(toWrite') = Len(toWrite) - k
      /\ \A m \in 1..(Len(toWrite) - k) : toWrite'[m] = toWrite[k + m]
  BY ONLY <1>1, <1>2, SuffixIndex
<1>5. /\ Len(toWrite) \in Nat /\ k \in Nat /\ DOMAIN toWrite = 1..Len(toWrite)
      /\ DOMAIN toWrite' = 1..(Len(toWrite) - k)
  BY ONLY <1>1, <1>4, k \in 0..Len(toWrite)
<1>6. LeftOf(toWrite', toWrite, [m \in DOMAIN toWrite' |-> k + m])
  BY ONLY <1>1, <1>2, DropLeft
<1>7. QueueWhole'
  BY <1>1, <1>6, LeftWhole DEF ChainInv
<1>8. ASSUME NEW m \in DOMAIN toWrite', NEW i \in DOMAIN log PROVE ~SameChain(log[i].cmd, toWrite'[m])
  <2>1. k + m \in (k + 1)..Len(toWrite) /\ toWrite'[m] = toWrite[k + m]
    BY <1>4, <1>5
  <2> QED BY <1>2, <2>1, TailCut
<1>9. StartedInFront'
  BY <1>3, <1>8 DEF StartedInFront, SameChain
<1> QED BY <1>3, <1>7, <1>9, HistoryKept

(* flushAll leaves nothing queued; what is in execution was written. *)
LEMMA ClosedChain ==
    ASSUME ChainInv, LogInv', ConnectionClosed
    PROVE  ChainInv'
<1>1. toWrite' = <<>> /\ log' = log /\ chainInExecution' = chainInExecution
  BY DEF ConnectionClosed, FlushAll, NextConnection
<1>2. QueueWhole' /\ StartedInFront'
  BY <1>1 DEF QueueWhole, StartedInFront
<1> QED BY <1>1, <1>2, HistoryKept

(* A new queue has written and holds nothing. *)
LEMMA InitChain == Init => ChainInv
<1> SUFFICES ASSUME Init PROVE ChainInv
  OBVIOUS
<1>1. LogInv
  BY InitLog
<1>2. toWrite = <<>> /\ log = <<>> /\ chainInExecution = NoChain
  BY DEF Init
<1> QED BY <1>1, <1>2 DEF ChainInv, QueueWhole, StartedInFront, ExecutionWritten, ChainWhole

(* Every operation of the queue keeps chains whole. *)
LEMMA NextChain ==
    ASSUME ChainInv, [Next]_vars
    PROVE  ChainInv'
<1> USE QueueAssumption, RequestAssumption
<1>1. LogInv'
  BY NextLog DEF ChainInv
<1>2. ASSUME NEW r \in Req, AddRequest(r) \/ AddAborted(r) PROVE ChainInv'
  BY <1>1, <1>2, AddChain
<1>3. ASSUME NEW r \in Req, AddAsap(r) PROVE ChainInv'
  BY <1>1, <1>3, AsapChain
<1>4. CASE (\E c \in Cmd, l \in Listener : FireListener(c, l)) \/ WriteUnencodable
  BY <1>1, <1>4, RemoveChain
<1>5. CASE StartMaintenance \/ EndMaintenance \/ Reply \/ UNCHANGED vars
  <2>1. UNCHANGED <<toWrite, log, conn, chainInExecution>>
    BY <1>5 DEF StartMaintenance, EndMaintenance, Reply, vars, wireVars
  <2>2. QueueWhole' /\ StartedInFront'
    BY <2>1 DEF ChainInv, QueueWhole, StartedInFront, SameChain
  <2> QED BY <1>1, <2>1, <2>2, HistoryKept
<1>6. CASE Write
  BY <1>1, <1>6, WriteChain
<1>7. CASE ConnectionLost
  BY <1>1, <1>7, LostChain
<1>8. CASE ConnectionClosed
  BY <1>1, <1>8, ClosedChain
<1> QED BY <1>2, <1>3, <1>4, <1>5, <1>6, <1>7, <1>8 DEF Next

(* A MULTI, a pipeline or an ASKING and what it is for is never split by a *)
(* command that is not part of it, whatever is inserted at the front,      *)
(* cancelled or dropped, and never spread over two connections.            *)
THEOREM ChainsStayWhole == Spec => []ChainWhole
<1>1. ChainInv => ChainWhole
  BY DEF ChainInv
<1> QED BY <1>1, InitChain, NextChain, PTL DEF Spec

-----------------------------------------------------------------------------
(* Transactions are sent whole.                                            *)

(* A command belongs to one request. *)
LEMMA OneRequest ==
    ASSUME RequestAssumption, NEW r \in Req, NEW s \in Req, NEW c \in CmdsOf(r), c \in CmdsOf(s)
    PROVE  r = s
BY DEF RequestAssumption

(* The head of a request is one of its commands. *)
LEMMA HeadIn ==
    ASSUME QueueAssumption, RequestAssumption, NEW r \in Req
    PROVE  /\ BodyOf[r][1] \in BodyCmds(r) /\ BodyOf[r][1] \in Cmd
           /\ BodyCmds(r) \subseteq Cmd /\ BodyCmds(r) \subseteq CmdsOf(r)
           /\ CmdsOf(r) \subseteq Cmd
<1>1. BodyOf[r] \in Seq(Cmd) /\ BodyOf[r] # <<>>
  BY DEF QueueAssumption, RequestAssumption
<1>2. DOMAIN BodyOf[r] = 1..Len(BodyOf[r]) /\ 1 \in DOMAIN BodyOf[r]
  BY <1>1
<1>3. \A i \in DOMAIN BodyOf[r] : BodyOf[r][i] \in Cmd
  BY ONLY <1>1
<1>4. BodyCmds(r) \subseteq Cmd
  BY ONLY <1>3 DEF BodyCmds
<1>5. BodyOf[r][1] \in BodyCmds(r)
  BY ONLY <1>2 DEF BodyCmds
<1> QED BY <1>4, <1>5 DEF CmdsOf, QueueAssumption

(* What is queued or in flight is pending, and what was written is not     *)
(* queued.                                                                 *)
LEMMA QueuedPending ==
    ASSUME LogInv
    PROVE  /\ \A i \in DOMAIN toWrite : toWrite[i] \in Pending
           /\ InFlight \subseteq Pending
           /\ \A i \in DOMAIN log : log[i].cmd \in Cmd /\ log[i].cmd \notin Elements(toWrite)
  BY LogTyped DEF LogInv, PromiseInv, Elements

(* Promises that were pending are settled: the history and the batches     *)
(* they belong to stay in order.                                           *)
LEMMA SettleBatch ==
    ASSUME QueueAssumption, RequestAssumption, BatchInv, LogInv,
           NEW R, R \subseteq Pending, NEW what, Settle(R, what), log' = log,
           what \in {"answered", "lost", "closed", "invalid", "cancelled"},
           what = "invalid" => R \subseteq Unencodable,
           what \in {"invalid", "cancelled"} => \A i \in DOMAIN log : log[i].cmd \notin R,
           what = "cancelled" =>
             \A r \in Batches : BodyCmds(r) \cap R # {} => BodyOf[r][1] \in R
    PROVE  WrittenKept' /\ InvalidUnencodable' /\ AdmittedWhole' /\ CancelledWhole'
<1>1. /\ \A c \in R : c \in Cmd /\ outcome[c] = "pending" /\ outcome'[c] = what
      /\ \A c \in Cmd : c \notin R => outcome'[c] = outcome[c]
  BY DEF Settle, Pending
<1>2. WrittenKept'
  <2> SUFFICES ASSUME NEW i \in DOMAIN log PROVE outcome'[log[i].cmd] \in Written
    BY DEF WrittenKept
  <2>1. log[i].cmd \in Cmd /\ outcome[log[i].cmd] \in Written
    BY LogTyped DEF BatchInv, WrittenKept
  <2> QED BY <1>1, <2>1 DEF Written
<1>3. InvalidUnencodable'
  BY <1>1 DEF BatchInv, InvalidUnencodable
<1>4. \A r \in Req : \A c \in BodyCmds(r) :
        outcome'[c] \in {"unused", "refused"} <=> outcome[c] \in {"unused", "refused"}
  BY <1>1, HeadIn
<1>5. AdmittedWhole'
  BY <1>4 DEF BatchInv, AdmittedWhole
<1>6. CancelledWhole'
  <2> SUFFICES ASSUME NEW r \in Batches, NEW c \in BodyCmds(r), outcome'[c] = "cancelled"
               PROVE  outcome'[BodyOf[r][1]] = "cancelled"
    BY DEF CancelledWhole
  <2>0. r \in Req /\ c \in Cmd /\ BodyOf[r][1] \in Cmd
    BY HeadIn DEF Batches
  <2>1. CASE c \in R
    <3>1. what = "cancelled"
      BY <1>1, <2>1
    <3>2. BodyOf[r][1] \in R
      BY <2>1, <3>1
    <3> QED BY <1>1, <3>1, <3>2
  <2>2. CASE c \notin R
    <3>1. outcome[BodyOf[r][1]] = "cancelled"
      BY <1>1, <2>0, <2>2 DEF BatchInv, CancelledWhole
    <3> QED BY <1>1, <2>0, <3>1
  <2> QED BY <2>1, <2>2
<1> QED BY <1>2, <1>3, <1>5, <1>6

(* A step that attaches no listener to a member attaches none to one. *)
LEMMA UnarmedKept ==
    ASSUME BatchInv, \A c \in Cmd : armed'[c] # {} => armed[c] # {} \/ ~IsMember(c)
    PROVE  MembersUnarmed'
BY DEF BatchInv, MembersUnarmed, IsMember, Batches, BodyCmds

(* #rejectCommand takes the members of a batch out with its head. *)
LEMMA FireBatch ==
    ASSUME QueueAssumption, RequestAssumption, ChainInv, BatchInv, LogInv', NEW c \in Cmd, NEW l \in Listener,
           FireListener(c, l)
    PROVE  BatchInv'
<1>1. /\ toWrite \in Seq(Cmd) /\ toWrite' \in Seq(Cmd) /\ armed \in [Cmd -> SUBSET Listener]
      /\ LogInv
  BY DEF ChainInv, LogInv, PromiseInv, TypeOK
<1>2. log' = log
  BY DEF FireListener, wireVars
<1>3. MembersUnarmed'
  <2>1. \A d \in Cmd : armed'[d] # {} => armed[d] # {}
    BY <1>1 DEF FireListener
  <2> QED BY <2>1, UnarmedKept
<1>4. ~IsMember(c)
  BY DEF FireListener, BatchInv, MembersUnarmed
<1>5. CASE UNCHANGED <<toWrite, outcome>>
  BY <1>2, <1>3, <1>5 DEF BatchInv, HeadFirst, WrittenKept, InvalidUnencodable,
                          AdmittedWhole, CancelledWhole
<1>6. ASSUME NEW i \in DOMAIN toWrite, toWrite[i] = c, RejectCommand(i) PROVE BatchInv'
  <2>1. PICK j \in i..Len(toWrite) :
            /\ BatchRun(i, j)
            /\ toWrite' = SubSeq(toWrite, 1, i - 1) \o SubSeq(toWrite, j + 1, Len(toWrite))
            /\ Settle(Elements(SubSeq(toWrite, i, j)), "cancelled")
    BY <1>6 DEF RejectCommand
  <2>2. /\ i \in 1..(Len(toWrite) + 1) /\ j \in (i - 1)..Len(toWrite) /\ j \in 0..Len(toWrite)
        /\ i \in Nat /\ j \in Nat /\ DOMAIN toWrite = 1..Len(toWrite) /\ i \in i..j
    BY <1>1
  <2>3. HeadFirst'
    BY <1>1, <2>1, <2>2, CutLeft, LeftWhole DEF BatchInv
  <2> DEFINE R == Elements(SubSeq(toWrite, i, j))
  <2>4. R = {toWrite[m] : m \in i..j}
    BY ONLY <1>1, <2>2, SliceProperties, SMTT(60) DEF R
  <2> HIDE DEF R
  <2>5. \A m \in i..j : m \in DOMAIN toWrite
    BY <2>2
  <2>6. R \subseteq Pending /\ \A g \in DOMAIN log : log[g].cmd \notin R
    BY <1>1, <2>4, <2>5, QueuedPending DEF Elements
  <2>7. ASSUME NEW r \in Batches, BodyCmds(r) \cap R # {} PROVE BodyOf[r][1] \in R
    <3>1. PICK m \in i..j : toWrite[m] \in BodyCmds(r)
      BY <2>4, <2>7
    <3>2. r \in Req /\ c \in R
      BY <1>6, <2>2, <2>4 DEF Batches
    <3>3. CASE m = i
      <4>1. c = BodyOf[r][1]
        BY <1>4, <1>6, <3>1, <3>3 DEF IsMember
      <4> QED BY <3>2, <4>1
    <3>4. CASE m # i
      <4>1. IsHead(c) /\ m \in (i + 1)..j
        BY <1>6, <2>1, <2>2, <3>4, SMTT(60) DEF BatchRun
      <4>2. ChainOf[toWrite[m]] = ChainOf[c]
        BY <1>6, <2>1, <4>1 DEF BatchRun
      <4>3. PICK s \in Batches : BodyOf[s][1] = c
        BY <4>1 DEF IsHead
      <4>4. s \in Req /\ c \in CmdsOf(s) /\ toWrite[m] \in CmdsOf(r)
        <5>1. s \in Req
          BY DEF Batches
        <5>2. BodyOf[s][1] \in BodyCmds(s) /\ BodyCmds(s) \subseteq CmdsOf(s)
          BY <5>1, HeadIn
        <5>3. BodyCmds(r) \subseteq CmdsOf(r)
          BY <3>2, HeadIn
        <5> QED BY <3>1, <4>3, <5>1, <5>2, <5>3
      <4>5. ChainOf[toWrite[m]] # NoChain
        BY <3>2, <4>4 DEF RequestAssumption, QueueAssumption, Batches
      <4>6. s = r
        BY <3>2, <4>2, <4>4, <4>5 DEF RequestAssumption
      <4> QED BY <3>2, <4>3, <4>6
    <3> QED BY <3>3, <3>4
  <2>8. Settle(R, "cancelled")
    BY <2>1 DEF R
  <2>9. WrittenKept' /\ InvalidUnencodable' /\ AdmittedWhole' /\ CancelledWhole'
    BY <1>1, <1>2, <2>6, <2>7, <2>8, SettleBatch
  <2> QED BY <1>3, <2>3, <2>9 DEF BatchInv
<1> QED BY <1>5, <1>6 DEF FireListener

(* A block of the commands of a new request, with its head where it        *)
(* belongs, does not disturb the order of the batches that are queued.     *)
LEMMA InsertFirst ==
    ASSUME QueueAssumption, RequestAssumption, LogInv, HeadFirst, toWrite' \in Seq(Cmd),
           NEW r \in Req, Unused(r), NEW t, NEW f, InsertedIn(toWrite', toWrite, t, f),
           Elements(t) \subseteq CmdsOf(r),
           r \in Batches => \A i, k \in DOMAIN toWrite' :
             f[i] = 0 /\ f[k] = 0 /\ toWrite'[i] = BodyOf[r][1] =>
               /\ toWrite'[k] \in BodyCmds(r) => i <= k
               /\ toWrite'[k] = LeadOf[r] => k < i
    PROVE  HeadFirst'
<1>1. toWrite \in Seq(Cmd)
  BY DEF LogInv, PromiseInv, TypeOK
<1>2. /\ DOMAIN toWrite = 1..Len(toWrite) /\ Len(toWrite) \in Nat
      /\ DOMAIN toWrite' = 1..Len(toWrite') /\ Len(toWrite') \in Nat
  BY ONLY <1>1, toWrite' \in Seq(Cmd)
<1>3. ASSUME NEW i \in DOMAIN toWrite'
      PROVE  \/ f[i] = 0 /\ toWrite'[i] \in CmdsOf(r)
             \/ /\ f[i] # 0 /\ f[i] \in DOMAIN toWrite /\ toWrite'[i] = toWrite[f[i]]
                /\ toWrite'[i] \notin CmdsOf(r)
  <2>1. \A j \in DOMAIN toWrite : toWrite[j] \notin CmdsOf(r)
    BY QueuedPending DEF Unused, Pending
  <2> QED BY <2>1 DEF InsertedIn
<1> SUFFICES ASSUME NEW s \in Batches, NEW i \in DOMAIN toWrite', NEW k \in DOMAIN toWrite',
                    toWrite'[i] = BodyOf[s][1], toWrite'[k] \in BodyCmds(s) \cup {LeadOf[s]}
             PROVE  /\ toWrite'[k] \in BodyCmds(s) => i <= k
                    /\ toWrite'[k] = LeadOf[s] => k < i
  BY DEF HeadFirst
<1>4. s \in Req /\ toWrite'[k] \in CmdsOf(s) /\ toWrite'[i] \in CmdsOf(s)
  <2>1. s \in Req
    BY DEF Batches
  <2>2. toWrite'[k] \in Cmd
    BY ONLY <1>2, k \in DOMAIN toWrite', toWrite' \in Seq(Cmd)
  <2>3. toWrite'[k] # NoLead
    BY <2>2 DEF QueueAssumption
  <2>4. BodyOf[s][1] \in BodyCmds(s)
    BY <2>1, HeadIn
  <2> QED BY <2>1, <2>3, <2>4 DEF CmdsOf
<1>5. CASE s = r
  <2>1. f[i] = 0 /\ f[k] = 0
    BY <1>3, <1>4, <1>5
  <2> QED BY <1>5, <2>1
<1>6. CASE s # r
  <2>1. toWrite'[i] \notin CmdsOf(r) /\ toWrite'[k] \notin CmdsOf(r)
    BY <1>4, <1>6, OneRequest
  <2>2. /\ f[i] # 0 /\ f[i] \in DOMAIN toWrite /\ toWrite'[i] = toWrite[f[i]]
        /\ f[k] # 0 /\ f[k] \in DOMAIN toWrite /\ toWrite'[k] = toWrite[f[k]]
    BY <1>3, <2>1
  <2>3. /\ toWrite'[k] \in BodyCmds(s) => f[i] <= f[k]
        /\ toWrite'[k] = LeadOf[s] => f[k] < f[i]
    BY <2>2 DEF HeadFirst
  <2>4. (i < k => f[i] < f[k]) /\ (k < i => f[k] < f[i])
    BY <2>2 DEF InsertedIn
  <2>5. i \in Nat /\ k \in Nat /\ f[i] \in Nat /\ f[k] \in Nat
    BY <1>2, <2>2, SMTT(60)
  <2> QED BY ONLY <2>3, <2>4, <2>5
<1> QED BY <1>5, <1>6

(* addBatch queues the head of a batch in front of its members, and behind *)
(* the ASKING.                                                             *)
LEMMA AdmittedFirst ==
    ASSUME QueueAssumption, RequestAssumption, TypeOK, NEW r \in Req,
           NEW a \in DOMAIN (AdmittedLead(r) \o AdmittedBody(r)),
           NEW b \in DOMAIN (AdmittedLead(r) \o AdmittedBody(r)),
           (AdmittedLead(r) \o AdmittedBody(r))[a] = BodyOf[r][1]
    PROVE  LET t == AdmittedLead(r) \o AdmittedBody(r)
           IN  /\ t[b] \in BodyCmds(r) => a <= b
               /\ t[b] = LeadOf[r] => b < a
<1> DEFINE lead == AdmittedLead(r)
           body == AdmittedBody(r)
           m == AdmittedLen(r, PendingCount + Len(lead))
<1>1. /\ m \in 0..Len(BodyOf[r])
      /\ BodyOf[r] \in Seq(Cmd)
  BY AdmittedTypes DEF QueueAssumption
<1>2. body = SubSeq(BodyOf[r], 1, m)
  BY DEF AdmittedBody
<1>3. lead = <<>> \/ (lead = <<LeadOf[r]>> /\ LeadOf[r] \in Cmd)
  BY DEF AdmittedLead, QueueAssumption
<1> HIDE DEF lead, body, m
<1>4. /\ body \in Seq(Cmd) /\ Len(body) = m /\ m \in Nat
      /\ \A x \in 1..m : body[x] = BodyOf[r][x] /\ x \in DOMAIN BodyOf[r]
  BY ONLY <1>1, <1>2
<1>5. \A x \in 1..m : body[x] \in BodyCmds(r) /\ body[x] # LeadOf[r] /\
                      (body[x] = BodyOf[r][1] => x = 1)
  <2> TAKE x \in 1..m
  <2>1. x \in DOMAIN BodyOf[r] /\ 1 \in DOMAIN BodyOf[r] /\ body[x] = BodyOf[r][x]
    BY <1>1, <1>4
  <2>2. body[x] \in BodyCmds(r)
    BY <2>1 DEF BodyCmds
  <2>3. body[x] = BodyOf[r][1] => x = 1
    <3>1. \A i, j \in DOMAIN BodyOf[r] : BodyOf[r][i] = BodyOf[r][j] => i = j
      BY DEF RequestAssumption
    <3> QED BY ONLY <2>1, <3>1
  <2>4. LeadOf[r] \notin BodyCmds(r)
    BY DEF RequestAssumption
  <2> QED BY <2>2, <2>3, <2>4
<1>6. LeadOf[r] \notin BodyCmds(r) /\ BodyOf[r][1] \in BodyCmds(r)
  BY HeadIn DEF RequestAssumption
<1> DEFINE t == lead \o body
<1>7. a \in DOMAIN t /\ b \in DOMAIN t /\ t[a] = BodyOf[r][1]
  BY DEF lead, body
<1>8. CASE lead = <<>>
  <2>1. t = body /\ DOMAIN t = 1..m
    BY ONLY <1>4, <1>8
  <2>2. a = 1
    BY <1>5, <1>7, <2>1
  <2> QED BY <1>4, <1>5, <1>7, <2>1, <2>2 DEF lead, body
<1>9. CASE lead = <<LeadOf[r]>> /\ LeadOf[r] \in Cmd
  <2>1. lead \in Seq(Cmd) /\ Len(lead) = 1 /\ lead[1] = LeadOf[r]
    BY ONLY <1>9
  <2>2. /\ DOMAIN t = 1..(1 + m) /\ t[1] = LeadOf[r]
        /\ \A x \in 1..m : t[1 + x] = body[x]
    <3> HIDE DEF t
    <3>1. /\ DOMAIN t = 1..(Len(lead) + Len(body))
          /\ \A x \in 1..Len(lead) : t[x] = lead[x]
          /\ \A x \in 1..Len(body) : t[Len(lead) + x] = body[x]
      <4>1. lead \in Seq(Cmd) /\ body \in Seq(Cmd)
        BY <1>4, <2>1
      <4> QED BY ONLY <4>1, ConcatIndex, SMTT(30) DEF t
    <3> QED BY ONLY <1>4, <2>1, <3>1
  <2> HIDE DEF t
  <2>3. \A x \in DOMAIN t : x = 1 \/ (x - 1 \in 1..m /\ t[x] = body[x - 1] /\ x \in Nat)
    <3> TAKE x \in DOMAIN t
    <3>1. x = 1 \/ (x - 1 \in 1..m /\ 1 + (x - 1) = x /\ x \in Nat)
      BY ONLY <1>4, <2>2, x \in DOMAIN t
    <3> QED BY <2>2, <3>1
  <2>4. a - 1 \in 1..m /\ t[a] = body[a - 1] /\ a \in Nat
    BY <1>6, <1>7, <2>2, <2>3
  <2>5. a = 2
    <3>1. a - 1 = 1
      BY <1>5, <1>7, <2>4
    <3> QED BY ONLY <2>4, <3>1
  <2>6. (t[b] \in BodyCmds(r) => b >= 2) /\ (t[b] = LeadOf[r] => b = 1)
    <3>1. CASE b = 1
      BY <1>6, <2>2, <3>1
    <3>2. CASE b - 1 \in 1..m /\ t[b] = body[b - 1] /\ b \in Nat
      <4>1. b >= 2
        BY ONLY <3>2, <1>4
      <4> QED BY <1>5, <3>2, <4>1
    <3> QED BY <1>7, <2>3, <3>1, <3>2
  <2>7. b \in Nat
    BY <1>7, <2>3
  <2>8. (t[b] \in BodyCmds(r) => a <= b) /\ (t[b] = LeadOf[r] => b < a)
    BY ONLY <2>5, <2>6, <2>7
  <2> QED BY <2>8 DEF t, lead, body
<1> QED BY <1>3, <1>8, <1>9

(* A command with the asap option is a request of its own. *)
LEMMA AsapSingle ==
    ASSUME QueueAssumption, RequestAssumption, NEW r \in Req, BodyOf[r][1] \in Asap
    PROVE  CmdsOf(r) = {BodyOf[r][1]} /\ r \notin Batches /\ KindOf[r] # "multi"
<1>1. BodyOf[r][1] \in CmdsOf(r)
  BY HeadIn
<1>2. LeadOf[r] = NoLead /\ KindOf[r] \notin {"pipeline", "multi"}
  BY <1>1 DEF RequestAssumption
<1>3. Len(BodyOf[r]) = 1 /\ BodyOf[r] \in Seq(Cmd)
  BY <1>2 DEF RequestAssumption, QueueAssumption
<1>4. DOMAIN BodyOf[r] = {1}
  BY ONLY <1>3
<1>5. BodyCmds(r) = {BodyOf[r][1]}
  BY <1>4 DEF BodyCmds
<1> QED BY <1>2, <1>5 DEF CmdsOf, Batches

(* Every command of a request that is submitted is admitted or refused,    *)
(* and no other promise changes.                                           *)
LEMMA AddOutcome ==
    ASSUME QueueAssumption, RequestAssumption, TypeOK, NEW r \in Req,
           AddRequest(r) \/ AddAsap(r) \/ AddAborted(r)
    PROVE  /\ \A c \in Cmd : c \notin CmdsOf(r) => outcome'[c] = outcome[c]
           /\ \A c \in CmdsOf(r) : outcome'[c] \in {"pending", "refused"}
<1>1. CmdsOf(r) \subseteq Cmd
  BY HeadIn
<1>2. CASE AddRequest(r)
  <2> DEFINE A == Elements(AdmittedLead(r)) \cup Elements(AdmittedBody(r))
  <2>1. A \subseteq CmdsOf(r)
    BY AdmittedProperties
  <2>2. outcome' = [d \in Cmd |-> IF d \in A THEN "pending"
                                  ELSE IF d \in CmdsOf(r) THEN "refused"
                                  ELSE outcome[d]]
    BY <1>2 DEF AddRequest, AdmittedBody
  <2> HIDE DEF A
  <2> QED BY <1>1, <2>1, <2>2
<1>3. CASE AddAborted(r)
  <2>1. Elements(AdmittedLead(r)) \subseteq CmdsOf(r)
    BY AdmittedProperties
  <2> QED BY <1>1, <1>3, <2>1 DEF AddAborted
<1>4. CASE AddAsap(r)
  <2>1. CmdsOf(r) = {BodyOf[r][1]}
    BY <1>4, AsapSingle DEF AddAsap
  <2>2. PICK what \in {"pending", "refused"} : Settle({BodyOf[r][1]}, what)
    BY <1>4 DEF AddAsap
  <2> QED BY <1>1, <2>1, <2>2 DEF Settle
<1> QED BY <1>2, <1>3, <1>4

(* The promises of a new request leave those of the others in order. *)
LEMMA AddedOutcomes ==
    ASSUME QueueAssumption, RequestAssumption, BatchInv, LogInv, NEW r \in Req, Unused(r),
           AddRequest(r) \/ AddAsap(r) \/ AddAborted(r),
           KindOf[r] = "multi" =>
             \/ \A c \in BodyCmds(r) : outcome'[c] = "refused"
             \/ \A c \in BodyCmds(r) : outcome'[c] = "pending"
    PROVE  WrittenKept' /\ InvalidUnencodable' /\ AdmittedWhole' /\ CancelledWhole'
<1>1. /\ \A c \in Cmd : c \notin CmdsOf(r) => outcome'[c] = outcome[c]
      /\ \A c \in CmdsOf(r) : outcome'[c] \in {"pending", "refused"}
  BY AddOutcome DEF LogInv, PromiseInv
<1>2. log' = log
  BY DEF AddRequest, AddAsap, AddAborted, wireVars
<1>3. \A c \in Cmd : outcome[c] # "unused" => outcome'[c] = outcome[c]
  BY <1>1 DEF Unused
<1>4. WrittenKept'
  <2>1. \A i \in DOMAIN log : log[i].cmd \in Cmd /\ outcome[log[i].cmd] \in Written
    BY LogTyped DEF BatchInv, WrittenKept
  <2> QED BY <1>2, <1>3, <2>1 DEF WrittenKept, Written
<1>5. InvalidUnencodable'
  BY <1>1 DEF BatchInv, InvalidUnencodable
<1>6. AdmittedWhole'
  <2> SUFFICES ASSUME NEW s \in Req, KindOf[s] = "multi"
               PROVE  \/ \A c \in BodyCmds(s) : outcome'[c] \in {"unused", "refused"}
                      \/ \A c \in BodyCmds(s) : outcome'[c] \notin {"unused", "refused"}
    BY DEF AdmittedWhole
  <2>1. CASE s = r
    BY <2>1
  <2>2. CASE s # r
    <3>1. BodyCmds(s) \subseteq Cmd /\ BodyCmds(s) \subseteq CmdsOf(s)
      BY HeadIn
    <3>2. \A c \in BodyCmds(s) : outcome'[c] = outcome[c]
      BY <1>1, <2>2, <3>1, OneRequest
    <3> QED BY <3>2 DEF BatchInv, AdmittedWhole
  <2> QED BY <2>1, <2>2
<1>7. CancelledWhole'
  <2> SUFFICES ASSUME NEW s \in Batches, NEW c \in BodyCmds(s), outcome'[c] = "cancelled"
               PROVE  outcome'[BodyOf[s][1]] = "cancelled"
    BY DEF CancelledWhole
  <2>1. s \in Req /\ c \in Cmd /\ BodyOf[s][1] \in Cmd
    BY HeadIn DEF Batches
  <2>2. outcome[c] = "cancelled"
    BY <1>1, <2>1
  <2>3. outcome[BodyOf[s][1]] = "cancelled"
    BY <2>2 DEF BatchInv, CancelledWhole
  <2> QED BY <1>3, <2>1, <2>3
<1> QED BY <1>4, <1>5, <1>6, <1>7

(* The ASKING in front of a request, and the head of one, are no members.  *)
LEMMA NoMember ==
    ASSUME QueueAssumption, RequestAssumption, NEW r \in Req, NEW c \in Cmd,
           c = LeadOf[r] \/ c = BodyOf[r][1]
    PROVE  ~IsMember(c)
<1> SUFFICES ASSUME NEW s \in Batches, c \in BodyCmds(s), BodyOf[s][1] # c PROVE FALSE
  BY DEF IsMember
<1>1. c # NoLead
  BY DEF QueueAssumption
<1>2. c \in CmdsOf(r)
  BY <1>1, HeadIn, SMTT(60) DEF CmdsOf
<1>3. s \in Req /\ c \in CmdsOf(s)
  BY HeadIn DEF Batches
<1>4. s = r
  BY <1>2, <1>3, OneRequest
<1> QED BY <1>4 DEF RequestAssumption

(* Only the ASKING and the head of a new request are armed. *)
LEMMA AddUnarmed ==
    ASSUME QueueAssumption, RequestAssumption, TypeOK, BatchInv, NEW r \in Req,
           AddRequest(r) \/ AddAsap(r) \/ AddAborted(r)
    PROVE  MembersUnarmed'
<1>1. /\ Elements(AdmittedLead(r)) \subseteq {LeadOf[r]}
      /\ armed \in [Cmd -> SUBSET Listener]
  BY AdmittedTypes DEF TypeOK
<1>2. ASSUME NEW c \in Cmd, armed'[c] # armed[c] PROVE c = LeadOf[r] \/ c = BodyOf[r][1]
  <2>1. CASE AddRequest(r)
    <3> DEFINE body == AdmittedBody(r)
               A == Elements(AdmittedLead(r)) \cup
                    (IF body = <<>> \/ KindOf[r] = "internal" THEN {} ELSE {body[1]})
    <3>1. armed' = [d \in Cmd |-> IF d \in A THEN ArmedOf(d) ELSE armed[d]]
      BY <2>1 DEF AddRequest, AdmittedBody
    <3>2. body # <<>> => body[1] = BodyOf[r][1]
      <4> DEFINE m == AdmittedLen(r, PendingCount + Len(AdmittedLead(r)))
      <4>1. m \in 0..Len(BodyOf[r]) /\ BodyOf[r] \in Seq(Cmd)
        BY AdmittedTypes DEF QueueAssumption
      <4>2. body = SubSeq(BodyOf[r], 1, m)
        BY DEF AdmittedBody
      <4> HIDE DEF m, body
      <4> QED BY ONLY <4>1, <4>2
    <3>3. A \subseteq {LeadOf[r], BodyOf[r][1]}
      BY <1>1, <3>2
    <3> HIDE DEF A
    <3> QED BY <1>2, <3>1, <3>3
  <2>2. CASE AddAborted(r)
    BY <1>1, <1>2, <2>2 DEF AddAborted
  <2>3. CASE AddAsap(r)
    <3>1. armed' = armed \/ \E S : armed' = [armed EXCEPT ![BodyOf[r][1]] = S]
      BY <2>3 DEF AddAsap
    <3> QED BY <1>1, <1>2, <3>1
  <2> QED BY <2>1, <2>2, <2>3
<1>3. \A c \in Cmd : armed'[c] # {} => armed[c] # {} \/ ~IsMember(c)
  BY <1>2, NoMember
<1> QED BY <1>3, UnarmedKept

(* In the block t the head of r is in front of the rest of its body, and   *)
(* behind its ASKING.                                                      *)
InOrder(t, r) ==
    \A a, b \in DOMAIN t : t[a] = BodyOf[r][1] =>
        /\ t[b] \in BodyCmds(r) => a <= b
        /\ t[b] = LeadOf[r] => b < a

(* Appending a block whose own order is right keeps heads in front. *)
LEMMA AppendFirst ==
    ASSUME QueueAssumption, RequestAssumption, LogInv, HeadFirst, NEW r \in Req, Unused(r),
           NEW t \in Seq(Cmd), toWrite' = toWrite \o t, Elements(t) \subseteq CmdsOf(r), InOrder(t, r)
    PROVE  HeadFirst'
<1> DEFINE n == Len(toWrite)
           f == PlaceOf(toWrite', n, Len(t))
<1>1. toWrite \in Seq(Cmd)
  BY DEF LogInv, PromiseInv, TypeOK
<1>2. toWrite' \in Seq(Cmd) /\ InsertedIn(toWrite', toWrite, t, f)
  BY ONLY <1>1, t \in Seq(Cmd), toWrite' = toWrite \o t, AppendPlaces
<1>3. /\ DOMAIN toWrite' = 1..(n + Len(t))
      /\ \A k \in 1..Len(t) : toWrite'[n + k] = t[k]
  BY ONLY <1>1, t \in Seq(Cmd), toWrite' = toWrite \o t, ConcatIndex, SMTT(30)
<1>4. n \in Nat /\ Len(t) \in Nat /\ DOMAIN t = 1..Len(t)
  BY <1>1
<1> HIDE DEF n
<1>5. ASSUME NEW i \in DOMAIN toWrite', f[i] = 0
      PROVE  i \in Nat /\ i - n \in DOMAIN t /\ toWrite'[i] = t[i - n]
  <2>1. i \in Nat /\ i > n /\ i <= n + Len(t)
    <3> DEFINE b == Len(t)
    <3> HIDE DEF b
    <3>1. b \in Nat /\ DOMAIN toWrite' = 1..(n + b)
      BY <1>3, <1>4 DEF b
    <3>2. f[i] = IF i <= n THEN i ELSE IF i <= n + b THEN 0 ELSE i - b
      BY DEF PlaceOf, b
    <3>3. i \in Nat /\ i > n /\ i <= n + b
      BY ONLY <1>4, <1>5, <3>1, <3>2
    <3> QED BY <3>3 DEF b
  <2>2. i - n \in 1..Len(t) /\ n + (i - n) = i
    BY ONLY <1>4, <2>1
  <2> QED BY <1>3, <1>4, <2>1, <2>2
<1> HIDE DEF f
<1>6. ASSUME NEW i \in DOMAIN toWrite', NEW k \in DOMAIN toWrite',
             f[i] = 0, f[k] = 0, toWrite'[i] = BodyOf[r][1]
      PROVE  /\ toWrite'[k] \in BodyCmds(r) => i <= k
             /\ toWrite'[k] = LeadOf[r] => k < i
  <2>1. /\ i \in Nat /\ i - n \in DOMAIN t /\ toWrite'[i] = t[i - n]
        /\ k \in Nat /\ k - n \in DOMAIN t /\ toWrite'[k] = t[k - n]
    BY <1>5, <1>6
  <2>2. /\ toWrite'[k] \in BodyCmds(r) => i - n <= k - n
        /\ toWrite'[k] = LeadOf[r] => k - n < i - n
    BY <1>6, <2>1 DEF InOrder
  <2> QED BY ONLY <1>4, <2>1, <2>2
<1> QED BY <1>2, <1>6, InsertFirst

(* addCommand and addBatch: a transaction is admitted whole or not at all. *)
LEMMA AddRequestBatch ==
    ASSUME QueueAssumption, RequestAssumption, BatchInv, LogInv, NEW r \in Req, AddRequest(r)
    PROVE  BatchInv'
<1> DEFINE lead == AdmittedLead(r)
           body == AdmittedBody(r)
           m == AdmittedLen(r, PendingCount + Len(lead))
<1>1. TypeOK /\ Unused(r) /\ HeadFirst /\ toWrite \in Seq(Cmd)
  BY DEF LogInv, PromiseInv, AddRequest, BatchInv, TypeOK
<1>2. /\ lead \in Seq(Cmd) /\ body \in Seq(Cmd)
      /\ Elements(lead) \cup Elements(body) \subseteq CmdsOf(r)
  BY <1>1, AdmittedProperties
<1>3. HeadFirst'
  <2> HIDE DEF lead, body
  <2>1. toWrite' = toWrite \o lead \o body
    BY DEF AddRequest, AdmittedBody, lead, body
  <2> DEFINE t == lead \o body
  <2>2. toWrite' = toWrite \o t /\ t \in Seq(Cmd)
    BY ONLY <1>1, <1>2, <2>1
  <2>3. Elements(t) \subseteq CmdsOf(r)
    BY <1>2, ElementsConcat
  <2>4. InOrder(t, r)
    BY <1>1, AdmittedFirst DEF InOrder, lead, body
  <2> HIDE DEF t
  <2>5. QueueAssumption /\ RequestAssumption /\ LogInv /\ r \in Req
    OBVIOUS
  <2> QED BY ONLY <1>1, <2>2, <2>3, <2>4, <2>5, AppendFirst
<1>4. MembersUnarmed'
  BY <1>1, AddUnarmed
<1>5. ASSUME KindOf[r] = "multi"
      PROVE  \/ \A c \in BodyCmds(r) : outcome'[c] = "refused"
             \/ \A c \in BodyCmds(r) : outcome'[c] = "pending"
  <2>1. m = 0 \/ m = Len(BodyOf[r])
    BY <1>5 DEF AdmittedLen
  <2>2. BodyOf[r] \in Seq(Cmd) /\ body = SubSeq(BodyOf[r], 1, m)
    BY DEF QueueAssumption, AdmittedBody
  <2>3. outcome' = [d \in Cmd |-> IF d \in Elements(lead) \cup Elements(body) THEN "pending"
                                  ELSE IF d \in CmdsOf(r) THEN "refused"
                                  ELSE outcome[d]]
    BY DEF AddRequest, AdmittedBody
  <2>4. Elements(lead) \cap BodyCmds(r) = {}
    BY <1>1, AdmittedTypes DEF RequestAssumption
  <2>5. BodyCmds(r) \subseteq Cmd /\ BodyCmds(r) \subseteq CmdsOf(r)
    BY HeadIn
  <2> HIDE DEF m, lead, body
  <2>6. body = <<>> \/ body = BodyOf[r]
    BY ONLY <2>1, <2>2
  <2>7. Elements(body) = {} \/ Elements(body) = BodyCmds(r)
    BY <2>6, EmptySequence DEF Elements, BodyCmds
  <2> QED BY <2>3, <2>4, <2>5, <2>7
<1>6. WrittenKept' /\ InvalidUnencodable' /\ AdmittedWhole' /\ CancelledWhole'
  BY <1>1, <1>5, AddedOutcomes
<1> QED BY <1>3, <1>4, <1>6 DEF BatchInv

(* A request whose signal is aborted already is refused whole. *)
LEMMA AddAbortedBatch ==
    ASSUME QueueAssumption, RequestAssumption, BatchInv, LogInv, NEW r \in Req, AddAborted(r)
    PROVE  BatchInv'
<1> DEFINE lead == AdmittedLead(r)
<1>1. TypeOK /\ Unused(r) /\ HeadFirst /\ toWrite' = toWrite \o lead
  BY DEF LogInv, PromiseInv, AddAborted, BatchInv
<1>2. lead \in Seq(Cmd) /\ Elements(lead) \subseteq CmdsOf(r) /\ Elements(lead) \subseteq {LeadOf[r]}
  BY <1>1, AdmittedProperties, AdmittedTypes
<1>3. Elements(lead) \cap BodyCmds(r) = {} /\ BodyOf[r][1] \in BodyCmds(r)
  BY <1>2, HeadIn DEF RequestAssumption
<1>4. ASSUME NEW a \in DOMAIN lead PROVE lead[a] # BodyOf[r][1]
  BY <1>3 DEF Elements
<1> HIDE DEF lead
<1>5. HeadFirst'
  <2>1. InOrder(lead, r)
    BY <1>4 DEF InOrder
  <2>2. QueueAssumption /\ RequestAssumption /\ LogInv /\ r \in Req
    OBVIOUS
  <2> QED BY ONLY <1>1, <1>2, <2>1, <2>2, AppendFirst
<1>6. MembersUnarmed'
  BY <1>1, AddUnarmed
<1>7. \A c \in BodyCmds(r) : outcome'[c] = "refused"
  <2>1. BodyCmds(r) \subseteq Cmd /\ BodyCmds(r) \subseteq CmdsOf(r)
    BY HeadIn
  <2> QED BY <1>3, <2>1 DEF AddAborted, lead
<1>8. WrittenKept' /\ InvalidUnencodable' /\ AdmittedWhole' /\ CancelledWhole'
  BY <1>1, <1>7, AddedOutcomes
<1> QED BY <1>5, <1>6, <1>8 DEF BatchInv

(* #insertAtFront inserts no batch. *)
LEMMA AddAsapBatch ==
    ASSUME QueueAssumption, RequestAssumption, BatchInv, LogInv, LogInv', NEW r \in Req, AddAsap(r)
    PROVE  BatchInv'
<1> DEFINE c == BodyOf[r][1]
<1>1. /\ TypeOK /\ Unused(r) /\ HeadFirst /\ toWrite \in Seq(Cmd) /\ toWrite' \in Seq(Cmd)
  BY DEF LogInv, PromiseInv, AddAsap, BatchInv, TypeOK
<1>2. CmdsOf(r) = {c} /\ r \notin Batches /\ KindOf[r] # "multi" /\ c \in Cmd
  BY AsapSingle, HeadIn DEF AddAsap
<1>3. HeadFirst'
  <2>1. CASE toWrite' = toWrite
    BY <1>1, <2>1 DEF HeadFirst
  <2>2. CASE toWrite' # toWrite
    <3>1. PICK k \in 0..Len(toWrite) :
            toWrite' = SubSeq(toWrite, 1, k) \o <<c>> \o SubSeq(toWrite, k + 1, Len(toWrite))
      BY <2>2 DEF AddAsap
    <3> DEFINE t == <<c>>
    <3>2. t \in Seq(Cmd) /\ Elements(t) = {c}
      BY <1>2, Singleton
    <3>3. toWrite' = SubSeq(toWrite, 1, k) \o t \o SubSeq(toWrite, k + 1, Len(toWrite))
      BY <3>1
    <3> HIDE DEF t
    <3>4. InsertedIn(toWrite', toWrite, t, PlaceOf(toWrite', k, Len(t)))
      BY ONLY <1>1, <3>2, <3>3, k \in 0..Len(toWrite), InsertPlaces
    <3> QED BY <1>1, <1>2, <3>2, <3>4, InsertFirst
  <2> QED BY <2>1, <2>2
<1>4. MembersUnarmed'
  BY <1>1, AddUnarmed
<1>5. WrittenKept' /\ InvalidUnencodable' /\ AdmittedWhole' /\ CancelledWhole'
  BY <1>1, <1>2, AddedOutcomes
<1> QED BY <1>3, <1>4, <1>5 DEF BatchInv

(* Writing the head of the queue, a reply, and a flush. *)
LEMMA WriteBatch ==
    ASSUME QueueAssumption, RequestAssumption, BatchInv, LogInv, LogInv', Write \/ WriteUnencodable
    PROVE  BatchInv'
<1>1. /\ toWrite \in Seq(Cmd) /\ toWrite' \in Seq(Cmd) /\ toWrite # <<>> /\ toWrite' = Tail(toWrite)
      /\ armed \in [Cmd -> SUBSET Listener]
  BY DEF LogInv, PromiseInv, TypeOK, Write, WriteUnencodable
<1>2. Head(toWrite) = toWrite[1] /\ 1 \in DOMAIN toWrite
  BY <1>1
<1>3. toWrite[1] \in Pending /\ toWrite[1] \in Elements(toWrite)
  BY <1>2, QueuedPending DEF Elements
<1>4. HeadFirst'
  BY <1>1, TailLeft, LeftWhole DEF BatchInv
<1>5. MembersUnarmed'
  <2>1. \A d \in Cmd : armed'[d] # {} => armed[d] # {}
    BY <1>1 DEF Write, WriteUnencodable
  <2> QED BY <2>1, UnarmedKept
<1>6. CASE Write
  <2>1. outcome' = outcome
    BY <1>6 DEF Write
  <2>2. WrittenKept'
    <3>1. /\ DOMAIN log = 1..Len(log) /\ Len(log) \in Nat
          /\ DOMAIN log' = 1..(Len(log) + 1)
          /\ \A i \in 1..Len(log) : log'[i] = log[i]
          /\ log'[Len(log) + 1].cmd = toWrite[1]
      BY <1>6, WriteHistory
    <3>2. ASSUME NEW i \in DOMAIN log' PROVE outcome[log'[i].cmd] \in Written
      <4>1. CASE i = Len(log) + 1
        BY <1>3, <3>1, <4>1 DEF Pending, Written
      <4>2. CASE i \in 1..Len(log)
        BY <3>1, <4>2 DEF BatchInv, WrittenKept
      <4>3. i = Len(log) + 1 \/ i \in 1..Len(log)
        BY ONLY <3>1, <3>2
      <4> QED BY <4>1, <4>2, <4>3
    <3> QED BY <2>1, <3>2 DEF WrittenKept
  <2>3. InvalidUnencodable' /\ AdmittedWhole' /\ CancelledWhole'
    BY <2>1 DEF BatchInv, InvalidUnencodable, AdmittedWhole, CancelledWhole
  <2> QED BY <1>4, <1>5, <2>2, <2>3 DEF BatchInv
<1>7. CASE WriteUnencodable
  <2>1. /\ Settle({toWrite[1]}, "invalid") /\ toWrite[1] \in Unencodable /\ log' = log
    BY <1>2, <1>7 DEF WriteUnencodable, wireVars
  <2> DEFINE R == {toWrite[1]}
  <2>2. /\ R \subseteq Pending /\ R \subseteq Unencodable /\ Settle(R, "invalid")
        /\ \A i \in DOMAIN log : log[i].cmd \notin R
    BY <1>3, <2>1, QueuedPending
  <2> HIDE DEF R
  <2>3. WrittenKept' /\ InvalidUnencodable' /\ AdmittedWhole' /\ CancelledWhole'
    BY <2>1, <2>2, SettleBatch
  <2> QED BY <1>4, <1>5, <2>3 DEF BatchInv
<1> QED BY <1>6, <1>7

(* A reply, a lost connection and the end: what is flushed of a            *)
(* transaction is all of it that had not been answered.                    *)
LEMMA FlushBatch ==
    ASSUME QueueAssumption, RequestAssumption, BatchInv, LogInv, LogInv',
           Reply \/ ConnectionLost \/ ConnectionClosed
    PROVE  BatchInv'
<1>1. /\ toWrite \in Seq(Cmd) /\ toWrite' \in Seq(Cmd) /\ waiting \in Seq(Slot)
      /\ armed \in [Cmd -> SUBSET Listener]
  BY DEF LogInv, PromiseInv, TypeOK
<1>2. log' = log
  BY DEF Reply, ConnectionLost, ConnectionClosed, NextConnection
<1>3. MembersUnarmed'
  <2>1. \A d \in Cmd : armed'[d] # {} => armed[d] # {}
    <3>1. CASE Reply
      BY <3>1 DEF Reply
    <3>2. ASSUME NEW S, armed' = [c \in Cmd |-> IF c \in S THEN {} ELSE armed[c]]
          PROVE  \A d \in Cmd : armed'[d] # {} => armed[d] # {}
      BY <3>2
    <3>3. CASE ConnectionLost \/ ConnectionClosed
      BY <3>2, <3>3, ZenonT(60) DEF ConnectionLost, ConnectionClosed, FlushWaitingForReply, FlushAll
    <3> QED BY <3>1, <3>3
  <2> QED BY <2>1, UnarmedKept
<1>4. CASE Reply
  <2>1. toWrite' = toWrite /\ waiting # <<>>
    BY <1>4 DEF Reply
  <2>2. HeadFirst'
    BY <2>1 DEF BatchInv, HeadFirst
  <2>3. CASE outcome' = outcome
    BY <1>2, <1>3, <2>2, <2>3 DEF BatchInv, WrittenKept, InvalidUnencodable,
                                  AdmittedWhole, CancelledWhole
  <2>4. CASE outcome' # outcome
    <3> DEFINE s == Head(waiting)
    <3>1. s[2] = "main" /\ Settle({s[1]}, "answered")
      BY <1>4, <2>4 DEF Reply
    <3>2. s \in Slot /\ s \in Elements(waiting)
      BY <1>1, <2>1, TailProperties
    <3> HIDE DEF s
    <3>3. s[1] \in Pending
      <4>1. s[1] \in Cmd /\ s = <<s[1], "main">>
        BY <3>1, <3>2 DEF Slot
      <4>2. s[1] \in InFlight
        BY <3>2, <4>1 DEF InFlight
      <4> QED BY <4>2, QueuedPending
    <3> DEFINE R == {s[1]}
    <3>r. R \subseteq Pending /\ Settle(R, "answered")
      BY <3>1, <3>3
    <3> HIDE DEF R
    <3>4. WrittenKept' /\ InvalidUnencodable' /\ AdmittedWhole' /\ CancelledWhole'
      BY <1>2, <3>r, SettleBatch
    <3> QED BY <1>3, <2>2, <3>4 DEF BatchInv
  <2> QED BY <2>3, <2>4
<1>5. CASE ConnectionLost
  <2>1. PICK k \in 0..Len(toWrite) :
          /\ toWrite' = SubSeq(toWrite, k + 1, Len(toWrite))
          /\ Settle(InFlight \cup Elements(SubSeq(toWrite, 1, k)), "lost")
    BY <1>5 DEF ConnectionLost, FlushWaitingForReply
  <2>2. HeadFirst'
    BY <1>1, <2>1, DropLeft, LeftWhole DEF BatchInv
  <2> DEFINE R == Elements(SubSeq(toWrite, 1, k))
  <2>3. R \subseteq Pending
    <3>1. R \subseteq Elements(toWrite)
      BY <1>1, SplitProperties
    <3> QED BY <3>1, QueuedPending DEF Elements
  <2> HIDE DEF R
  <2>4. InFlight \cup R \subseteq Pending /\ Settle(InFlight \cup R, "lost")
    BY <2>1, <2>3, QueuedPending DEF R
  <2>5. WrittenKept' /\ InvalidUnencodable' /\ AdmittedWhole' /\ CancelledWhole'
    BY <1>2, <2>4, SettleBatch
  <2> QED BY <1>3, <2>2, <2>5 DEF BatchInv
<1>6. CASE ConnectionClosed
  <2>1. toWrite' = <<>> /\ Settle(InFlight \cup Elements(toWrite), "closed")
    BY <1>6 DEF ConnectionClosed, FlushAll
  <2>2. HeadFirst'
    BY <2>1 DEF HeadFirst
  <2>3. InFlight \cup Elements(toWrite) \subseteq Pending
    BY QueuedPending DEF Elements
  <2>4. WrittenKept' /\ InvalidUnencodable' /\ AdmittedWhole' /\ CancelledWhole'
    BY <1>2, <2>1, <2>3, SettleBatch
  <2> QED BY <1>3, <2>2, <2>4 DEF BatchInv
<1> QED BY <1>4, <1>5, <1>6

(* Nothing is armed, written or cancelled in a new queue. *)
LEMMA InitBatch == Init => BatchInv
<1> SUFFICES ASSUME Init PROVE BatchInv
  OBVIOUS
<1>1. toWrite = <<>> /\ log = <<>>
  BY DEF Init
<1>2. \A c \in Cmd : armed[c] = {} /\ outcome[c] = "unused"
  BY DEF Init
<1>3. \A r \in Req : BodyCmds(r) \subseteq Cmd
  BY HeadIn, QueueAssumption, RequestAssumption
<1>4. HeadFirst /\ WrittenKept
  BY <1>1 DEF HeadFirst, WrittenKept
<1>5. MembersUnarmed /\ InvalidUnencodable /\ AdmittedWhole /\ CancelledWhole
  BY <1>2, <1>3 DEF MembersUnarmed, InvalidUnencodable, AdmittedWhole, CancelledWhole, Batches
<1> QED BY <1>4, <1>5 DEF BatchInv

(* Every operation of the queue keeps batches in order. *)
LEMMA NextBatch ==
    ASSUME ChainInv, BatchInv, [Next]_vars
    PROVE  BatchInv'
<1> USE QueueAssumption, RequestAssumption
<1>1. LogInv /\ LogInv'
  BY NextLog DEF ChainInv
<1>2. ASSUME NEW r \in Req, AddRequest(r) PROVE BatchInv'
  BY <1>1, <1>2, AddRequestBatch
<1>3. ASSUME NEW r \in Req, AddAsap(r) PROVE BatchInv'
  BY <1>1, <1>3, AddAsapBatch
<1>4. ASSUME NEW r \in Req, AddAborted(r) PROVE BatchInv'
  BY <1>1, <1>4, AddAbortedBatch
<1>5. ASSUME NEW c \in Cmd, NEW l \in Listener, FireListener(c, l) PROVE BatchInv'
  BY <1>1, <1>5, FireBatch
<1>6. CASE StartMaintenance \/ EndMaintenance \/ UNCHANGED vars
  <2>1. UNCHANGED <<toWrite, log, outcome>>
    BY <1>6 DEF StartMaintenance, EndMaintenance, vars, wireVars
  <2>2. \A c \in Cmd : armed'[c] # {} => armed[c] # {} \/ ~IsMember(c)
    BY <1>6 DEF StartMaintenance, EndMaintenance, vars
  <2>3. MembersUnarmed'
    BY <2>2, UnarmedKept
  <2> QED BY <2>1, <2>3 DEF BatchInv, HeadFirst, WrittenKept, InvalidUnencodable,
                            AdmittedWhole, CancelledWhole
<1>7. CASE Write \/ WriteUnencodable
  BY <1>1, <1>7, WriteBatch
<1>8. CASE Reply \/ ConnectionLost \/ ConnectionClosed
  BY <1>1, <1>8, FlushBatch
<1> QED BY <1>2, <1>3, <1>4, <1>5, <1>6, <1>7, <1>8 DEF Next

(* A transaction whose MULTI is sent is sent to its EXEC unless the        *)
(* connection goes: no limit, timeout or abort cuts it short.              *)
THEOREM TransactionsComplete == Spec => []MultiNotStranded
<1>1. ASSUME ChainInv, BatchInv PROVE MultiNotStranded
  <2>0. outcome \in [Cmd -> Outcome]
    BY <1>1 DEF ChainInv, LogInv, PromiseInv, TypeOK
  <2> SUFFICES ASSUME NEW r \in Req, KindOf[r] = "multi", BodyOf[r][1] \in Sent,
                      NEW c \in BodyCmds(r) \ Unencodable
               PROVE  outcome[c] \in {"pending", "answered", "lost", "closed"}
    BY DEF MultiNotStranded
  <2>1. BodyOf[r][1] \in BodyCmds(r) /\ c \in Cmd /\ r \in Batches
    BY HeadIn, QueueAssumption, RequestAssumption DEF Batches
  <2>2. outcome[BodyOf[r][1]] \in Written
    BY <1>1 DEF Sent, BatchInv, WrittenKept
  <2>3. outcome[c] \notin {"unused", "refused"}
    BY <1>1, <2>1, <2>2 DEF BatchInv, AdmittedWhole, Written
  <2>4. outcome[c] # "cancelled"
    BY <1>1, <2>1, <2>2 DEF BatchInv, CancelledWhole, Written
  <2>5. outcome[c] # "invalid"
    BY <1>1, <2>1 DEF BatchInv, InvalidUnencodable
  <2> QED BY <2>0, <2>1, <2>3, <2>4, <2>5 DEF Outcome
<1> QED BY <1>1, InitChain, NextChain, InitBatch, NextBatch, PTL DEF Spec

-----------------------------------------------------------------------------
(* The queue implements Delivery.                                          *)

(* The commands sent on this connection and not answered, oldest first. *)
Firsts(s) == [i \in DOMAIN s |-> s[i][1]]
Flight == Firsts(MainSlots)

-----------------------------------------------------------------------------
(* What is in flight.                                                      *)

LEMMA FirstsProperties ==
    ASSUME NEW s \in Seq(Slot)
    PROVE  /\ Firsts(s) \in Seq(Cmd) /\ Len(Firsts(s)) = Len(s)
           /\ DOMAIN Firsts(s) = 1..Len(s)
           /\ \A i \in 1..Len(s) : Firsts(s)[i] = s[i][1]
<1>1. DOMAIN s = 1..Len(s) /\ Len(s) \in Nat
  OBVIOUS
<1>2. \A i \in 1..Len(s) : s[i] \in Slot
  OBVIOUS
<1>3. \A i \in 1..Len(s) : s[i][1] \in Cmd
  BY <1>2 DEF Slot
<1>4. Firsts(s) \in [1..Len(s) -> Cmd]
  BY <1>1, <1>3 DEF Firsts
<1>5. Firsts(s) \in Seq(Cmd)
  BY <1>1, <1>4
<1> QED BY <1>1, <1>4, <1>5 DEF Firsts

(* Two sequences with the same entries are the same. *)
LEMMA SameSequence ==
    ASSUME NEW S, NEW s \in Seq(S), NEW t \in Seq(S), Len(s) = Len(t),
           \A i \in 1..Len(s) : s[i] = t[i]
    PROVE  s = t
OBVIOUS

(* The commands of two sequences of entries put together. *)
LEMMA FirstsConcat ==
    ASSUME NEW s \in Seq(Slot), NEW t \in Seq(Slot)
    PROVE  Firsts(s \o t) = Firsts(s) \o Firsts(t)
<1> DEFINE u == s \o t
           v == Firsts(s) \o Firsts(t)
<1>1. /\ u \in Seq(Slot) /\ Len(u) = Len(s) + Len(t) /\ Len(s) \in Nat /\ Len(t) \in Nat
      /\ \A i \in 1..Len(s) : u[i] = s[i]
      /\ \A i \in 1..Len(t) : u[Len(s) + i] = t[i]
  OBVIOUS
<1>2. /\ Firsts(s) \in Seq(Cmd) /\ Len(Firsts(s)) = Len(s)
      /\ \A i \in 1..Len(s) : Firsts(s)[i] = s[i][1]
      /\ Firsts(t) \in Seq(Cmd) /\ Len(Firsts(t)) = Len(t)
      /\ \A i \in 1..Len(t) : Firsts(t)[i] = t[i][1]
  BY FirstsProperties
<1> HIDE DEF u
<1>3. /\ Firsts(u) \in Seq(Cmd) /\ Len(Firsts(u)) = Len(u)
      /\ \A i \in 1..Len(u) : Firsts(u)[i] = u[i][1]
  BY <1>1, FirstsProperties
<1>4. /\ v \in Seq(Cmd) /\ Len(v) = Len(s) + Len(t)
      /\ \A i \in 1..Len(s) : v[i] = Firsts(s)[i]
      /\ \A i \in 1..Len(t) : v[Len(s) + i] = Firsts(t)[i]
  <2> DEFINE p == Firsts(s)
             q == Firsts(t)
  <2>1. p \in Seq(Cmd) /\ q \in Seq(Cmd)
    BY <1>2
  <2>2. Len(p) = Len(s) /\ Len(q) = Len(t)
    BY <1>2
  <2> HIDE DEF p, q
  <2>3. /\ p \o q \in Seq(Cmd) /\ Len(p \o q) = Len(p) + Len(q)
        /\ \A i \in 1..Len(p) : (p \o q)[i] = p[i]
        /\ \A i \in 1..Len(q) : (p \o q)[Len(p) + i] = q[i]
    BY ONLY <2>1, ConcatIndex, SMTT(30)
  <2> QED BY <2>2, <2>3 DEF p, q
<1> HIDE DEF v
<1>5. ASSUME NEW i \in 1..Len(u) PROVE Firsts(u)[i] = v[i]
  <2>1. CASE i <= Len(s)
    <3>1. i \in 1..Len(s)
      BY <1>1, <2>1
    <3>2. v[i] = Firsts(s)[i] /\ u[i] = s[i]
      BY <1>1, <1>4, <3>1
    <3> QED BY <1>2, <1>3, <3>1, <3>2
  <2>2. CASE i > Len(s)
    <3>1. i - Len(s) \in 1..Len(t) /\ Len(s) + (i - Len(s)) = i
      BY <1>1, <2>2
    <3>2. v[i] = Firsts(t)[i - Len(s)] /\ u[i] = t[i - Len(s)]
      BY <1>1, <1>4, <3>1
    <3> QED BY <1>2, <1>3, <3>1, <3>2
  <2> QED BY <1>1, <2>1, <2>2
<1>6. Firsts(u) = v
  BY <1>1, <1>3, <1>4, <1>5, SameSequence
<1> QED BY <1>6 DEF u, v

(* A single element is kept or not. *)
LEMMA FilterOne ==
    ASSUME NEW S, NEW x \in S, NEW keep
    PROVE  Filter(<<x>>, keep) = IF x \in keep THEN <<x>> ELSE <<>>
<1>1. <<x>> = Append(<<>>, x) /\ <<>> \in Seq(S)
  OBVIOUS
<1>2. Filter(Append(<<>>, x), keep) =
          IF x \in keep THEN Append(Filter(<<>>, keep), x) ELSE Filter(<<>>, keep)
  BY <1>1, FilterAppend
<1> QED BY <1>1, <1>2, FilterEmpty

(* What the callers see in flight are the main entries of waitingForReply. *)
LEMMA MainType ==
    ASSUME waiting \in Seq(Slot)
    PROVE  /\ MainSlots \in Seq(Slot) /\ Flight \in Seq(Cmd)
           /\ Elements(Flight) = InFlight
<1> DEFINE K == Cmd \X {"main"}
           s == MainSlots
<1>1. s \in Seq(Slot) /\ Elements(s) = Elements(waiting) \cap K
  <2> DEFINE f == Filter(waiting, K)
  <2> HIDE DEF K
  <2>1. f \in Seq(Slot) /\ {f[i] : i \in DOMAIN f} = {waiting[i] : i \in DOMAIN waiting} \cap K
    BY ONLY waiting \in Seq(Slot), FilterType, SMTT(60)
  <2>2. s = f
    BY DEF MainSlots, K
  <2> HIDE DEF f, s
  <2> QED BY <2>1, <2>2 DEF Elements
<1> HIDE DEF s, K
<1>2. Flight \in Seq(Cmd) /\ DOMAIN Flight = 1..Len(s) /\ \A i \in 1..Len(s) : Flight[i] = s[i][1]
  BY <1>1, FirstsProperties DEF Flight, s
<1>3. DOMAIN s = 1..Len(s)
  BY <1>1
<1>4. ASSUME NEW c \in Elements(Flight) PROVE c \in InFlight
  <2>1. PICK i \in 1..Len(s) : c = s[i][1]
    BY <1>2 DEF Elements
  <2>2. s[i] \in Elements(waiting) /\ s[i] \in K
    BY <1>1, <1>3 DEF Elements
  <2>3. c \in Cmd /\ s[i] = <<c, "main">>
    BY <2>1, <2>2 DEF K
  <2> QED BY <2>2, <2>3 DEF InFlight
<1>5. ASSUME NEW c \in InFlight PROVE c \in Elements(Flight)
  <2>1. c \in Cmd /\ <<c, "main">> \in Elements(waiting)
    BY DEF InFlight
  <2>2. <<c, "main">> \in Elements(s)
    BY <1>1, <2>1 DEF K
  <2>3. PICK i \in 1..Len(s) : s[i] = <<c, "main">>
    BY <1>3, <2>2 DEF Elements
  <2> QED BY <1>2, <2>3 DEF Elements
<1> QED BY <1>1, <1>2, <1>4, <1>5 DEF s

(* A command that is written is the last one in flight. *)
LEMMA FlightWrite ==
    ASSUME waiting \in Seq(Slot), NEW c \in Cmd, waiting' = waiting \o SlotsOf(c)
    PROVE  Flight' = Append(Flight, c)
<1> DEFINE K == Cmd \X {"main"}
           m == <<c, "main">>
           p == <<c, "prelude">>
<1>1. /\ m \in Slot /\ p \in Slot /\ m \in K /\ p \notin K /\ m[1] = c
  BY DEF Slot
<1>2. SlotsOf(c) \in Seq(Slot)
  BY SlotsProperties
<1>3. SlotsOf(c) = <<m>> \/ SlotsOf(c) = <<p, m>>
  BY DEF SlotsOf
<1> HIDE DEF m, p, K
<1>4. Filter(<<m>>, K) = <<m>> /\ Filter(<<p>>, K) = <<>> /\ <<p>> \in Seq(Slot)
  BY <1>1, FilterOne
<1>5. Filter(Append(<<p>>, m), K) = Append(Filter(<<p>>, K), m)
  BY <1>1, <1>4, FilterAppend, ZenonT(60)
<1>6. Filter(SlotsOf(c), K) = <<m>>
  <2>1. <<p, m>> = Append(<<p>>, m) /\ Append(<<>>, m) = <<m>> /\ <<m>> \in Seq(Slot)
    BY <1>1
  <2> QED BY <1>3, <1>4, <1>5, <2>1
<1>7. MainSlots' = Filter(waiting, K) \o Filter(SlotsOf(c), K)
  BY <1>2, FilterConcat DEF MainSlots, K
<1>8. MainSlots' = MainSlots \o <<m>>
  BY <1>6, <1>7 DEF MainSlots, K
<1>9. Firsts(<<m>>) = <<c>>
  BY <1>1 DEF Firsts
<1>10. Firsts(MainSlots \o <<m>>) = Firsts(MainSlots) \o Firsts(<<m>>)
  <2>1. MainSlots \in Seq(Slot) /\ <<m>> \in Seq(Slot)
    BY <1>1, MainType
  <2> QED BY ONLY <2>1, FirstsConcat
<1>11. Flight' = Flight \o <<c>>
  BY <1>8, <1>9, <1>10 DEF Flight
<1>12. Flight \in Seq(Cmd)
  BY MainType
<1> QED BY <1>11, <1>12

(* The reply to a command takes the first one in flight, the reply to a    *)
(* prelude takes none.                                                     *)
LEMMA FlightReply ==
    ASSUME waiting \in Seq(Slot), waiting # <<>>, waiting' = Tail(waiting)
    PROVE  IF Head(waiting)[2] = "main"
           THEN /\ Flight # <<>> /\ Head(Flight) = Head(waiting)[1]
                /\ Flight' = Tail(Flight)
           ELSE Flight' = Flight
<1> DEFINE K == Cmd \X {"main"}
           h == Head(waiting)
           s == Filter(Tail(waiting), K)
<1>1. h \in Slot /\ Tail(waiting) \in Seq(Slot) /\ waiting = <<h>> \o Tail(waiting)
      /\ <<h>> \in Seq(Slot)
  OBVIOUS
<1>2. h \in K <=> h[2] = "main"
  BY <1>1 DEF Slot
<1>3. h[1] \in Cmd
  BY <1>1 DEF Slot
<1> HIDE DEF h, K
<1>4. s \in Seq(Slot)
  BY <1>1, FilterType
<1>5. MainSlots = Filter(<<h>>, K) \o s /\ MainSlots' = s
  <2>1. Filter(<<h>> \o Tail(waiting), K) = Filter(<<h>>, K) \o Filter(Tail(waiting), K)
    <3> DEFINE a == <<h>>
               b == Tail(waiting)
    <3>1. a \in Seq(Slot) /\ b \in Seq(Slot)
      BY <1>1
    <3> HIDE DEF a, b
    <3>2. Filter(a \o b, K) = Filter(a, K) \o Filter(b, K)
      BY ONLY <3>1, FilterConcat
    <3> QED BY <3>2 DEF a, b
  <2>2. MainSlots = Filter(waiting, K) /\ MainSlots' = Filter(waiting', K)
    BY DEF MainSlots, K
  <2> QED BY <1>1, <2>1, <2>2
<1>6. Filter(<<h>>, K) = IF h \in K THEN <<h>> ELSE <<>>
  BY <1>1, FilterOne
<1> HIDE DEF s
<1>7. Flight' = Firsts(s) /\ Firsts(s) \in Seq(Cmd)
  BY <1>4, <1>5, FirstsProperties DEF Flight
<1>8. CASE h[2] = "main"
  <2>1. Flight = Firsts(<<h>>) \o Firsts(s)
    BY <1>1, <1>2, <1>4, <1>5, <1>6, <1>8, FirstsConcat DEF Flight
  <2>2. Firsts(<<h>>) = <<h[1]>>
    BY DEF Firsts
  <2>3. Flight = <<h[1]>> \o Firsts(s)
    BY <2>1, <2>2
  <2>4. Flight # <<>> /\ Head(Flight) = h[1] /\ Tail(Flight) = Firsts(s)
    BY ONLY <1>3, <1>7, <2>3
  <2> QED BY <1>7, <1>8, <2>4 DEF h
<1>9. CASE h[2] # "main"
  <2>1. MainSlots = s
    <3>1. MainSlots = <<>> \o s
      BY <1>2, <1>5, <1>6, <1>9
    <3> QED BY ONLY <1>4, <3>1
  <2> QED BY <1>7, <1>9, <2>1 DEF Flight, h
<1> QED BY <1>8, <1>9

(* A new connection has nothing in flight. *)
LEMMA FlightEmpty ==
    ASSUME waiting = <<>>
    PROVE  Flight = <<>>
<1>1. MainSlots = <<>>
  BY FilterEmpty DEF MainSlots
<1> QED BY <1>1 DEF Flight, Firsts

-----------------------------------------------------------------------------
(* The steps of Delivery, in the terms of the queue.                       *)

(* The parts of a request and the pending promises are the same in both. *)
LEMMA SameParts ==
    /\ Callers!Pending = Pending
    /\ \A r \in Req : Callers!Body(r) = BodyCmds(r) /\ Callers!All(r) = CmdsOf(r)
    /\ \A S, what : Callers!Settle(S, what) <=> Settle(S, what)
<1>1. \A r \in Req : Callers!Body(r) = BodyCmds(r)
  BY DEF Callers!Body, BodyCmds
<1>2. \A r \in Req : Callers!All(r) = CmdsOf(r)
  BY <1>1 DEF Callers!All, CmdsOf
<1>3. Callers!Pending = Pending
  BY DEF Callers!Pending, Pending
<1>4. \A S, what : Callers!Settle(S, what) <=> Settle(S, what)
  BY DEF Callers!Settle, Settle
<1> QED BY <1>1, <1>2, <1>3, <1>4

(* A step that sends and answers nothing and settles no promise is not     *)
(* visible to the callers.                                                 *)
LEMMA Invisible ==
    ASSUME outcome' = outcome, log' = log, Flight' = Flight
    PROVE  UNCHANGED Callers!vars
BY DEF Callers!vars, Sent, Flight, Firsts

(* A request accepted in whole or in part is a Submit of the callers. *)
LEMMA IsSubmit ==
    ASSUME QueueAssumption, RequestAssumption, NEW r \in Req, Unused(r),
           outcome' \in [Cmd -> Outcome],
           \A c \in Cmd : c \notin CmdsOf(r) => outcome'[c] = outcome[c],
           \A c \in CmdsOf(r) : outcome'[c] \in {"pending", "refused"},
           log' = log, Flight' = Flight
    PROVE  Callers!Next
<1> DEFINE S == {c \in CmdsOf(r) : outcome'[c] = "pending"}
<1>1. outcome' = [c \in Cmd |-> IF c \in S THEN "pending"
                                ELSE IF c \in CmdsOf(r) THEN "refused" ELSE outcome[c]]
  BY Zenon
<1>2. S \in SUBSET CmdsOf(r)
  OBVIOUS
<1> HIDE DEF S
<1>3. Callers!All(r) = CmdsOf(r)
  BY SameParts
<1>4. Callers!Submit(r)
  <2>1. \A c \in Callers!All(r) : outcome[c] = "unused"
    BY <1>3 DEF Unused
  <2>2. \E T \in SUBSET Callers!All(r) :
          outcome' = [c \in Cmd |-> IF c \in T THEN "pending"
                                    ELSE IF c \in Callers!All(r) THEN "refused" ELSE outcome[c]]
    <3> DEFINE A == Callers!All(r)
    <3>1. A = CmdsOf(r)
      BY <1>3
    <3> HIDE DEF A
    <3>2. S \in SUBSET A
      BY <1>2, <3>1
    <3>3. outcome' = [c \in Cmd |-> IF c \in S THEN "pending"
                                    ELSE IF c \in A THEN "refused" ELSE outcome[c]]
      BY <1>1, <3>1, Zenon
    <3> QED BY <3>2, <3>3, Zenon DEF A
  <2>3. UNCHANGED <<Sent, [i \in DOMAIN MainSlots |-> MainSlots[i][1]]>>
    BY DEF Sent, Flight, Firsts
  <2> QED BY <2>1, <2>2, <2>3, Zenon DEF Callers!Submit
<1> QED BY <1>4 DEF Callers!Next

(* Removing a batch of which nothing was sent, or an ASKING, is a Cancel. *)
LEMMA IsCancel ==
    ASSUME NEW r \in Req, log' = log, Flight' = Flight,
           \/ /\ BodyCmds(r) \cap Sent = {}
              /\ Len(BodyOf[r]) > 1 => LeadOf[r] \notin Sent
              /\ Settle(BodyCmds(r) \cap Pending, "cancelled")
           \/ LeadOf[r] \in Pending \ Sent /\ Settle({LeadOf[r]}, "cancelled")
    PROVE  Callers!Next
<1>1. Callers!Body(r) = BodyCmds(r) /\ Callers!Pending = Pending
  BY SameParts
<1>2. \A S, what : Callers!Settle(S, what) <=> Settle(S, what)
  BY SameParts
<1>3. Callers!Cancel(r)
  BY <1>1, <1>2 DEF Callers!Cancel, Sent, Flight, Firsts
<1> QED BY <1>3 DEF Callers!Next

(* Writing a command is a Send. *)
LEMMA IsSend ==
    ASSUME NEW c \in Cmd, c \in Pending, c \notin Sent, Sent' = Sent \cup {c},
           Flight' = Append(Flight, c), outcome' = outcome
    PROVE  Callers!Next
<1>1. Callers!Send(c)
  BY SameParts DEF Callers!Send, Flight, Firsts
<1> QED BY <1>1 DEF Callers!Next

(* Dropping a command that cannot be encoded is a Skip. *)
LEMMA IsSkip ==
    ASSUME NEW c \in Cmd, c \in Pending, c \notin Sent, Settle({c}, "invalid"),
           log' = log, Flight' = Flight
    PROVE  Callers!Next
<1>1. Callers!Skip(c)
  BY SameParts DEF Callers!Skip, Sent, Flight, Firsts
<1> QED BY <1>1 DEF Callers!Next

(* The reply of the first command in flight is an Answer. *)
LEMMA IsAnswer ==
    ASSUME Flight # <<>>, Flight' = Tail(Flight), Settle({Head(Flight)}, "answered"), log' = log
    PROVE  Callers!Next
<1>1. Callers!Answer
  BY SameParts DEF Callers!Answer, Sent, Flight, Firsts
<1> QED BY <1>1 DEF Callers!Next

(* The rest of the chains of which something was sent. *)
Rest == {c \in Pending \ Sent : ChainOf[c] # NoChain /\ \E d \in Sent : ChainOf[d] = ChainOf[c]}

(* Rejecting what was in flight and the rest of its chains is a Lose. *)
LEMMA IsLose ==
    ASSUME Settle(Elements(Flight) \cup Rest, "lost"), Flight' = <<>>, log' = log
    PROVE  Callers!Next
<1>1. Callers!Remainder = Rest
  BY SameParts DEF Callers!Remainder, Rest
<1>2. Callers!Lose
  BY <1>1, SameParts DEF Callers!Lose, Sent, Flight, Firsts, Elements
<1> QED BY <1>2 DEF Callers!Next

(* Rejecting everything is a Close. *)
LEMMA IsClose ==
    ASSUME Settle(Pending, "closed"), Flight' = <<>>, log' = log
    PROVE  Callers!Next
<1>1. Callers!Close
  BY SameParts DEF Callers!Close, Sent, Flight, Firsts
<1> QED BY <1>1 DEF Callers!Next

-----------------------------------------------------------------------------
(* Every step of the queue is one of those.                                *)

(* What is in flight was sent. *)
FlightSent == InFlight \subseteq Sent

DeliveryInv == ChainInv /\ BatchInv /\ FlightSent

(* What the invariants say of types, of the queue and of what was sent. *)
LEMMA DeliveryFacts ==
    ASSUME DeliveryInv
    PROVE  /\ LogInv /\ TypeOK /\ toWrite \in Seq(Cmd) /\ waiting \in Seq(Slot)
           /\ DOMAIN toWrite = 1..Len(toWrite) /\ Len(toWrite) \in Nat
           /\ Pending = Elements(toWrite) \cup InFlight
           /\ Elements(toWrite) \cap Sent = {}
           /\ \A i \in DOMAIN toWrite :
                toWrite[i] \in Elements(toWrite) /\ toWrite[i] \in Pending /\ toWrite[i] \notin Sent
<1>1. LogInv /\ TypeOK /\ toWrite \in Seq(Cmd) /\ waiting \in Seq(Slot)
  BY DEF DeliveryInv, ChainInv, LogInv, PromiseInv, TypeOK
<1>2. Pending = Elements(toWrite) \cup InFlight
  BY <1>1 DEF LogInv, PromiseInv
<1>3. Elements(toWrite) \cap Sent = {}
  BY <1>1 DEF LogInv, Sent
<1>4. \A i \in DOMAIN toWrite : toWrite[i] \in Elements(toWrite)
  BY DEF Elements
<1> QED BY <1>1, <1>2, <1>3, <1>4

(* addCommand and addBatch, accepted, refused or aborted. *)
LEMMA AddStep ==
    ASSUME QueueAssumption, RequestAssumption, DeliveryInv, LogInv', NEW r \in Req,
           AddRequest(r) \/ AddAsap(r) \/ AddAborted(r)
    PROVE  Callers!Next
<1>1. TypeOK
  BY DeliveryFacts
<1>2. Unused(r) /\ log' = log /\ waiting' = waiting
  BY DEF AddRequest, AddAsap, AddAborted, wireVars
<1>3. Flight' = Flight
  BY <1>2 DEF Flight, MainSlots
<1>4. outcome' \in [Cmd -> Outcome]
  BY DEF LogInv, PromiseInv, TypeOK
<1>5. /\ \A c \in Cmd : c \notin CmdsOf(r) => outcome'[c] = outcome[c]
      /\ \A c \in CmdsOf(r) : outcome'[c] \in {"pending", "refused"}
  BY <1>1, AddOutcome
<1> QED BY <1>2, <1>3, <1>4, <1>5, IsSubmit

(* The commands of a batch, and its ASKING, are of one chain. *)
LEMMA BatchChain ==
    ASSUME QueueAssumption, RequestAssumption, NEW r \in Batches, NEW c \in CmdsOf(r), NEW d
    PROVE  /\ ChainOf[c] # NoChain /\ r \in Req
           /\ d \in CmdsOf(r) => ChainOf[d] = ChainOf[c]
           /\ d \in Cmd /\ ChainOf[d] = ChainOf[c] => d \in CmdsOf(r)
<1>1. r \in Req /\ KindOf[r] \in {"pipeline", "multi"}
  BY DEF Batches
<1>2. PICK ch \in Chain : \A x \in CmdsOf(r) : ChainOf[x] = ch
  BY <1>1 DEF RequestAssumption
<1>3. ch # NoChain
  BY DEF QueueAssumption
<1>4. ASSUME d \in Cmd, ChainOf[d] = ChainOf[c] PROVE d \in CmdsOf(r)
  <2>1. PICK s \in Req : d \in CmdsOf(s)
    BY <1>4 DEF RequestAssumption
  <2>2. s = r
    BY <1>1, <1>2, <1>3, <1>4, <2>1 DEF RequestAssumption
  <2> QED BY <2>1, <2>2
<1> QED BY <1>1, <1>2, <1>3, <1>4

(* #rejectCommand on the head of a batch that is not started takes all     *)
(* that is pending of it, and nothing of it was sent.                      *)
LEMMA HeadRun ==
    ASSUME QueueAssumption, RequestAssumption, DeliveryInv, NEW i \in DOMAIN toWrite,
           NEW j \in i..Len(toWrite), BatchRun(i, j), ~IsBatchStarted(toWrite[i]),
           NEW s \in Batches, BodyOf[s][1] = toWrite[i]
    PROVE  /\ CmdsOf(s) \cap Sent = {}
           /\ {toWrite[m] : m \in i..j} = BodyCmds(s) \cap Pending
<1> DEFINE c == toWrite[i]
<1>1. /\ toWrite \in Seq(Cmd) /\ DOMAIN toWrite = 1..Len(toWrite) /\ Len(toWrite) \in Nat
      /\ i \in Nat /\ j \in Nat /\ i <= j /\ j <= Len(toWrite)
      /\ Pending = Elements(toWrite) \cup InFlight
      /\ \A m \in DOMAIN toWrite : toWrite[m] \in Pending
      /\ \A m \in i..j : m \in DOMAIN toWrite
  BY DeliveryFacts
<1>2. s \in Req /\ c \in BodyCmds(s) /\ c \in CmdsOf(s) /\ IsHead(c) /\ c = BodyOf[s][1]
  BY HeadIn DEF Batches, IsHead
<1> HIDE DEF c
<1>3. /\ ChainOf[c] # NoChain
      /\ \A d \in CmdsOf(s) : ChainOf[d] = ChainOf[c]
      /\ \A d \in Cmd : ChainOf[d] = ChainOf[c] => d \in CmdsOf(s)
  BY <1>2, BatchChain
<1>4. CmdsOf(s) \cap Sent = {}
  <2> SUFFICES ASSUME NEW g \in DOMAIN log, log[g].cmd \in CmdsOf(s) PROVE FALSE
    BY DEF Sent
  <2>1. SameChain(log[g].cmd, toWrite[i])
    BY <1>3 DEF SameChain, c
  <2>2. chainInExecution = ChainOf[toWrite[i]]
    BY <2>1 DEF DeliveryInv, ChainInv, StartedInFront
  <2> QED BY <1>2, <1>3, <2>2 DEF IsBatchStarted, c
<1>5. /\ \A m \in (i + 1)..j : IsMember(toWrite[m]) /\ ChainOf[toWrite[m]] = ChainOf[c]
      /\ j < Len(toWrite) => ~(IsMember(toWrite[j + 1]) /\ ChainOf[toWrite[j + 1]] = ChainOf[c])
  BY <1>2 DEF BatchRun, c
<1>6. ASSUME NEW m \in i..j PROVE toWrite[m] \in BodyCmds(s) \cap Pending
  <2>1. toWrite[m] \in Pending /\ m \in DOMAIN toWrite
    BY <1>1
  <2>2. CASE m = i
    BY <1>2, <2>1, <2>2 DEF c
  <2>3. CASE m # i
    <3>1. m \in (i + 1)..j
      BY ONLY <1>1, <2>3, m \in i..j
    <3>2. PICK u \in Batches : toWrite[m] \in BodyCmds(u)
      BY <1>5, <3>1 DEF IsMember
    <3>3. u \in Req /\ toWrite[m] \in CmdsOf(u) /\ toWrite[m] \in Cmd
      BY <3>2, HeadIn DEF Batches
    <3>4. toWrite[m] \in CmdsOf(s)
      BY <1>3, <1>5, <3>1, <3>3
    <3>5. u = s
      BY <1>2, <3>3, <3>4, OneRequest
    <3> QED BY <2>1, <3>2, <3>5
  <2> QED BY <2>2, <2>3
<1>7. ASSUME NEW d \in BodyCmds(s) \cap Pending PROVE \E m \in i..j : d = toWrite[m]
  <2>1. d \in CmdsOf(s)
    BY <1>2, HeadIn
  <2>2. d \in Elements(toWrite)
    BY <1>1, <1>4, <2>1 DEF DeliveryInv, FlightSent
  <2>3. PICK m \in DOMAIN toWrite : d = toWrite[m]
    BY <2>2 DEF Elements
  <2>4. i <= m /\ m \in Nat
    BY <1>1, <1>2, <2>3 DEF DeliveryInv, BatchInv, HeadFirst, c
  <2>5. m <= j
    <3> SUFFICES ASSUME m > j PROVE FALSE
      BY <1>1, <2>4
    <3>1. j + 1 \in i..m /\ j < Len(toWrite) /\ j + 1 \in DOMAIN toWrite /\ j + 1 > i
      BY <1>1, <2>4, SMTT(60)
    <3>2. SameChain(toWrite[i], toWrite[m])
      BY <1>3, <2>1, <2>3 DEF SameChain, c
    <3>3. ChainOf[toWrite[j + 1]] = ChainOf[toWrite[i]]
      BY <3>1, <3>2 DEF DeliveryInv, ChainInv, QueueWhole
    <3>4. toWrite[j + 1] \in CmdsOf(s) /\ toWrite[j + 1] \in Cmd
      <4>1. toWrite[j + 1] \in Cmd
        BY ONLY <1>1, <3>1
      <4> QED BY <1>3, <3>3, <4>1 DEF c
    <3>5. toWrite[j + 1] # BodyOf[s][1]
      <4>1. Distinct(toWrite)
        BY DEF DeliveryInv, ChainInv, LogInv, PromiseInv
      <4>2. toWrite[j + 1] # toWrite[i]
        BY <1>1, <3>1, <4>1 DEF Distinct
      <4> QED BY <4>2
    <3>6. toWrite[j + 1] # LeadOf[s]
      <4> SUFFICES ASSUME toWrite[j + 1] = LeadOf[s] PROVE FALSE
        OBVIOUS
      <4>1. j + 1 < i
        BY <3>1 DEF DeliveryInv, BatchInv, HeadFirst
      <4> QED BY ONLY <1>1, <3>1, <4>1
    <3>7. toWrite[j + 1] \in BodyCmds(s)
      BY <3>4, <3>6 DEF CmdsOf
    <3>8. IsMember(toWrite[j + 1])
      BY <3>5, <3>7 DEF IsMember
    <3> QED BY <1>5, <3>1, <3>3, <3>8 DEF c
  <2>6. m \in i..j
    BY ONLY <1>1, <2>4, <2>5
  <2> QED BY <2>3, <2>6
<1> QED BY <1>4, <1>6, <1>7

(* A listener that fires cancels a batch, a command or an ASKING. *)
LEMMA FireStep ==
    ASSUME QueueAssumption, RequestAssumption, DeliveryInv, NEW c \in Cmd, NEW l \in Listener,
           FireListener(c, l)
    PROVE  Callers!Next \/ UNCHANGED Callers!vars
<1>1. log' = log /\ waiting' = waiting
  BY DEF FireListener, wireVars
<1>2. Flight' = Flight
  BY <1>1 DEF Flight, MainSlots
<1>3. CASE outcome' = outcome
  BY <1>1, <1>2, <1>3, Invisible
<1>4. CASE outcome' # outcome
  <2>1. PICK i \in DOMAIN toWrite : toWrite[i] = c /\ RejectCommand(i) /\ ~IsBatchStarted(c)
    BY <1>4 DEF FireListener
  <2>2. PICK j \in i..Len(toWrite) :
          BatchRun(i, j) /\ Settle(Elements(SubSeq(toWrite, i, j)), "cancelled")
    BY <2>1 DEF RejectCommand
  <2>3. /\ toWrite \in Seq(Cmd) /\ i \in 1..(Len(toWrite) + 1) /\ j \in 0..Len(toWrite)
        /\ c \in Pending /\ c \notin Sent /\ i \in Nat
    BY <2>1, DeliveryFacts
  <2> DEFINE R == {toWrite[m] : m \in i..j}
  <2>4. Elements(SubSeq(toWrite, i, j)) = R
    BY ONLY <2>3, SliceProperties
  <2>5. Settle(R, "cancelled")
    BY <2>2, <2>4
  <2> HIDE DEF R
  <2>6. CASE IsHead(c)
    <3>1. PICK s \in Batches : BodyOf[s][1] = c
      BY <2>6 DEF IsHead
    <3>2. s \in Req
      BY DEF Batches
    <3>3. CmdsOf(s) \cap Sent = {} /\ R = BodyCmds(s) \cap Pending
      BY <2>1, <2>2, <3>1, HeadRun DEF R
    <3>4. BodyCmds(s) \cap Sent = {}
      BY <3>2, <3>3, HeadIn
    <3>5. LeadOf[s] \notin Sent
      <4>1. Sent \subseteq Cmd
        BY DeliveryFacts, LogTyped DEF Sent
      <4> QED BY <3>3, <4>1 DEF CmdsOf, QueueAssumption
    <3>6. Settle(BodyCmds(s) \cap Pending, "cancelled")
      BY <2>5, <3>3
    <3> QED BY <1>1, <1>2, <3>2, <3>4, <3>5, <3>6, IsCancel
  <2>7. CASE ~IsHead(c)
    <3>1. j = i
      BY <2>1, <2>2, <2>7 DEF BatchRun
    <3>2. R = {c}
      <4>1. \A m \in i..j : m = i
        BY ONLY <2>3, <3>1
      <4>2. i \in i..j
        BY ONLY <2>3, <3>1
      <4> QED BY <2>1, <4>1, <4>2 DEF R
    <3>3. Settle({c}, "cancelled")
      BY <2>5, <3>2
    <3>4. PICK r \in Req : c \in CmdsOf(r)
      BY DEF RequestAssumption
    <3>5. CASE c = LeadOf[r]
      BY <1>1, <1>2, <2>3, <3>3, <3>5, IsCancel
    <3>6. CASE c # LeadOf[r]
      <4>1. c \in BodyCmds(r)
        BY <3>4, <3>6 DEF CmdsOf
      <4>2. ~IsMember(c)
        BY DEF DeliveryInv, BatchInv, MembersUnarmed, FireListener
      <4>3. r \notin Batches
        BY <2>7, <4>1, <4>2 DEF IsMember, IsHead
      <4>4. Len(BodyOf[r]) = 1 /\ BodyOf[r] \in Seq(Cmd)
        BY <4>3 DEF Batches, RequestAssumption, QueueAssumption
      <4>5. BodyCmds(r) = {c}
        <5>1. DOMAIN BodyOf[r] = {1}
          BY ONLY <4>4
        <5> QED BY <4>1, <5>1 DEF BodyCmds
      <4>6. BodyCmds(r) \cap Sent = {} /\ BodyCmds(r) \cap Pending = {c}
        BY <2>3, <4>5
      <4>7. ~(Len(BodyOf[r]) > 1)
        BY ONLY <4>4
      <4>8. Settle(BodyCmds(r) \cap Pending, "cancelled")
        BY <3>3, <4>6
      <4> QED BY <1>1, <1>2, <4>6, <4>7, <4>8, IsCancel
    <3> QED BY <3>5, <3>6
  <2> QED BY <2>6, <2>7
<1> QED BY <1>3, <1>4

(* A command that is written is sent. *)
LEMMA WriteStep ==
    ASSUME DeliveryInv, LogInv', Write
    PROVE  Callers!Next /\ FlightSent'
<1> DEFINE c == toWrite[1]
<1>1. /\ LogInv /\ toWrite \in Seq(Cmd) /\ waiting \in Seq(Slot)
      /\ Pending = Elements(toWrite) \cup InFlight
  BY DeliveryFacts
<1>2. /\ toWrite # <<>> /\ Head(toWrite) = c /\ 1 \in DOMAIN toWrite
  BY <1>1 DEF Write
<1>3. c \in Cmd /\ c \in Pending /\ c \notin Sent
  <2>1. c \in Pending /\ c \notin Sent
    BY <1>2, DeliveryFacts
  <2> QED BY <2>1 DEF Pending
<1>4. waiting' = waiting \o SlotsOf(c) /\ outcome' = outcome /\ toWrite' = Tail(toWrite)
  BY <1>2 DEF Write
<1>5. /\ DOMAIN log = 1..Len(log) /\ Len(log) \in Nat
      /\ DOMAIN log' = 1..(Len(log) + 1)
      /\ \A i \in 1..Len(log) : log'[i] = log[i]
      /\ log'[Len(log) + 1].cmd = c
  BY <1>1, WriteHistory
<1>6. Elements(toWrite) = {c} \cup Elements(toWrite')
  BY <1>1, <1>2, <1>4, TailProperties
<1> HIDE DEF c
<1>7. Sent' = Sent \cup {c}
  <2>1. ASSUME NEW i \in DOMAIN log' PROVE log'[i].cmd \in Sent \cup {c}
    <3>1. i \in 1..Len(log) \/ i = Len(log) + 1
      BY ONLY <1>5, <2>1
    <3> QED BY <1>5, <3>1 DEF Sent
  <2>2. Sent \cup {c} \subseteq Sent'
    <3>1. ASSUME NEW i \in DOMAIN log PROVE log[i].cmd \in Sent'
      <4>1. i \in 1..Len(log) /\ i \in DOMAIN log'
        BY ONLY <1>5, <3>1
      <4> QED BY <1>5, <4>1 DEF Sent
    <3>2. Len(log) + 1 \in DOMAIN log'
      BY ONLY <1>5
    <3> QED BY <1>5, <3>1, <3>2 DEF Sent
  <2> QED BY <2>1, <2>2 DEF Sent
<1>8. Flight' = Append(Flight, c)
  BY <1>1, <1>3, <1>4, FlightWrite
<1>9. InFlight' \subseteq InFlight \cup {c}
  <2>1. Pending' = Pending /\ Pending' = Elements(toWrite') \cup InFlight'
        /\ Elements(toWrite') \cap InFlight' = {}
    BY <1>4 DEF Pending, LogInv, PromiseInv
  <2> QED BY <1>1, <1>6, <2>1
<1>10. FlightSent'
  BY <1>7, <1>9 DEF DeliveryInv, FlightSent
<1> QED BY <1>3, <1>4, <1>7, <1>8, <1>10, IsSend

(* A command that cannot be encoded is skipped. *)
LEMMA UnencodableStep ==
    ASSUME DeliveryInv, WriteUnencodable
    PROVE  Callers!Next
<1> DEFINE c == toWrite[1]
<1>1. toWrite \in Seq(Cmd) /\ toWrite # <<>>
  BY DeliveryFacts DEF WriteUnencodable
<1>2. Head(toWrite) = c /\ 1 \in DOMAIN toWrite
  BY <1>1
<1>3. c \in Cmd /\ c \in Pending /\ c \notin Sent
  <2>1. c \in Pending /\ c \notin Sent
    BY <1>2, DeliveryFacts
  <2> QED BY <2>1 DEF Pending
<1>4. Settle({c}, "invalid") /\ log' = log /\ waiting' = waiting
  BY <1>2 DEF WriteUnencodable, wireVars
<1>5. Flight' = Flight
  BY <1>4 DEF Flight, MainSlots
<1> QED BY <1>3, <1>4, <1>5, IsSkip

(* A reply answers the oldest command on the connection. *)
LEMMA ReplyStep ==
    ASSUME DeliveryInv, Reply
    PROVE  (Callers!Next \/ UNCHANGED Callers!vars) /\ FlightSent'
<1>1. /\ waiting \in Seq(Slot) /\ waiting # <<>> /\ waiting' = Tail(waiting) /\ log' = log
  BY DeliveryFacts DEF Reply
<1>2. IF Head(waiting)[2] = "main"
      THEN /\ Flight # <<>> /\ Head(Flight) = Head(waiting)[1]
           /\ Flight' = Tail(Flight)
      ELSE Flight' = Flight
  BY <1>1, FlightReply
<1>3. InFlight' \subseteq InFlight
  <2>1. Elements(waiting') \subseteq Elements(waiting)
    BY <1>1, TailProperties
  <2> QED BY <2>1 DEF InFlight
<1>4. FlightSent'
  BY <1>1, <1>3 DEF DeliveryInv, FlightSent, Sent
<1>5. CASE Head(waiting)[2] = "main"
  <2>1. Settle({Head(waiting)[1]}, "answered")
    BY <1>5 DEF Reply
  <2> QED BY <1>1, <1>2, <1>4, <1>5, <2>1, IsAnswer
<1>6. CASE Head(waiting)[2] # "main"
  <2>1. outcome' = outcome
    BY <1>6 DEF Reply
  <2> QED BY <1>1, <1>2, <1>4, <1>6, <2>1, Invisible
<1> QED BY <1>5, <1>6

(* flushWaitingForReply and flushAll settle what a lost or closed          *)
(* connection takes with it, and nothing else.                             *)
LEMMA LostStep ==
    ASSUME DeliveryInv, ConnectionLost
    PROVE  Callers!Next
<1>1. /\ toWrite \in Seq(Cmd) /\ waiting \in Seq(Slot)
      /\ DOMAIN toWrite = 1..Len(toWrite) /\ Len(toWrite) \in Nat
      /\ Pending = Elements(toWrite) \cup InFlight
      /\ \A m \in DOMAIN toWrite : toWrite[m] \in Pending /\ toWrite[m] \notin Sent
  BY DeliveryFacts
<1>2. PICK k \in 0..Len(toWrite) :
        /\ TailOfChain(k)
        /\ Settle(InFlight \cup Elements(SubSeq(toWrite, 1, k)), "lost")
  BY DEF ConnectionLost, FlushWaitingForReply
<1>3. waiting' = <<>> /\ log' = log
  BY DEF ConnectionLost, FlushWaitingForReply, NextConnection
<1> DEFINE P == Elements(SubSeq(toWrite, 1, k))
<1>4. P = {toWrite[m] : m \in 1..k}
  <2>1. 1 \in 1..(Len(toWrite) + 1)
    BY ONLY <1>1
  <2> QED BY ONLY <1>1, <2>1, k \in 0..Len(toWrite), SliceProperties
<1> HIDE DEF P
<1>5. \A m \in DOMAIN toWrite : m \in 1..k \/ m \in (k + 1)..Len(toWrite)
  BY ONLY <1>1, k \in 0..Len(toWrite)
<1>6. ASSUME NEW m \in 1..k PROVE toWrite[m] \in Rest
  <2>1. k # 0 /\ m \in DOMAIN toWrite
    BY ONLY <1>1, <1>6, k \in 0..Len(toWrite)
  <2>2. chainInExecution # NoChain /\ ChainOf[toWrite[m]] = chainInExecution
    BY <1>2, <2>1 DEF TailOfChain
  <2>3. \E d \in Sent : ChainOf[d] = chainInExecution
    BY <2>2 DEF DeliveryInv, ChainInv, ExecutionWritten, Sent
  <2> QED BY <1>1, <2>1, <2>2, <2>3 DEF Rest
<1>7. ASSUME NEW d \in Rest PROVE d \in InFlight \cup P
  <2>1. PICK g \in DOMAIN log : SameChain(log[g].cmd, d)
    BY DEF Rest, Sent, SameChain
  <2>2. CASE d \in Elements(toWrite)
    <3>1. PICK m \in DOMAIN toWrite : d = toWrite[m]
      BY <2>2 DEF Elements
    <3>2. m \notin (k + 1)..Len(toWrite)
      BY <1>2, <2>1, <3>1, TailCut DEF DeliveryInv
    <3> QED BY <1>4, <1>5, <3>1, <3>2
  <2> QED BY <1>1, <2>2 DEF Rest
<1>8. InFlight \cup P = Elements(Flight) \cup Rest
  BY <1>1, <1>4, <1>6, <1>7, MainType
<1>9. Settle(Elements(Flight) \cup Rest, "lost")
  BY <1>2, <1>8 DEF P
<1>10. Flight' = <<>>
  <2>1. MainSlots' = <<>>
    BY <1>3, FilterEmpty DEF MainSlots
  <2> QED BY <2>1 DEF Flight, Firsts
<1> QED BY <1>3, <1>9, <1>10, IsLose

(* flushAll. *)
LEMMA ClosedStep ==
    ASSUME DeliveryInv, ConnectionClosed
    PROVE  Callers!Next
<1>1. Pending = InFlight \cup Elements(toWrite)
  BY DeliveryFacts
<1>2. Settle(Pending, "closed") /\ waiting' = <<>> /\ log' = log
  BY <1>1 DEF ConnectionClosed, FlushAll, NextConnection
<1>3. Flight' = <<>>
  <2>1. MainSlots' = <<>>
    BY <1>2, FilterEmpty DEF MainSlots
  <2> QED BY <2>1 DEF Flight, Firsts
<1> QED BY <1>2, <1>3, IsClose

(* A new queue promises nothing yet. *)
LEMMA InitStep == Init => DeliveryInv /\ Callers!Init
<1> SUFFICES ASSUME Init PROVE DeliveryInv /\ Callers!Init
  OBVIOUS
<1>1. waiting = <<>> /\ log = <<>> /\ outcome = [c \in Cmd |-> "unused"]
  BY DEF Init
<1>2. InFlight = {} /\ Sent = {}
  BY <1>1 DEF InFlight, Elements, Sent
<1>3. DeliveryInv
  BY <1>2, InitChain, InitBatch DEF DeliveryInv, FlightSent
<1>4. Flight = <<>>
  BY <1>1, FlightEmpty
<1>5. Callers!Init
  BY <1>1, <1>2, <1>4 DEF Callers!Init, Flight, Firsts
<1> QED BY <1>3, <1>5

(* Every step of the queue is one its callers expect, or none. *)
LEMMA NextStep ==
    ASSUME DeliveryInv, [Next]_vars
    PROVE  DeliveryInv' /\ (Callers!Next \/ UNCHANGED Callers!vars)
<1> USE QueueAssumption, RequestAssumption
<1>1. ChainInv' /\ BatchInv'
  BY NextChain, NextBatch DEF DeliveryInv
<1>2. LogInv'
  BY <1>1 DEF ChainInv
<1>3. ASSUME waiting' = waiting \/ waiting' = <<>>, log' = log PROVE FlightSent'
  <2>1. InFlight' \subseteq InFlight
    BY <1>3 DEF InFlight, Elements
  <2> QED BY <1>3, <2>1 DEF DeliveryInv, FlightSent, Sent
<1>4. ASSUME NEW r \in Req, AddRequest(r) \/ AddAsap(r) \/ AddAborted(r)
      PROVE  FlightSent' /\ Callers!Next
  <2>1. waiting' = waiting /\ log' = log
    BY <1>4 DEF AddRequest, AddAsap, AddAborted, wireVars
  <2> QED BY <1>2, <1>3, <1>4, <2>1, AddStep
<1>5. ASSUME NEW c \in Cmd, NEW l \in Listener, FireListener(c, l)
      PROVE  FlightSent' /\ (Callers!Next \/ UNCHANGED Callers!vars)
  <2>1. waiting' = waiting /\ log' = log
    BY <1>5 DEF FireListener, wireVars
  <2> QED BY <1>3, <1>5, <2>1, FireStep
<1>6. CASE StartMaintenance \/ EndMaintenance \/ UNCHANGED vars
  <2>1. waiting' = waiting /\ log' = log /\ outcome' = outcome
    BY <1>6 DEF StartMaintenance, EndMaintenance, vars, wireVars
  <2>2. Flight' = Flight
    BY <2>1 DEF Flight, MainSlots
  <2> QED BY <1>1, <1>3, <2>1, <2>2, Invisible DEF DeliveryInv
<1>7. CASE Write
  BY <1>1, <1>2, <1>7, WriteStep DEF DeliveryInv
<1>8. CASE WriteUnencodable
  <2>1. waiting' = waiting /\ log' = log
    BY <1>8 DEF WriteUnencodable, wireVars
  <2> QED BY <1>1, <1>3, <1>8, <2>1, UnencodableStep DEF DeliveryInv
<1>9. CASE Reply
  BY <1>1, <1>9, ReplyStep DEF DeliveryInv
<1>10. CASE ConnectionLost \/ ConnectionClosed
  <2>1. waiting' = <<>> /\ log' = log
    BY <1>10 DEF ConnectionLost, ConnectionClosed, FlushWaitingForReply, FlushAll, NextConnection
  <2> QED BY <1>1, <1>3, <1>10, <2>1, LostStep, ClosedStep DEF DeliveryInv
<1> QED BY <1>1, <1>4, <1>5, <1>6, <1>7, <1>8, <1>9, <1>10 DEF Next, DeliveryInv

(* The commands queue keeps the promises of Delivery, whatever is          *)
(* submitted, cancelled, answered or lost.                                 *)
THEOREM QueueImplementsDelivery == Spec => ImplementsDelivery
<1>1. DeliveryInv /\ [Next]_vars => DeliveryInv'
  BY NextStep
<1>2. DeliveryInv /\ [Next]_vars => [Callers!Next]_(Callers!vars)
  BY NextStep
<1>3. Init => DeliveryInv /\ Callers!Init
  BY InitStep
<1> QED BY <1>1, <1>2, <1>3, PTL DEF Spec, ImplementsDelivery, Callers!Spec
=============================================================================
