----------------------------- MODULE ClientProofs -----------------------------
(***************************************************************************)
(* Until a loop of an earlier session goes on in a later one, and when a   *)
(* close() that was called is awaited before connect(), a client works     *)
(* towards one connection at a time, leaves none behind, is quiet when it  *)
(* is closed, and writes no command of a caller before a handshake.        *)
(***************************************************************************)
EXTENDS Client, FilterTheorems, FiniteSetTheorems, TLAPS

LoopState == [pc : {"idle", "creating", "initiating", "delay", "pause"}, att : 0..MaxAttempt, epoch : Nat]

SocketType ==
    /\ isOpen \in BOOLEAN
    /\ isReady \in BOOLEAN
    /\ socket \in 0..MaxAttempt
    /\ teardownEpoch \in Nat
    /\ loop \in [Loop -> LoopState]
    /\ phys \in [Attempt -> {"none", "connecting", "open", "closed"}]
    /\ attempts \in 0..MaxAttempt

(* A loop of the current session; one that was torn down may sleep on, or  *)
(* wait for a socket, beside it.                                           *)
Live(l) == loop[l].pc # "idle" /\ ~TornDown(l)

(* No two loops of the current session run, each loop owns an attempt, and *)
(* none was begun in a later epoch.                                        *)
OneLoop ==
    /\ \A l, m \in Loop : Live(l) /\ Live(m) => l = m
    /\ \A l \in Loop : loop[l].epoch <= teardownEpoch /\ loop[l].att <= attempts
    /\ \A l \in Loop : loop[l].pc # "idle" => loop[l].att \in Attempt
    /\ \A l, m \in Loop :
         loop[l].pc # "idle" /\ loop[m].pc # "idle" /\ loop[l].att = loop[m].att => l = m

(* A connection is the current socket, and none is there while a loop of   *)
(* the session makes another; one that is being made belongs to the loop   *)
(* that makes it; when the client is ready no loop of the session runs.    *)
SocketsOwned ==
    /\ \A a \in Attempt : phys[a] = "open" => socket = a
    /\ \A a \in Attempt : phys[a] = "connecting" =>
         \E l \in Loop : loop[l].pc = "creating" /\ loop[l].att = a
    /\ \A l \in Loop : Live(l) =>
         IF loop[l].pc = "initiating"
         THEN socket \in {NoSocket, loop[l].att}
         ELSE \A a \in Attempt : phys[a] # "open"
    /\ isReady => socket # NoSocket /\ \A l \in Loop : ~Live(l)

(* A client that is not open, and does not drain for close(), has no       *)
(* connection, and what a loop still makes will be dropped.                *)
ClosedIsQuiet ==
    ~isOpen /\ closing # "draining" =>
        /\ \A a \in Attempt : phys[a] # "open"
        /\ \A l \in Loop : ~Live(l)
        /\ ~isReady

SocketInv == SocketType /\ OneLoop /\ SocketsOwned /\ ClosedIsQuiet
-----------------------------------------------------------------------------
(* Steps of the socket, by what they do to the loops.                      *)

(* A socket that is destroyed is closed, the others are as they were. *)
LEMMA ClosingEffect ==
    ASSUME NEW ph \in [Attempt -> {"none", "connecting", "open", "closed"}], NEW b
    PROVE  /\ Closing(ph, b) \in [Attempt -> {"none", "connecting", "open", "closed"}]
           /\ \A a \in Attempt : Closing(ph, b)[a] = IF a = b THEN "closed" ELSE ph[a]
BY DEF Closing

(* When the epoch advances every loop is torn down. *)
LEMMA EpochAdvances ==
    ASSUME SocketInv, teardownEpoch' = teardownEpoch + 1,
           NEW l \in Loop, loop'[l].epoch = loop[l].epoch \/ loop'[l].epoch = 0
    PROVE  loop'[l].epoch <= teardownEpoch' /\ TornDown(l)'
<1>1. /\ loop[l].epoch \in Nat /\ loop[l].epoch <= teardownEpoch /\ teardownEpoch \in Nat
  BY DEF SocketInv, SocketType, LoopState, OneLoop
<1>2. loop'[l].epoch < teardownEpoch'
  BY <1>1
<1>3. QED
  BY <1>1, <1>2 DEF TornDown

(* No loop is started or stopped: connections are only lost. *)
LEMMA Weakened ==
    ASSUME SocketInv, loop' = loop, attempts' = attempts, isOpen' \in BOOLEAN, isReady' \in BOOLEAN,
           teardownEpoch' \in {teardownEpoch, teardownEpoch + 1},
           socket' \in {socket, NoSocket},
           phys' \in [Attempt -> {"none", "connecting", "open", "closed"}],
           \A a \in Attempt : phys'[a] \in {"closed", phys[a]},
           \A a \in Attempt : phys'[a] = "open" => socket' = a,
           isReady' => isReady /\ socket' # NoSocket,
           ~isOpen' /\ closing' # "draining" =>
               \/ ~isOpen /\ closing # "draining"
               \/ /\ \A a \in Attempt : phys'[a] # "open"
                  /\ ~isReady'
                  /\ isReady \/ teardownEpoch' = teardownEpoch + 1
    PROVE  SocketInv'
<1>1. SocketType'
  <2>1. socket' \in 0..MaxAttempt /\ teardownEpoch' \in Nat
    BY SocketAssumption DEF SocketInv, SocketType, NoSocket
  <2>2. QED
    BY <2>1 DEF SocketInv, SocketType
<1>2. \A l \in Loop : Live(l)' => Live(l) /\ teardownEpoch' = teardownEpoch
  <2>1. teardownEpoch' = teardownEpoch + 1 => \A l \in Loop : TornDown(l)'
    BY EpochAdvances
  <2>2. QED
    BY <2>1 DEF Live, TornDown
<1>3. OneLoop'
  <2>1. \A l \in Loop : loop'[l].epoch <= teardownEpoch'
    <3>1. teardownEpoch' = teardownEpoch + 1 => \A l \in Loop : loop'[l].epoch <= teardownEpoch'
      BY EpochAdvances
    <3>2. QED
      BY <3>1 DEF SocketInv, OneLoop
  <2>2. QED
    BY <1>2, <2>1 DEF SocketInv, OneLoop
<1>4. SocketsOwned'
  BY <1>2 DEF SocketInv, SocketsOwned
<1>5. ClosedIsQuiet'
  <2>1. SUFFICES ASSUME ~isOpen', closing' # "draining"
        PROVE  (\A a \in Attempt : phys'[a] # "open") /\ (\A l \in Loop : ~Live(l)') /\ ~isReady'
    BY DEF ClosedIsQuiet
  <2>2. CASE ~isOpen /\ closing # "draining"
    <3>1. (\A a \in Attempt : phys[a] # "open") /\ (\A l \in Loop : ~Live(l)) /\ ~isReady
      BY <2>2 DEF SocketInv, ClosedIsQuiet
    <3>2. \A a \in Attempt : phys'[a] # "open"
      BY <3>1
    <3>3. QED
      BY <1>2, <3>1, <3>2
  <2>3. CASE /\ \A a \in Attempt : phys'[a] # "open"
             /\ ~isReady'
             /\ isReady \/ teardownEpoch' = teardownEpoch + 1
    <3>1. isReady => \A l \in Loop : ~Live(l)
      BY DEF SocketInv, SocketsOwned
    <3>2. teardownEpoch' = teardownEpoch + 1 => teardownEpoch' # teardownEpoch
      BY DEF SocketInv, SocketType
    <3>3. QED
      BY <1>2, <2>3, <3>1, <3>2
  <2>4. QED
    BY <2>1, <2>2, <2>3
<1>6. QED
  BY <1>1, <1>3, <1>4, <1>5 DEF SocketInv

(* One more iteration of a loop when no other of the session runs. *)
LEMMA IterateStep ==
    ASSUME SocketInv, NEW l \in Loop,
           NEW ph \in [Attempt -> {"none", "connecting", "open", "closed"}], Iterate(l, ph),
           \A m \in Loop \ {l} : ~Live(m),
           loop[l].pc # "creating",
           \A a \in Attempt : ph[a] \in {"closed", phys[a]} /\ ph[a] # "open",
           isOpen' = TRUE, isReady' = FALSE, socket' \in 0..MaxAttempt,
           teardownEpoch' = teardownEpoch
    PROVE  SocketInv'
<1> DEFINE n == attempts + 1
<1>1. n \in Attempt /\ attempts' = n /\ n \in 0..MaxAttempt /\ attempts \in Nat
  BY SocketAssumption DEF Iterate, SocketInv, SocketType, Attempt
<1>2. /\ phys' = [ph EXCEPT ![n] = "connecting"]
      /\ loop' = [loop EXCEPT ![l] = [pc |-> "creating", att |-> n, epoch |-> teardownEpoch]]
  BY DEF Iterate
<1>20. \A m \in Loop : loop[m].att \in Nat /\ loop[m].att < n
  BY <1>1 DEF SocketInv, OneLoop, SocketType, LoopState
<1>21. \A m \in Loop : loop[m].att <= n /\ loop[m].att # n
  BY <1>1, <1>20
<1>22. n <= n
  BY <1>1
<1> HIDE DEF n
<1>3. [pc |-> "creating", att |-> n, epoch |-> teardownEpoch] \in LoopState
  BY <1>1 DEF LoopState, SocketInv, SocketType
<1>4. /\ loop'[l].pc = "creating" /\ loop'[l].att = n /\ loop'[l].epoch = teardownEpoch
      /\ \A m \in Loop \ {l} : loop'[m] = loop[m]
  BY <1>2 DEF SocketInv, SocketType
<1>5. \A a \in Attempt : phys'[a] = IF a = n THEN "connecting" ELSE ph[a]
  BY <1>1, <1>2
<1>6. SocketType'
  BY <1>1, <1>2, <1>3 DEF SocketInv, SocketType
<1>60. \A m \in Loop \ {l} : ~Live(m)'
  BY <1>4 DEF Live, TornDown
<1>7. OneLoop'
  <2>1. \A m \in Loop : loop'[m].epoch <= teardownEpoch' /\ loop'[m].att <= attempts'
    <3>1. teardownEpoch <= teardownEpoch
      BY DEF SocketInv, SocketType
    <3>2. QED
      BY <1>1, <1>4, <1>21, <1>22, <3>1 DEF SocketInv, OneLoop
  <2>2. \A m \in Loop : loop'[m].pc # "idle" => loop'[m].att \in Attempt
    BY <1>1, <1>4 DEF SocketInv, OneLoop
  <2>3. \A k, m \in Loop :
          loop'[k].pc # "idle" /\ loop'[m].pc # "idle" /\ loop'[k].att = loop'[m].att => k = m
    BY <1>4, <1>21 DEF SocketInv, OneLoop
  <2>4. QED
    BY <1>60, <2>1, <2>2, <2>3 DEF OneLoop
<1>8. SocketsOwned'
  <2>1. \A a \in Attempt : phys'[a] # "open"
    BY <1>5
  <2>2. ASSUME NEW a \in Attempt, phys'[a] = "connecting"
        PROVE  \E m \in Loop : loop'[m].pc = "creating" /\ loop'[m].att = a
    <3>1. CASE a = n
      BY <1>4, <3>1
    <3>2. CASE a # n
      <4>1. phys[a] = "connecting"
        BY <1>5, <2>2, <3>2
      <4>2. PICK m \in Loop : loop[m].pc = "creating" /\ loop[m].att = a
        BY <4>1 DEF SocketInv, SocketsOwned
      <4>3. m # l
        BY <4>2
      <4>4. QED
        BY <1>4, <4>2, <4>3
    <3>3. QED
      BY <3>1, <3>2
  <2>3. \A m \in Loop : Live(m)' => loop'[m].pc # "initiating"
    BY <1>4, <1>60
  <2>4. QED
    BY <2>1, <2>2, <2>3 DEF SocketsOwned
<1>9. ClosedIsQuiet'
  BY DEF ClosedIsQuiet
<1>10. QED
  BY <1>6, <1>7, <1>8, <1>9 DEF SocketInv

(* A loop stops or waits, and connections are only lost. *)
LEMMA LoopEnds ==
    ASSUME SocketInv, NEW l \in Loop, loop[l].pc # "idle",
           \/ Stop(l)
           \/ \E wait \in {"delay", "pause"} : loop' = [loop EXCEPT ![l].pc = wait],
           attempts' = attempts, isOpen' \in BOOLEAN, isReady' \in BOOLEAN,
           teardownEpoch' \in {teardownEpoch, teardownEpoch + 1},
           socket' \in {socket, NoSocket},
           phys' \in [Attempt -> {"none", "connecting", "open", "closed"}],
           \A a \in Attempt : phys'[a] \in {"closed", phys[a]},
           \A a \in Attempt : phys'[a] = "open" => socket' = a,
           loop[l].pc = "creating" => phys'[loop[l].att] # "connecting",
           isReady' => isReady /\ socket' # NoSocket,
           Live(l) => \A a \in Attempt : phys'[a] # "open",
           ~isOpen' /\ closing' # "draining" =>
               \/ ~isOpen /\ closing # "draining"
               \/ /\ \A a \in Attempt : phys'[a] # "open"
                  /\ ~isReady'
                  /\ (Live(l) /\ Stop(l)) \/ teardownEpoch' = teardownEpoch + 1
    PROVE  SocketInv'
<1>1. loop \in [Loop -> LoopState] /\ loop[l] \in LoopState /\ teardownEpoch \in Nat
  BY DEF SocketInv, SocketType
<1>2. Idle \in LoopState /\ Idle.att = 0 /\ Idle.epoch = 0 /\ Idle.pc = "idle"
  BY SocketAssumption DEF Idle, LoopState, NoSocket
<1>3. /\ loop'[l] \in LoopState
      /\ loop' \in [Loop -> LoopState]
      /\ loop'[l].pc \in {"idle", "delay", "pause"}
      /\ loop'[l].pc # "idle" => loop'[l].att = loop[l].att /\ loop'[l].epoch = loop[l].epoch
      /\ loop'[l].pc = "idle" => loop'[l].epoch = 0 /\ loop'[l].att = 0
      /\ \A m \in Loop \ {l} : loop'[m] = loop[m]
      /\ Stop(l) => loop'[l].pc = "idle"
  <2>1. CASE Stop(l)
    BY <1>1, <1>2, <2>1 DEF Stop
  <2>2. ASSUME NEW wait \in {"delay", "pause"}, loop' = [loop EXCEPT ![l].pc = wait]
        PROVE  /\ loop'[l] \in LoopState
               /\ loop' \in [Loop -> LoopState]
               /\ loop'[l].pc = wait
               /\ loop'[l].att = loop[l].att /\ loop'[l].epoch = loop[l].epoch
               /\ \A m \in Loop \ {l} : loop'[m] = loop[m]
    <3>1. loop'[l] = [loop[l] EXCEPT !.pc = wait] /\ \A m \in Loop \ {l} : loop'[m] = loop[m]
      BY <1>1, <2>2
    <3>2. loop'[l].pc = wait /\ loop'[l].att = loop[l].att /\ loop'[l].epoch = loop[l].epoch
          /\ loop'[l] \in LoopState
      BY <1>1, <3>1 DEF LoopState
    <3>3. loop' \in [Loop -> LoopState]
      BY <1>1, <2>2, <3>2
    <3>4. QED
      BY <3>1, <3>2, <3>3
  <2>3. Stop(l) => loop'[l].pc = "idle"
    BY <1>1, <1>2 DEF Stop
  <2>4. QED
    BY <2>1, <2>2, <2>3
<1>4. SocketType'
  <2>1. teardownEpoch' \in Nat /\ socket' \in 0..MaxAttempt
    BY <1>1, SocketAssumption DEF NoSocket, SocketInv, SocketType
  <2>2. QED
    BY <1>3, <2>1 DEF SocketInv, SocketType
<1>5. \A m \in Loop : loop'[m].epoch = loop[m].epoch \/ loop'[m].epoch = 0
  BY <1>3
<1>6. \A m \in Loop : Live(m)' => Live(m) /\ teardownEpoch' = teardownEpoch
  <2>1. teardownEpoch' = teardownEpoch + 1 => \A m \in Loop : TornDown(m)'
    BY <1>5, EpochAdvances
  <2>2. QED
    BY <1>3, <2>1 DEF Live, TornDown
<1>7. OneLoop'
  <2>1. \A m \in Loop : loop'[m].epoch <= teardownEpoch'
    <3>1. teardownEpoch' = teardownEpoch + 1 => \A m \in Loop : loop'[m].epoch <= teardownEpoch'
      BY <1>5, EpochAdvances
    <3>2. 0 <= teardownEpoch
      BY <1>1
    <3>3. QED
      BY <1>5, <3>1, <3>2 DEF SocketInv, OneLoop
  <2>2. \A m \in Loop : loop'[m].att <= attempts'
    <3>1. 0 <= attempts
      BY DEF SocketInv, SocketType
    <3>2. QED
      BY <1>3, <3>1 DEF SocketInv, OneLoop
  <2>3. \A m \in Loop : loop'[m].pc # "idle" => loop[m].pc # "idle" /\ loop'[m].att = loop[m].att
    BY <1>3
  <2>4. \A k, m \in Loop : Live(k)' /\ Live(m)' => k = m
    BY <1>6 DEF SocketInv, OneLoop
  <2>5. QED
    BY <2>1, <2>2, <2>3, <2>4 DEF SocketInv, OneLoop
<1>8. SocketsOwned'
  <2>1. ASSUME NEW a \in Attempt, phys'[a] = "connecting"
        PROVE  \E m \in Loop : loop'[m].pc = "creating" /\ loop'[m].att = a
    <3>1. phys[a] = "connecting"
      BY <2>1
    <3>2. PICK m \in Loop : loop[m].pc = "creating" /\ loop[m].att = a
      BY <3>1 DEF SocketInv, SocketsOwned
    <3>3. m # l
      BY <2>1, <3>2
    <3>4. QED
      BY <1>3, <3>2, <3>3
  <2>2. ASSUME NEW m \in Loop, Live(m)'
        PROVE  IF loop'[m].pc = "initiating"
               THEN socket' \in {NoSocket, loop'[m].att}
               ELSE \A a \in Attempt : phys'[a] # "open"
    <3>1. Live(m)
      BY <1>6, <2>2
    <3>2. CASE m = l
      BY <1>3, <3>1, <3>2
    <3>3. CASE m # l
      <4>1. loop'[m] = loop[m]
        BY <1>3, <3>3
      <4>2. QED
        BY <3>1, <4>1 DEF SocketInv, SocketsOwned
    <3>4. QED
      BY <3>2, <3>3
  <2>3. isReady' => socket' # NoSocket /\ \A m \in Loop : ~Live(m)'
    BY <1>6 DEF SocketInv, SocketsOwned
  <2>4. QED
    BY <2>1, <2>2, <2>3 DEF SocketsOwned
<1>9. ClosedIsQuiet'
  <2>1. SUFFICES ASSUME ~isOpen', closing' # "draining"
        PROVE  (\A a \in Attempt : phys'[a] # "open") /\ (\A m \in Loop : ~Live(m)') /\ ~isReady'
    BY DEF ClosedIsQuiet
  <2>2. CASE ~isOpen /\ closing # "draining"
    <3>1. (\A a \in Attempt : phys[a] # "open") /\ (\A m \in Loop : ~Live(m)) /\ ~isReady
      BY <2>2 DEF SocketInv, ClosedIsQuiet
    <3>2. \A a \in Attempt : phys'[a] # "open"
      BY <3>1
    <3>3. QED
      BY <1>6, <3>1, <3>2
  <2>3. CASE /\ \A a \in Attempt : phys'[a] # "open"
             /\ ~isReady'
             /\ (Live(l) /\ Stop(l)) \/ teardownEpoch' = teardownEpoch + 1
    <3>1. Live(l) /\ Stop(l) => \A m \in Loop : ~Live(m)'
      <4>1. Stop(l) => ~Live(l)'
        BY <1>3 DEF Live
      <4>2. Live(l) => \A m \in Loop \ {l} : ~Live(m)
        BY DEF SocketInv, OneLoop
      <4>3. QED
        BY <1>6, <4>1, <4>2
    <3>2. teardownEpoch' = teardownEpoch + 1 => teardownEpoch' # teardownEpoch
      BY <1>1
    <3>3. QED
      BY <1>6, <2>3, <3>1, <3>2
  <2>4. QED
    BY <2>1, <2>2, <2>3
<1>10. QED
  BY <1>4, <1>7, <1>8, <1>9 DEF SocketInv


(* An attempt has failed: the strategy gives up, only for a loop of the    *)
(* session, or the loop waits, or a handler destroys the client.           *)
LEMMA FailedStep ==
    ASSUME SocketInv, NEW l \in Loop, loop[l].pc # "idle", NEW s \in {socket, NoSocket},
           NEW ph \in [Attempt -> {"none", "connecting", "open", "closed"}],
           NEW wait \in {"delay", "pause"}, Failed(l, s, ph, wait),
           "terminated" \in emitted' => ~TornDown(l),
           \A a \in Attempt : ph[a] \in {"closed", phys[a]},
           \A a \in Attempt : ph[a] = "open" => s = a,
           loop[l].pc = "creating" => ph[loop[l].att] # "connecting",
           Live(l) => \A a \in Attempt : ph[a] # "open",
           isReady => s # NoSocket \/ "end" \in emitted',
           closing' = closing \/ "end" \in emitted'
    PROVE  SocketInv'
<1>1. isOpen \in BOOLEAN /\ isReady \in BOOLEAN
  BY DEF SocketInv, SocketType
<1>2. CASE Stop(l) /\ GiveUp(s, ph)
  <2>1. /\ isOpen' = FALSE /\ socket' = s /\ phys' = ph /\ closing' = closing
        /\ UNCHANGED <<isReady, teardownEpoch, attempts>>
    BY <1>2 DEF GiveUp
  <2>2. "terminated" \in emitted'
    BY <1>2 DEF GiveUp
  <2>3. Live(l) /\ ~isReady
    <3>1. Live(l)
      BY <2>2 DEF Live
    <3>2. QED
      BY <3>1 DEF SocketInv, SocketsOwned
  <2>4. QED
    BY <1>1, <1>2, <2>1, <2>3, LoopEnds
<1>3. CASE /\ emitted' = {"error"} /\ socket' = s /\ phys' = ph
           /\ IF isOpen THEN loop' = [loop EXCEPT ![l].pc = wait] ELSE Stop(l)
           /\ UNCHANGED <<isOpen, isReady, teardownEpoch, attempts>>
  <2>1. closing' = closing /\ (isReady => s # NoSocket)
    BY <1>3
  <2>2. Stop(l) \/ \E w \in {"delay", "pause"} : loop' = [loop EXCEPT ![l].pc = w]
    BY <1>3
  <2>3. QED
    BY <1>1, <1>3, <2>1, <2>2, LoopEnds
<1>4. CASE isOpen' = FALSE /\ DestroySocket(s, ph) /\ Stop(l) /\ UNCHANGED attempts
  <2>1. /\ teardownEpoch' = teardownEpoch + 1 /\ isReady' = FALSE /\ socket' = NoSocket
        /\ phys' = Closing(ph, s)
    BY <1>4 DEF DestroySocket
  <2>2. /\ phys' \in [Attempt -> {"none", "connecting", "open", "closed"}]
        /\ \A a \in Attempt : phys'[a] = IF a = s THEN "closed" ELSE ph[a]
    BY <2>1, ClosingEffect
  <2>3. /\ \A a \in Attempt : phys'[a] \in {"closed", phys[a]}
        /\ \A a \in Attempt : phys'[a] # "open"
    BY <2>2
  <2>4. loop[l].pc = "creating" => phys'[loop[l].att] # "connecting"
    BY <2>2 DEF SocketInv, OneLoop
  <2>5. QED
    BY <1>4, <2>1, <2>2, <2>3, <2>4, LoopEnds
<1>5. QED
  BY <1>2, <1>3, <1>4 DEF Failed

(* The outer catch. *)
LEMMA CaughtStep ==
    ASSUME SocketInv, NEW l \in Loop, loop[l].pc # "idle", NEW s \in {socket, NoSocket},
           NEW ph \in [Attempt -> {"none", "connecting", "open", "closed"}],
           Caught(l, s, ph),
           "terminated" \in emitted' => ~TornDown(l),
           \A a \in Attempt : ph[a] \in {"closed", phys[a]},
           \A a \in Attempt : ph[a] = "open" => s = a,
           loop[l].pc = "creating" => ph[loop[l].att] # "connecting",
           Live(l) => \A a \in Attempt : ph[a] # "open",
           isReady => s # NoSocket \/ "end" \in emitted',
           closing' = closing \/ "end" \in emitted'
    PROVE  SocketInv'
<1>1. CASE isOpen
  BY <1>1, FailedStep DEF Caught
<1>2. CASE ~isOpen
  <2>1. /\ Stop(l) /\ socket' = s /\ phys' = ph /\ emitted' = {}
        /\ UNCHANGED <<isOpen, isReady, teardownEpoch, attempts>>
    BY <1>2 DEF Caught
  <2>2. closing' = closing /\ (isReady => s # NoSocket)
    BY <2>1
  <2>3. isOpen \in BOOLEAN /\ isReady \in BOOLEAN
    BY DEF SocketInv, SocketType
  <2>4. QED
    BY <2>1, <2>2, <2>3, LoopEnds
<1>3. QED
  BY <1>1, <1>2

(* #createSocket failed, or came too late. *)
LEMMA CreateFailsStep ==
    ASSUME SocketInv, NEW l \in Loop,
           loop[l].pc = "creating", Caught(l, socket, Closing(phys, loop[l].att)),
           ~Strays(l), closing' = closing \/ "end" \in emitted'
    PROVE  SocketInv'
<1> DEFINE ph == Closing(phys, loop[l].att)
<1>1. /\ ph \in [Attempt -> {"none", "connecting", "open", "closed"}]
      /\ \A a \in Attempt : ph[a] = IF a = loop[l].att THEN "closed" ELSE phys[a]
  BY ClosingEffect DEF SocketInv, SocketType
<1> HIDE DEF ph
<1>2. loop[l].att \in Attempt
  BY DEF SocketInv, OneLoop
<1>3. \A a \in Attempt : ph[a] = "open" => socket = a
  BY <1>1 DEF SocketInv, SocketsOwned
<1>4. Live(l) => \A a \in Attempt : ph[a] # "open"
  BY <1>1 DEF SocketInv, SocketsOwned
<1>5. isReady => socket # NoSocket
  BY DEF SocketInv, SocketsOwned
<1>6. "terminated" \in emitted' => ~TornDown(l)
  BY DEF Strays
<1>7. Caught(l, socket, ph)
  BY DEF ph
<1>8. loop[l].pc # "idle" /\ ph[loop[l].att] # "connecting"
  BY <1>1, <1>2
<1>9. \A a \in Attempt : ph[a] \in {"closed", phys[a]}
  BY <1>1
<1>10. QED
  BY <1>1, <1>3, <1>4, <1>5, <1>6, <1>7, <1>8, <1>9, CaughtStep

(* The new socket is connected in time. *)
LEMMA CreatedStep ==
    ASSUME SocketInv, NEW l \in Loop, Created(l), ~Strays(l),
           closing' = closing \/ "end" \in emitted'
    PROVE  SocketInv'
<1>1. loop[l].pc = "creating"
  BY DEF Created
<1>2. CASE TornDown(l)
  BY <1>1, <1>2, CreateFailsStep DEF Created
<1>3. CASE ~TornDown(l)
  <2> DEFINE a == loop[l].att
  <2>1. /\ phys' = [phys EXCEPT ![a] = "open"] /\ socket' = a
        /\ loop' = [loop EXCEPT ![l].pc = "initiating"]
        /\ closing' = closing
        /\ UNCHANGED <<isOpen, isReady, teardownEpoch, attempts>>
    BY <1>3 DEF Created
  <2>2. Live(l)
    BY <1>1, <1>3 DEF Live
  <2>3. a \in Attempt /\ isReady = FALSE /\ \A m \in Loop : Live(m) => m = l
    BY <1>1, <2>2 DEF SocketInv, OneLoop, SocketsOwned, SocketType
  <2>4. loop[l] \in LoopState /\ loop \in [Loop -> LoopState]
    BY DEF SocketInv, SocketType
  <2> HIDE DEF a
  <2>5. loop'[l] = [loop[l] EXCEPT !.pc = "initiating"] /\ \A m \in Loop \ {l} : loop'[m] = loop[m]
    BY <2>1, <2>4
  <2>6. /\ loop'[l].pc = "initiating" /\ loop'[l].att = a /\ loop'[l].epoch = loop[l].epoch
        /\ loop'[l] \in LoopState
    BY <2>4, <2>5 DEF LoopState, a
  <2>7. \A b \in Attempt : phys'[b] = IF b = a THEN "open" ELSE phys[b]
    BY <2>1, <2>3 DEF SocketInv, SocketType
  <2>8. SocketType'
    <3>1. loop' \in [Loop -> LoopState]
      BY <2>1, <2>4, <2>6
    <3>2. socket' \in 0..MaxAttempt
      BY <2>1, <2>3 DEF Attempt
    <3>3. QED
      BY <2>1, <2>3, <3>1, <3>2 DEF SocketInv, SocketType
  <2>9. \A m \in Loop : Live(m)' => m = l
    BY <2>1, <2>3, <2>5 DEF Live, TornDown
  <2>10. \A m \in Loop : /\ loop'[m].att = loop[m].att /\ loop'[m].epoch = loop[m].epoch
                         /\ loop'[m].pc # "idle" => loop[m].pc # "idle"
    BY <1>1, <2>5, <2>6 DEF a
  <2>11. OneLoop'
    BY <2>1, <2>9, <2>10 DEF SocketInv, OneLoop
  <2>12. SocketsOwned'
    <3>1. \A b \in Attempt : phys[b] # "open"
      BY <1>1, <2>2 DEF SocketInv, SocketsOwned
    <3>2. ASSUME NEW b \in Attempt, phys'[b] = "connecting"
          PROVE  \E m \in Loop : loop'[m].pc = "creating" /\ loop'[m].att = b
      <4>1. phys[b] = "connecting" /\ b # a
        BY <2>7, <3>2
      <4>2. PICK m \in Loop : loop[m].pc = "creating" /\ loop[m].att = b
        BY <4>1 DEF SocketInv, SocketsOwned
      <4>3. m # l
        BY <4>1, <4>2 DEF a
      <4>4. QED
        BY <2>5, <4>2, <4>3
    <3>3. QED
      BY <2>1, <2>3, <2>6, <2>7, <2>9, <3>1, <3>2 DEF SocketsOwned
  <2>13. ClosedIsQuiet'
    BY <2>1, <2>2 DEF SocketInv, ClosedIsQuiet
  <2>14. QED
    BY <2>8, <2>11, <2>12, <2>13 DEF SocketInv
<1>4. QED
  BY <1>2, <1>3

(* The initiator of an attempt succeeds, fails, or loses its socket. *)
LEMMA InitiatingStep ==
    ASSUME SocketInv, NEW l \in Loop, Initiated(l) \/ InitiatorFails(l) \/ SocketDied(l),
           ~Strays(l), closing' = closing \/ "end" \in emitted'
    PROVE  SocketInv'
<1>1. loop[l].pc = "initiating"
  BY DEF Initiated, InitiatorFails, SocketDied
<1> DEFINE ph == Closing(phys, socket)
<1>2. CASE Caught(l, NoSocket, ph) \/ Failed(l, NoSocket, ph, "pause")
  <2>1. /\ ph \in [Attempt -> {"none", "connecting", "open", "closed"}]
        /\ \A a \in Attempt : ph[a] = IF a = socket THEN "closed" ELSE phys[a]
    BY ClosingEffect DEF SocketInv, SocketType
  <2> HIDE DEF ph
  <2>2. \A a \in Attempt : ph[a] # "open" /\ ph[a] \in {"closed", phys[a]}
    BY <2>1 DEF SocketInv, SocketsOwned
  <2>3. socket' = NoSocket
    BY <1>2 DEF Caught, Failed, GiveUp, DestroySocket
  <2>4. isReady => "end" \in emitted'
    <3>1. isReady => socket # NoSocket /\ ~Live(l)
      BY DEF SocketInv, SocketsOwned
    <3>2. QED
      BY <1>1, <2>3, <3>1 DEF Strays, Live
  <2>5. "terminated" \in emitted' => ~TornDown(l)
    BY DEF Strays
  <2>6. CASE Caught(l, NoSocket, ph)
    BY <1>1, <2>1, <2>2, <2>4, <2>5, <2>6, CaughtStep
  <2>7. CASE Failed(l, NoSocket, ph, "pause")
    BY <1>1, <2>1, <2>2, <2>4, <2>5, <2>7, FailedStep
  <2>8. QED
    BY <1>2, <2>6, <2>7
<1>3. CASE /\ socket # NoSocket /\ phys[socket] = "open" /\ isReady' = TRUE
           /\ emitted' = {"ready"}
           /\ Stop(l)
           /\ UNCHANGED <<isOpen, socket, teardownEpoch, phys, attempts>>
  <2>1. Idle \in LoopState /\ loop \in [Loop -> LoopState]
    BY SocketAssumption DEF Idle, LoopState, NoSocket, SocketInv, SocketType
  <2>2. loop' \in [Loop -> LoopState] /\ loop'[l] = Idle /\ \A m \in Loop \ {l} : loop'[m] = loop[m]
    BY <1>3, <2>1 DEF Stop
  <2>3. Live(l)
    BY <1>1, <1>3 DEF Strays, Live
  <2>4. \A m \in Loop : ~Live(m)'
    <3>1. \A m \in Loop \ {l} : ~Live(m)
      BY <2>3 DEF SocketInv, OneLoop
    <3>2. QED
      BY <1>3, <2>2, <3>1 DEF Idle, Live, TornDown
  <2>5. SocketType'
    BY <1>3, <2>2 DEF SocketInv, SocketType
  <2>6. OneLoop'
    <3>1. 0 <= teardownEpoch /\ 0 <= attempts
      BY DEF SocketInv, SocketType
    <3>2. \A m \in Loop : loop'[m].pc # "idle" => loop'[m] = loop[m]
      BY <2>2 DEF Idle
    <3>3. \A m \in Loop : loop'[m].epoch <= teardownEpoch' /\ loop'[m].att <= attempts'
      BY <1>3, <2>2, <3>1 DEF SocketInv, OneLoop, Idle, NoSocket
    <3>4. QED
      BY <2>4, <3>2, <3>3 DEF SocketInv, OneLoop
  <2>7. SocketsOwned'
    <3>1. ASSUME NEW a \in Attempt, phys[a] = "connecting"
          PROVE  \E m \in Loop : loop'[m].pc = "creating" /\ loop'[m].att = a
      <4>1. PICK m \in Loop : loop[m].pc = "creating" /\ loop[m].att = a
        BY <3>1 DEF SocketInv, SocketsOwned
      <4>2. QED
        BY <1>1, <2>2, <4>1
    <3>2. QED
      BY <1>3, <2>4, <3>1 DEF SocketInv, SocketsOwned
  <2>8. ClosedIsQuiet'
    BY <1>3, <2>3 DEF SocketInv, ClosedIsQuiet
  <2>9. QED
    BY <2>5, <2>6, <2>7, <2>8 DEF SocketInv
<1>4. QED
  BY <1>2, <1>3 DEF Initiated, InitiatorFails, SocketDied

(* The delay before a retry is over. *)
LEMMA RetryStep ==
    ASSUME SocketInv, NEW l \in Loop, Retry(l), ~Strays(l),
           closing' = closing \/ "end" \in emitted'
    PROVE  SocketInv'
<1>1. loop[l].pc \in {"delay", "pause"}
  BY DEF Retry
<1>2. /\ phys \in [Attempt -> {"none", "connecting", "open", "closed"}]
      /\ isOpen \in BOOLEAN /\ isReady \in BOOLEAN /\ socket \in 0..MaxAttempt
  BY DEF SocketInv, SocketType
<1>3. /\ \A a \in Attempt : phys[a] = "open" => socket = a
      /\ Live(l) => ~isReady /\ \A a \in Attempt : phys[a] # "open"
      /\ isReady => socket # NoSocket
  BY <1>1 DEF SocketInv, SocketsOwned
<1>4. /\ Closing(phys, socket) \in [Attempt -> {"none", "connecting", "open", "closed"}]
      /\ \A a \in Attempt : Closing(phys, socket)[a] = IF a = socket THEN "closed" ELSE phys[a]
  BY <1>2, ClosingEffect
<1>5. /\ \A a \in Attempt : Closing(phys, socket)[a] \in {"closed", phys[a]}
      /\ \A a \in Attempt : Closing(phys, socket)[a] # "open"
  BY <1>3, <1>4
<1>6. CASE ~isOpen /\ loop[l].pc = "delay"
  <2>1. /\ Stop(l) /\ emitted' = {}
        /\ UNCHANGED <<isOpen, isReady, socket, teardownEpoch, phys, attempts>>
    BY <1>6 DEF Retry
  <2>2. closing' = closing
    BY <2>1
  <2>3. QED
    BY <1>1, <1>2, <1>3, <2>1, <2>2, LoopEnds
<1>7. CASE ~isOpen /\ loop[l].pc = "pause"
  <2>1. /\ Stop(l) /\ emitted' = {} /\ socket' = NoSocket /\ phys' = Closing(phys, socket)
        /\ UNCHANGED <<isOpen, isReady, teardownEpoch, attempts>>
    BY <1>7 DEF Retry
  <2>2. closing' = closing
    BY <2>1
  <2>3. ~isReady
    BY <1>1, <1>3, <2>1 DEF Strays, Live
  <2>4. QED
    BY <1>1, <1>2, <1>4, <1>5, <1>7, <2>1, <2>2, <2>3, LoopEnds
<1>8. CASE isOpen /\ isReady /\ Stop(l) /\ emitted' = {"reconnecting"}
           /\ UNCHANGED <<isOpen, isReady, socket, teardownEpoch, phys, attempts>>
  BY <1>1, <1>2, <1>3, <1>8, LoopEnds
<1>9. CASE isOpen /\ ~isReady /\ Iterate(l, phys)
           /\ UNCHANGED <<isOpen, isReady, socket, teardownEpoch>>
  <2>1. attempts' # attempts
    BY <1>9 DEF Iterate, SocketInv, SocketType
  <2>2. Live(l)
    BY <1>1, <2>1 DEF Strays, Live
  <2>3. \A m \in Loop \ {l} : ~Live(m)
    BY <2>2 DEF SocketInv, OneLoop
  <2>4. QED
    BY <1>1, <1>2, <1>3, <1>9, <2>2, <2>3, IterateStep
<1>10. CASE Stop(l) /\ isOpen' = FALSE /\ attempts' = attempts /\ DestroySocket(socket, phys)
  <2>1. /\ teardownEpoch' = teardownEpoch + 1 /\ isReady' = FALSE /\ socket' = NoSocket
        /\ phys' = Closing(phys, socket)
    BY <1>10 DEF DestroySocket
  <2>2. loop[l].pc # "creating" /\ loop[l].pc # "idle" /\ isOpen' \in BOOLEAN /\ isReady' \in BOOLEAN
    BY <1>1, <1>10, <2>1
  <2>3. /\ phys' \in [Attempt -> {"none", "connecting", "open", "closed"}]
        /\ \A a \in Attempt : phys'[a] \in {"closed", phys[a]}
        /\ \A a \in Attempt : phys'[a] # "open"
    BY <1>4, <1>5, <2>1
  <2>4. QED
    BY <1>10, <2>1, <2>2, <2>3, LoopEnds
<1>11. QED
  BY <1>1, <1>2, <1>6, <1>7, <1>8, <1>9, <1>10 DEF Retry

(* connect(), when no close() is waiting. *)
LEMMA ConnectStep ==
    ASSUME SocketInv, closing # "draining", NEW l \in Loop, Connect(l)
    PROVE  SocketInv'
<1>1. /\ ~isOpen /\ loop[l].pc = "idle" /\ Iterate(l, phys) /\ isOpen' = TRUE
      /\ UNCHANGED <<isReady, socket, teardownEpoch>>
  BY DEF Connect, Idle
<1>2. (\A a \in Attempt : phys[a] # "open") /\ (\A m \in Loop : ~Live(m)) /\ isReady = FALSE
  BY <1>1 DEF SocketInv, ClosedIsQuiet, SocketType
<1>3. phys \in [Attempt -> {"none", "connecting", "open", "closed"}] /\ socket \in 0..MaxAttempt
  BY DEF SocketInv, SocketType
<1>4. QED
  BY <1>1, <1>2, <1>3, IterateStep

(* #onSocketError *)
LEMMA OnSocketErrorStep ==
    ASSUME SocketInv, NEW b \in Attempt, OnSocketError(Closing(phys, b)),
           closing' = closing \/ "end" \in emitted'
    PROVE  SocketInv'
<1> DEFINE ph == Closing(phys, b)
           cd == Closing(ph, socket)
<1>1. /\ cd \in [Attempt -> {"none", "connecting", "open", "closed"}]
      /\ \A a \in Attempt : cd[a] = IF a = b \/ a = socket THEN "closed" ELSE phys[a]
  BY ClosingEffect DEF SocketInv, SocketType
<1>2. \A a \in Attempt : cd[a] # "open"
  BY <1>1 DEF SocketInv, SocketsOwned
<1>3. isReady' = FALSE /\ socket' = NoSocket
  BY DEF OnSocketError, DestroySocket
<1> HIDE DEF cd, ph
<1>4. CASE /\ ~isReady \/ ~isOpen
           /\ emitted' = (IF isOpen THEN {} ELSE {"error"})
           /\ phys' = cd
           /\ UNCHANGED <<isOpen, teardownEpoch, loop, attempts>>
  <2>1. closing' = closing
    BY <1>4
  <2>2. isOpen' \in BOOLEAN
    BY <1>4 DEF SocketInv, SocketType
  <2>3. QED
    BY <1>1, <1>2, <1>3, <1>4, <2>1, <2>2, Weakened
<1>5. CASE /\ isReady /\ isOpen' = FALSE /\ phys' = cd
           /\ UNCHANGED <<teardownEpoch, loop, attempts>>
  BY <1>1, <1>2, <1>3, <1>5, Weakened
<1>6. CASE /\ isReady /\ isOpen
           /\ \E l \in Loop : loop[l] = Idle /\ Iterate(l, cd)
           /\ UNCHANGED <<isOpen, teardownEpoch>>
  <2>1. PICK l \in Loop : loop[l] = Idle /\ Iterate(l, cd)
    BY <1>6
  <2>2. loop[l].pc # "creating" /\ \A m \in Loop : ~Live(m)
    BY <1>6, <2>1 DEF SocketInv, SocketsOwned, Idle
  <2>3. \A a \in Attempt : cd[a] \in {"closed", phys[a]} /\ cd[a] # "open"
    BY <1>1, <1>2
  <2>4. socket' \in 0..MaxAttempt /\ isOpen' = TRUE
    BY <1>3, <1>6, SocketAssumption DEF NoSocket, SocketInv, SocketType
  <2>5. QED
    BY <1>1, <1>3, <1>6, <2>1, <2>2, <2>3, <2>4, IterateStep
<1>7. CASE /\ isOpen' = FALSE
           /\ DestroySocket(NoSocket, cd)
           /\ UNCHANGED <<loop, attempts>>
  <2>1. teardownEpoch' = teardownEpoch + 1 /\ phys' = Closing(cd, NoSocket)
    BY <1>7 DEF DestroySocket
  <2>2. /\ phys' \in [Attempt -> {"none", "connecting", "open", "closed"}]
        /\ \A a \in Attempt : phys'[a] \in {"closed", cd[a]}
    BY <1>1, <2>1, ClosingEffect
  <2>3. /\ \A a \in Attempt : phys'[a] \in {"closed", phys[a]}
        /\ \A a \in Attempt : phys'[a] # "open"
    BY <1>1, <1>2, <2>2
  <2>4. QED
    BY <1>3, <1>7, <2>1, <2>2, <2>3, Weakened
<1>8. QED
  BY <1>3, <1>4, <1>5, <1>6, <1>7 DEF OnSocketError, cd, ph

(* The network fails. *)
LEMMA NetworkStep ==
    ASSUME SocketInv, NEW a \in Attempt, SocketErrors(a) \/ SocketEnds(a),
           closing' = closing \/ "end" \in emitted'
    PROVE  SocketInv'
<1>1. CASE OnSocketError(Closing(phys, a))
  BY <1>1, OnSocketErrorStep
<1>2. CASE /\ phys' = Closing(phys, a) /\ emitted' = {}
           /\ UNCHANGED <<isOpen, isReady, socket, teardownEpoch, loop, attempts>>
  <2>1. /\ phys' \in [Attempt -> {"none", "connecting", "open", "closed"}]
        /\ \A b \in Attempt : phys'[b] = IF b = a THEN "closed" ELSE phys[b]
    BY <1>2, ClosingEffect DEF SocketInv, SocketType
  <2>2. \A b \in Attempt : phys'[b] = "open" => socket' = b
    BY <1>2, <2>1 DEF SocketInv, SocketsOwned
  <2>3. closing' = closing
    BY <1>2
  <2>4. isReady' => isReady /\ socket' # NoSocket
    BY <1>2 DEF SocketInv, SocketsOwned
  <2>5. isOpen' \in BOOLEAN /\ isReady' \in BOOLEAN
    BY <1>2 DEF SocketInv, SocketType
  <2>6. QED
    BY <1>2, <2>1, <2>2, <2>3, <2>4, <2>5, Weakened
<1>3. QED
  BY <1>1, <1>2 DEF SocketErrors, SocketEnds

(* destroy(), and close() when everything has drained. *)
LEMMA DestroyStep ==
    ASSUME SocketInv, SocketDestroy \/ SocketDrained
    PROVE  SocketInv'
<1>1. /\ teardownEpoch' = teardownEpoch + 1 /\ isReady' = FALSE /\ socket' = NoSocket
      /\ phys' = Closing(phys, socket) /\ isOpen' \in BOOLEAN
      /\ UNCHANGED <<loop, attempts>>
  BY DEF SocketDestroy, SocketDrained, DestroySocket, SocketInv, SocketType
<1>2. /\ phys' \in [Attempt -> {"none", "connecting", "open", "closed"}]
      /\ \A a \in Attempt : phys'[a] = IF a = socket THEN "closed" ELSE phys[a]
  BY <1>1, ClosingEffect DEF SocketInv, SocketType
<1>3. \A a \in Attempt : phys'[a] # "open"
  BY <1>2 DEF SocketInv, SocketsOwned
<1>4. QED
  BY <1>1, <1>2, <1>3, Weakened

(* A step that leaves the socket as it is, or only begins to drain. *)
LEMMA SocketKept ==
    ASSUME SocketInv, UNCHANGED <<isReady, socket, teardownEpoch, loop, phys, attempts>>,
           (isOpen' = isOpen /\ closing' = closing) \/ (isOpen' = FALSE /\ closing' = "draining")
    PROVE  SocketInv'
BY Weakened DEF SocketInv, SocketType, SocketsOwned

-----------------------------------------------------------------------------
(* What the client makes of them.                                          *)
(* Every step of the client, as one of its socket: the listeners settle    *)
(* close() only when the socket emits 'end'.                               *)
LEMMA SocketNext ==
    ASSUME SocketInv, AwaitsClose, [ClientNext]_allVars, ~strayed'
    PROVE  SocketInv'
<1>1. Listeners => closing' = closing \/ "end" \in emitted'
  BY DEF Listeners
<1>2. ASSUME NEW l \in Loop, ClientConnect(l) PROVE SocketInv'
  BY <1>2, ConnectStep DEF ClientConnect
<1>3. ASSUME NEW l \in Loop, ClientLoopStep(l) PROVE SocketInv'
  <2>1. ~Strays(l)
    BY <1>3 DEF ClientLoopStep
  <2>2. CASE CreateFails(l) /\ Listeners
    BY <1>1, <2>1, <2>2, CreateFailsStep DEF CreateFails
  <2>3. CASE Retry(l) /\ Listeners
    BY <1>1, <2>1, <2>3, RetryStep
  <2>4. CASE ClientCreated(l)
    <3>1. Created(l) /\ (closing' = closing \/ "end" \in emitted')
      BY <1>1, <2>4 DEF ClientCreated, StartInitiator
    <3>2. QED
      BY <2>1, <3>1, CreatedStep
  <2>5. CASE ClientInitiated(l) \/ ClientInitiatorFails(l) \/ ClientSocketDied(l)
    BY <1>1, <2>1, <2>5, InitiatingStep DEF ClientInitiated, ClientInitiatorFails, ClientSocketDied
  <2>6. QED
    BY <1>3, <2>2, <2>3, <2>4, <2>5 DEF ClientLoopStep
<1>4. ASSUME NEW a \in Attempt, Network(a) PROVE SocketInv'
  BY <1>1, <1>4, NetworkStep DEF Network
<1>5. ASSUME NEW a \in Attempt, InitiatorStep(a) PROVE SocketInv'
  BY <1>5, SocketKept DEF InitiatorStep, SendHandshake, CredentialsFail
<1>6. ASSUME NEW a \in Attempt, ReplyStep(a) PROVE SocketInv'
  <2>1. PICK error \in BOOLEAN : Reply(a, error)
    BY <1>6 DEF ReplyStep
  <2>2. SocketDrained \/ UNCHANGED <<isOpen, isReady, socket, teardownEpoch, loop, phys,
                                     attempts, closing>>
    BY <2>1 DEF Reply
  <2>3. QED
    BY <2>2, DestroyStep, SocketKept
<1>7. ASSUME NEW u \in User, SendCommand(u) PROVE SocketInv'
  BY <1>7, SocketKept DEF SendCommand
<1>8. CASE ScheduledWrite \/ Drain
  BY <1>8, SocketKept DEF ScheduledWrite, Drain
<1>9. CASE Close
  <2>1. SocketDestroy \/ (SocketClose /\ closing' = "draining")
    BY <1>9 DEF Close
  <2>2. QED
    BY <2>1, DestroyStep, SocketKept DEF SocketClose
<1>10. CASE Destroy
  <2>1. \/ SocketDestroy
        \/ /\ emitted' = {}
           /\ UNCHANGED <<isOpen, isReady, socket, teardownEpoch, loop, phys, attempts>>
    BY <1>10 DEF Destroy
  <2>2. emitted' = {} => closing' = closing
    BY <1>10 DEF Destroy
  <2>3. QED
    BY <2>1, <2>2, DestroyStep, SocketKept
<1>11. CASE UNCHANGED allVars
  BY <1>11, SocketKept DEF allVars, socketVars, clientVars
<1>12. QED
  BY <1>2, <1>3, <1>4, <1>5, <1>6, <1>7, <1>8, <1>9, <1>10, <1>11 DEF ClientNext, ClientProgress

(* The mark is never taken back. *)
LEMMA StrayedStays ==
    ASSUME [ClientNext]_allVars, strayed
    PROVE  strayed'
<1>1. CASE ClientNext
  <2>1. CASE ClientProgress
    <3>1. ASSUME NEW l \in Loop, ClientLoopStep(l) PROVE strayed'
      BY <3>1 DEF ClientLoopStep
    <3>2. ASSUME NEW a \in Attempt, InitiatorStep(a) \/ ReplyStep(a) PROVE strayed'
      <4>1. CASE SendHandshake(a)
        BY <4>1 DEF SendHandshake
      <4>2. CASE CredentialsFail(a)
        BY <4>2 DEF CredentialsFail
      <4>3. CASE ReplyStep(a)
        BY <4>3 DEF ReplyStep, Reply
      <4>4. QED
        BY <3>2, <4>1, <4>2, <4>3 DEF InitiatorStep
    <3>3. CASE ScheduledWrite \/ Drain
      BY <3>3 DEF ScheduledWrite, Drain
    <3>4. QED
      BY <2>1, <3>1, <3>2, <3>3 DEF ClientProgress
  <2>2. ASSUME NEW l \in Loop, ClientConnect(l) PROVE strayed'
    BY <2>2 DEF ClientConnect
  <2>3. ASSUME NEW a \in Attempt, Network(a) PROVE strayed'
    BY <2>3 DEF Network
  <2>4. ASSUME NEW u \in User, SendCommand(u) PROVE strayed'
    BY <2>4 DEF SendCommand
  <2>5. CASE Close \/ Destroy
    BY <2>5 DEF Close, Destroy
  <2>6. QED
    BY <1>1, <2>1, <2>2, <2>3, <2>4, <2>5 DEF ClientNext
<1>2. CASE UNCHANGED allVars
  BY <1>2 DEF allVars, clientVars
<1>3. QED
  BY <1>1, <1>2

(* A client that was never connected. *)
LEMMA InitSocket == ClientInit => SocketInv
<1>1. SUFFICES ASSUME ClientInit PROVE SocketInv
  OBVIOUS
<1>2. Idle \in LoopState
  BY SocketAssumption DEF Idle, LoopState, NoSocket
<1>3. SocketType
  <2>1. /\ loop \in [Loop -> LoopState]
        /\ phys \in [Attempt -> {"none", "connecting", "open", "closed"}]
    BY <1>1, <1>2 DEF ClientInit, SocketInit
  <2>2. socket \in 0..MaxAttempt /\ attempts \in 0..MaxAttempt /\ teardownEpoch \in Nat
    BY <1>1, SocketAssumption DEF ClientInit, SocketInit, NoSocket
  <2>3. QED
    BY <1>1, <2>1, <2>2 DEF ClientInit, SocketInit, SocketType
<1>4. \A l \in Loop : loop[l].pc = "idle" /\ loop[l].att = 0 /\ loop[l].epoch = 0
  BY <1>1 DEF ClientInit, SocketInit, Idle, NoSocket
<1>5. OneLoop /\ SocketsOwned /\ ClosedIsQuiet
  BY <1>1, <1>4 DEF ClientInit, SocketInit, OneLoop, SocketsOwned, ClosedIsQuiet, Live
<1>6. QED
  BY <1>3, <1>5 DEF SocketInv

(* The client works towards one connection at a time, a connection is      *)
(* always the current socket, and one that is being made belongs to a loop *)
(* that will look at it (socket.ts #connect, #onSocketError and            *)
(* destroySocket): whatever destroy() and connect() overlap with, until a  *)
(* loop that was torn down meddles with a later session; for callers that  *)
(* await close() before they connect again.                                *)
THEOREM NoSocketLeaks ==
    ASSUME AwaitsClose
    PROVE  ClientSpec => []NoLeakedSocket
<1> DEFINE Inv == strayed \/ SocketInv
<1>1. ASSUME Inv PROVE NoLeakedSocket
  <2>1. SUFFICES ASSUME ~strayed PROVE NoLeakedSocket
    BY DEF NoLeakedSocket
  <2>2. SocketInv
    BY <1>1, <2>1
  <2> DEFINE R == {l \in Running : ~TornDown(l)}
  <2>3. Cardinality(R) <= 1
    <3>1. CASE R = {}
      BY <3>1, FS_EmptySet
    <3>2. ASSUME NEW l \in R PROVE Cardinality(R) <= 1
      <4>1. R = {l}
        BY <2>2, <3>2 DEF SocketInv, OneLoop, Running, Live
      <4> HIDE DEF R
      <4>2. QED
        BY <4>1, FS_Singleton
    <3>3. QED
      BY <3>1, <3>2
  <2>4. QED
    BY <2>2, <2>3 DEF NoLeakedSocket, SocketInv, SocketsOwned
<1>2. Inv /\ [ClientNext]_allVars => Inv'
  BY SocketNext, StrayedStays
<1>3. ClientInit => Inv
  BY InitSocket
<1> HIDE DEF Inv
<1>4. QED
  BY <1>1, <1>2, <1>3, PTL DEF ClientSpec

(* Once destroy() has been called, close() has drained or the strategy has *)
(* given up, no connection is left or comes into being, under the same     *)
(* conditions: the epoch that destroySocket advances (socket.ts) rules it  *)
(* out for an attempt that was pending.                                    *)
THEOREM ClosedClientIsQuiet ==
    ASSUME AwaitsClose
    PROVE  ClientSpec => [](~strayed => ClosedIsQuiet)
<1> DEFINE Inv == strayed \/ SocketInv
<1>1. Inv => (~strayed => ClosedIsQuiet)
  BY DEF SocketInv
<1>2. Inv /\ [ClientNext]_allVars => Inv'
  BY SocketNext, StrayedStays
<1>3. ClientInit => Inv
  BY InitSocket
<1> HIDE DEF Inv
<1>4. QED
  BY <1>1, <1>2, <1>3, PTL DEF ClientSpec
-----------------------------------------------------------------------------
(* The handshake.                                                          *)

Item == {UserItem(u) : u \in User} \cup {OwnItem(a, n) : a \in Attempt, n \in Name}
InitState == {"none", "credentials", "doomed", "sent", "failed"}
Queued == Items(toWrite) \cup Items(waiting)
HasHello(s) == \E j \in DOMAIN s : s[j].name = "hello"
HelloBefore(s) == \A i \in DOMAIN s : s[i].name = "user" => \E j \in 1..(i - 1) : s[j].name = "hello"

(* On no connection does a command of a caller precede the handshake. *)
HelloOrder == \A a \in Attempt : HelloBefore(sent[a])

(* The types of what is queued and written. *)
QueueType ==
    /\ toWrite \in Seq(Item) /\ waiting \in Seq(Item)
    /\ chainInExecution \in 0..MaxAttempt
    /\ init \in [Attempt -> InitState]
    /\ unanswered \in [Attempt -> SUBSET Name]
    /\ sent \in [Attempt -> Seq(Item)]

(* A handshake was written on a connection that is ready, on one that a    *)
(* write is scheduled for, on one whose initiator waits for a handshake no *)
(* more, and on one whose handshake is waiting for its reply.              *)
HelloSent ==
    /\ isReady => HasHello(sent[socket])
    /\ scheduledWrite /\ Writable => HasHello(sent[socket])
    /\ \A a \in Attempt : phys[a] = "open" =>
         /\ init[a] = "sent" /\ "hello" \notin unanswered[a] => HasHello(sent[a])
         /\ OwnItem(a, "hello") \in Items(waiting) => HasHello(sent[a])

(* No initiator has run for an attempt that is still to be made or whose   *)
(* socket is being created, and nothing of such an initiator is queued.    *)
InitiatorsFresh ==
    /\ \A l \in Loop : loop[l].pc = "creating" => init[loop[l].att] = "none"
    /\ \A a \in Attempt : a > attempts => init[a] = "none"
    /\ \A x \in Queued : x.own \in Attempt => init[x.own] # "none"

HelloInv == QueueType /\ HelloSent /\ InitiatorsFresh /\ HelloOrder

(* A command of a caller is not one of a handshake. *)
LEMMA ItemNames ==
    ASSUME NEW x \in Item
    PROVE  x.name # "user" <=> x.own \in Attempt
<1>1. CASE x \in {UserItem(u) : u \in User}
  <2>1. PICK u \in User : x = UserItem(u)
    BY <1>1
  <2>2. x.name = "user" /\ x.own = u
    BY <2>1 DEF UserItem
  <2>3. QED
    BY <2>2, ClientAssumption
<1>2. CASE x \in {OwnItem(a, n) : a \in Attempt, n \in Name}
  <2>1. PICK a \in Attempt, n \in Name : x = OwnItem(a, n)
    BY <1>2
  <2>2. x.name = n /\ x.own = a
    BY <2>1 DEF OwnItem
  <2>3. n # "user"
    <3>1. Items(Resubscribe) \subseteq {"channels", "patterns"}
      BY ClientAssumption DEF Items
    <3>2. QED
      BY <3>1 DEF Name
  <2>4. QED
    BY <2>2, <2>3
<1>3. QED
  BY <1>1, <1>2 DEF Item

(* The command of an initiator is known by its attempt and its name. *)
LEMMA OwnHello ==
    ASSUME NEW x \in Item, NEW a \in Attempt, x.own = a, x.name = "hello"
    PROVE  x = OwnItem(a, "hello")
<1>1. x \notin {UserItem(u) : u \in User}
  BY DEF UserItem
<1>2. PICK b \in Attempt, n \in Name : x = OwnItem(b, n)
  BY <1>1 DEF Item
<1>3. QED
  BY <1>2 DEF OwnItem

(* A queue that is split: its parts hold nothing else. *)
LEMMA ItemsSplit ==
    ASSUME NEW s \in Seq(Item), NEW k \in 0..Len(s)
    PROVE  /\ SubSeq(s, 1, k) \in Seq(Item) /\ Items(SubSeq(s, 1, k)) \subseteq Items(s)
           /\ SubSeq(s, k + 1, Len(s)) \in Seq(Item) /\ Items(SubSeq(s, k + 1, Len(s))) \subseteq Items(s)
<1> DEFINE a == SubSeq(s, 1, k)
           b == SubSeq(s, k + 1, Len(s))
<1>1. Len(s) \in Nat /\ k \in Nat /\ k <= Len(s) /\ DOMAIN s = 1..Len(s) /\ \A i \in 1..Len(s) : s[i] \in Item
  OBVIOUS
<1>2. a \in Seq(Item) /\ DOMAIN a = 1..k /\ \A i \in 1..k : a[i] = s[i]
  BY <1>1
<1>3. b \in Seq(Item) /\ DOMAIN b = 1..(Len(s) - k) /\ \A i \in 1..(Len(s) - k) : b[i] = s[k + i]
  BY <1>1
<1> HIDE DEF a, b
<1>4. Items(a) \subseteq Items(s)
  <2>1. \A i \in 1..k : i \in 1..Len(s)
    BY <1>1
  <2>2. QED
    BY <1>1, <1>2, <2>1 DEF Items
<1>5. Items(b) \subseteq Items(s)
  <2>1. \A i \in 1..(Len(s) - k) : k + i \in 1..Len(s)
    BY <1>1
  <2>2. QED
    BY <1>1, <1>3, <2>1 DEF Items
<1>6. QED
  BY <1>2, <1>3, <1>4, <1>5 DEF a, b

(* Two queues that are joined. *)
LEMMA ItemsJoin ==
    ASSUME NEW s \in Seq(Item), NEW t \in Seq(Item)
    PROVE  s \o t \in Seq(Item) /\ Items(s \o t) \subseteq Items(s) \cup Items(t)
<1> DEFINE r == s \o t
<1>1. /\ r \in Seq(Item) /\ Len(s) \in Nat /\ Len(t) \in Nat
      /\ DOMAIN s = 1..Len(s) /\ DOMAIN t = 1..Len(t) /\ DOMAIN r = 1..(Len(s) + Len(t))
      /\ \A i \in 1..(Len(s) + Len(t)) : r[i] = IF i <= Len(s) THEN s[i] ELSE t[i - Len(s)]
  OBVIOUS
<1> HIDE DEF r
<1>2. ASSUME NEW i \in DOMAIN r PROVE r[i] \in Items(s) \cup Items(t)
  <2>1. CASE i <= Len(s)
    <3>1. i \in DOMAIN s /\ r[i] = s[i]
      BY <1>1, <2>1
    <3>2. QED
      BY <3>1 DEF Items
  <2>2. CASE ~(i <= Len(s))
    <3>1. i - Len(s) \in DOMAIN t /\ r[i] = t[i - Len(s)]
      BY <1>1, <2>2
    <3>2. QED
      BY <3>1 DEF Items
  <2>3. QED
    BY <2>1, <2>2
<1>3. QED
  BY <1>1, <1>2 DEF Items, r

(* The queue without its first command. *)
LEMMA ItemsTail ==
    ASSUME NEW s \in Seq(Item), s # <<>>
    PROVE  Tail(s) \in Seq(Item) /\ Items(Tail(s)) \subseteq Items(s) /\ Head(s) \in Items(s) /\ Head(s) \in Item
<1>1. Len(s) \in Nat /\ Len(s) # 0 /\ DOMAIN s = 1..Len(s) /\ Head(s) = s[1] /\ Tail(s) \in Seq(Item)
  OBVIOUS
<1>2. DOMAIN Tail(s) = 1..(Len(s) - 1) /\ \A i \in 1..(Len(s) - 1) : Tail(s)[i] = s[i + 1]
  OBVIOUS
<1>3. \A i \in 1..(Len(s) - 1) : i + 1 \in 1..Len(s)
  BY <1>1
<1>4. Items(Tail(s)) \subseteq Items(s)
  BY <1>1, <1>2, <1>3 DEF Items
<1>5. 1 \in DOMAIN s
  BY <1>1
<1>6. QED
  BY <1>1, <1>4, <1>5 DEF Items

(* How far the rest of a handshake that is partly written reaches: the     *)
(* position at which addCommand inserts.                                   *)
LEMMA TailExists ==
    ASSUME NEW n \in Nat, NEW T
    PROVE  \E k \in 0..n : /\ \A j \in 1..k : j \in T
                           /\ k < n => ~ \A j \in 1..(k + 1) : j \in T
<1> DEFINE B == (1..n) \ T
<1>1. CASE B = {}
  <2>1. \A j \in 1..n : j \in T
    BY <1>1
  <2>2. n \in 0..n /\ ~(n < n)
    OBVIOUS
  <2>3. QED
    BY <2>1, <2>2
<1>2. CASE B # {}
  <2>1. B \subseteq Nat
    OBVIOUS
  <2> HIDE DEF B
  <2>2. PICK x \in B : \A y \in B : x <= y
    BY <1>2, <2>1, LeastNat
  <2>3. x \in 1..n /\ x \notin T /\ x \in Nat
    BY <2>2 DEF B
  <2>4. ASSUME NEW j \in 1..(x - 1) PROVE j \in T
    <3>1. j \in 1..n /\ ~(x <= j)
      BY <2>3
    <3>2. QED
      BY <2>2, <3>1 DEF B
  <2>5. x - 1 \in 0..n /\ x \in 1..((x - 1) + 1)
    BY <2>3
  <2>6. QED
    BY <2>3, <2>4, <2>5
<1>3. QED
  BY <1>1, <1>2

(* A command that is added in front stands behind nothing but the rest of  *)
(* a handshake, so a handshake that is added precedes every command of a   *)
(* caller.                                                                 *)
LEMMA Inserted ==
    ASSUME NEW q \in Seq(Item), NEW x \in Item, chainInExecution \in 0..MaxAttempt
    PROVE  /\ InsertAtFront(q, x) \in Seq(Item)
           /\ Items(InsertAtFront(q, x)) \subseteq Items(q) \cup {x}
           /\ x.name = "hello" => HasHello(InsertAtFront(q, x)) /\ HelloBefore(InsertAtFront(q, x))
<1> DEFINE T == {j \in DOMAIN q : chainInExecution # NoSocket /\ q[j].own = chainInExecution}
           inTail(i) == \A j \in 1..i : chainInExecution # NoSocket /\ q[j].own = chainInExecution
           P(i) == inTail(i) /\ (i < Len(q) => ~inTail(i + 1))
           k == CHOOSE i \in 0..Len(q) : P(i)
<1>0. Len(q) \in Nat /\ DOMAIN q = 1..Len(q)
  OBVIOUS
<1>1. k \in 0..Len(q) /\ inTail(k)
  <2>1. PICK i \in 0..Len(q) : /\ \A j \in 1..i : j \in T
                               /\ i < Len(q) => ~ \A j \in 1..(i + 1) : j \in T
    <3> HIDE DEF T
    <3>1. QED
      BY <1>0, TailExists
  <2>2. inTail(i)
    BY <2>1
  <2>3. ASSUME i < Len(q), inTail(i + 1) PROVE FALSE
    <3>1. \A j \in 1..(i + 1) : j \in DOMAIN q
      BY <1>0, <2>1, <2>3
    <3>2. \A j \in 1..(i + 1) : j \in T
      BY <2>3, <3>1
    <3>3. QED
      BY <2>1, <2>3, <3>2
  <2>4. P(i)
    BY <2>2, <2>3
  <2> HIDE DEF P
  <2>5. k \in 0..Len(q) /\ P(k)
    BY <2>4
  <2>6. QED
    BY <2>5 DEF P
<1>2. InsertAtFront(q, x) = SubSeq(q, 1, k) \o <<x>> \o SubSeq(q, k + 1, Len(q))
  BY DEF InsertAtFront
<1> HIDE DEF k
<1> DEFINE a == SubSeq(q, 1, k)
           b == SubSeq(q, k + 1, Len(q))
           ax == a \o <<x>>
           r == ax \o b
<1>3. a \in Seq(Item) /\ Len(a) = k /\ (\A i \in 1..k : a[i] = q[i]) /\ b \in Seq(Item) /\ Len(b) \in Nat
  BY <1>0, <1>1
<1> HIDE DEF a, b
<1>4. ax \in Seq(Item) /\ Len(ax) = k + 1 /\ ax[k + 1] = x /\ \A i \in 1..k : ax[i] = q[i]
  BY <1>0, <1>1, <1>3
<1> HIDE DEF ax
<1>5. r \in Seq(Item) /\ Len(r) = k + 1 + Len(b) /\ \A i \in 1..(k + 1) : r[i] = ax[i]
  BY <1>1, <1>3, <1>4
<1>6. r[k + 1] = x /\ (\A i \in 1..k : r[i] = q[i]) /\ k + 1 \in DOMAIN r /\ DOMAIN r = 1..(k + 1 + Len(b))
  BY <1>1, <1>3, <1>4, <1>5
<1>7. InsertAtFront(q, x) = r
  BY <1>2 DEF r, ax, a, b
<1> HIDE DEF r
<1>8. Items(r) \subseteq Items(q) \cup {x}
  <2>1. Items(a) \subseteq Items(q) /\ Items(b) \subseteq Items(q)
    BY <1>1, ItemsSplit DEF a, b
  <2>2. <<x>> \in Seq(Item) /\ Items(<<x>>) = {x}
    BY DEF Items
  <2>3. Items(ax) \subseteq Items(a) \cup {x}
    BY <1>3, <2>2, ItemsJoin DEF ax
  <2>4. Items(r) \subseteq Items(ax) \cup Items(b)
    BY <1>3, <1>4, ItemsJoin DEF r
  <2>5. QED
    BY <2>1, <2>3, <2>4
<1>9. ASSUME x.name = "hello" PROVE HasHello(r) /\ HelloBefore(r)
  <2>1. HasHello(r)
    BY <1>6, <1>9 DEF HasHello
  <2>2. ASSUME NEW i \in DOMAIN r, r[i].name = "user" PROVE \E j \in 1..(i - 1) : r[j].name = "hello"
    <3>1. CASE i \in 1..k
      <4>1. q[i] \in Item /\ q[i].own \in Attempt
        <5>1. chainInExecution # NoSocket /\ q[i].own = chainInExecution
          BY <1>1, <3>1
        <5>2. i \in 1..Len(q)
          BY <1>0, <1>1, <3>1
        <5>3. chainInExecution \in Attempt
          BY <5>1, SocketAssumption DEF NoSocket, Attempt
        <5>4. QED
          BY <1>0, <5>1, <5>2, <5>3
      <4>2. r[i] = q[i]
        BY <1>6, <3>1
      <4>3. QED
        BY <2>2, <4>1, <4>2, ItemNames
    <3>2. CASE i = k + 1
      BY <1>6, <1>9, <2>2, <3>2
    <3>3. CASE i \notin 1..k /\ i # k + 1
      <4>1. k + 1 \in 1..(i - 1)
        BY <1>0, <1>1, <1>3, <1>6, <3>3
      <4>2. QED
        BY <1>6, <1>9, <4>1
    <3>4. QED
      BY <3>1, <3>2, <3>3
  <2>3. QED
    BY <2>1, <2>2 DEF HelloBefore
<1>10. QED
  BY <1>5, <1>7, <1>8, <1>9

(* What is written after a handshake, or begins with one, comes after one. *)
LEMMA HelloConcat ==
    ASSUME NEW s \in Seq(Item), NEW t \in Seq(Item), HelloBefore(s), HasHello(s) \/ HelloBefore(t)
    PROVE  /\ s \o t \in Seq(Item)
           /\ HelloBefore(s \o t)
           /\ HasHello(s) \/ HasHello(t) => HasHello(s \o t)
<1> DEFINE r == s \o t
           n == Len(s)
<1>1. /\ r \in Seq(Item) /\ n \in Nat /\ Len(t) \in Nat
      /\ DOMAIN s = 1..n /\ DOMAIN t = 1..Len(t) /\ DOMAIN r = 1..(n + Len(t))
      /\ \A i \in 1..n : r[i] = s[i]
      /\ \A i \in 1..Len(t) : r[n + i] = t[i]
  OBVIOUS
<1> HIDE DEF r, n
<1>2. HasHello(s) => \E j \in 1..n : r[j].name = "hello"
  BY <1>1 DEF HasHello
<1>3. ASSUME NEW i \in DOMAIN r, r[i].name = "user" PROVE \E j \in 1..(i - 1) : r[j].name = "hello"
  <2>1. CASE i \in 1..n
    <3>1. PICK j \in 1..(i - 1) : s[j].name = "hello"
      BY <1>1, <1>3, <2>1 DEF HelloBefore
    <3>2. j \in 1..n
      BY <1>1, <2>1
    <3>3. QED
      BY <1>1, <3>1, <3>2
  <2>2. CASE i \notin 1..n
    <3>1. i - n \in 1..Len(t) /\ n + (i - n) = i
      BY <1>1, <2>2
    <3>2. CASE HasHello(s)
      <4>1. \A j \in 1..n : j \in 1..(i - 1)
        BY <1>1, <2>2
      <4>2. QED
        BY <1>2, <3>2, <4>1
    <3>3. CASE HelloBefore(t)
      <4>1. t[i - n].name = "user"
        BY <1>1, <1>3, <3>1
      <4>2. PICK j \in 1..((i - n) - 1) : t[j].name = "hello"
        BY <1>1, <3>1, <3>3, <4>1 DEF HelloBefore
      <4>3. j \in 1..Len(t) /\ n + j \in 1..(i - 1)
        BY <1>1, <3>1
      <4>4. r[n + j] = t[j]
        BY <1>1, <4>3
      <4>5. QED
        BY <4>2, <4>3, <4>4
    <3>4. QED
      BY <3>2, <3>3
  <2>3. QED
    BY <2>1, <2>2
<1>4. HasHello(s) => HasHello(r)
  <2>1. \A j \in 1..n : j \in DOMAIN r
    BY <1>1
  <2>2. QED
    BY <1>2, <2>1 DEF HasHello
<1>5. HasHello(t) => HasHello(r)
  <2>1. SUFFICES ASSUME NEW j \in 1..Len(t), t[j].name = "hello" PROVE HasHello(r)
    BY <1>1 DEF HasHello
  <2>2. n + j \in DOMAIN r /\ r[n + j] = t[j]
    BY <1>1
  <2>3. QED
    BY <2>1, <2>2 DEF HasHello
<1>6. QED
  BY <1>1, <1>3, <1>4, <1>5 DEF HelloBefore, r

(* #write: what the socket takes follows a handshake, or begins with one;  *)
(* a handshake that waits for its reply has been written.                  *)
LEMMA Written ==
    ASSUME SocketType, QueueType, HelloOrder, NEW q \in Seq(Item), WriteQueue(q),
           Writable => HasHello(sent[socket]) \/ HelloBefore(q)
    PROVE  /\ toWrite' \in Seq(Item) /\ waiting' \in Seq(Item) /\ chainInExecution' \in 0..MaxAttempt
           /\ sent' \in [Attempt -> Seq(Item)]
           /\ HelloOrder'
           /\ \A a \in Attempt : HasHello(sent[a]) => HasHello(sent'[a])
           /\ Queued' \subseteq Items(q) \cup Items(waiting)
           /\ \A x \in Items(waiting') : x.name = "hello" => x \in Items(waiting) \/ HasHello(sent'[socket])
<1>0. HelloOrder <=> \A a \in Attempt : HelloBefore(sent[a])
  BY DEF HelloOrder
<1>00. HelloOrder' <=> \A a \in Attempt : HelloBefore(sent'[a])
  BY DEF HelloOrder
<1>000. waiting \in Seq(Item)
  BY DEF QueueType
<1>1. CASE Writable /\ q # <<>>
  <2>1. PICK k \in 1..Len(q) :
           /\ toWrite' = SubSeq(q, k + 1, Len(q))
           /\ waiting' = waiting \o SubSeq(q, 1, k)
           /\ sent' = [sent EXCEPT ![socket] = @ \o SubSeq(q, 1, k)]
           /\ chainInExecution' = IF q[k].name = "user" THEN NoSocket ELSE q[k].own
    BY <1>1 DEF WriteQueue
  <2> DEFINE w == SubSeq(q, 1, k)
  <2>2. /\ Len(q) \in Nat /\ DOMAIN q = 1..Len(q) /\ k \in Nat /\ k <= Len(q) /\ k \in 0..Len(q)
        /\ w \in Seq(Item) /\ DOMAIN w = 1..k /\ \A i \in 1..k : w[i] = q[i]
    OBVIOUS
  <2>3. socket \in Attempt
    BY <1>1 DEF Writable, SocketType, NoSocket, Attempt
  <2>4. sent \in [Attempt -> Seq(Item)]
    BY DEF QueueType
  <2>5. sent' = [sent EXCEPT ![socket] = sent[socket] \o w] /\ waiting' = waiting \o w
    BY <2>1
  <2>50. Items(w) \subseteq Items(q) /\ toWrite' \in Seq(Item) /\ Items(toWrite') \subseteq Items(q)
    BY <2>1, <2>2, ItemsSplit
  <2> HIDE DEF w
  <2>6. HelloBefore(q) => HelloBefore(w)
    <3>1. SUFFICES ASSUME HelloBefore(q), NEW i \in 1..k, w[i].name = "user"
                   PROVE  \E j \in 1..(i - 1) : w[j].name = "hello"
      BY <2>2 DEF HelloBefore
    <3>2. PICK j \in 1..(i - 1) : q[j].name = "hello"
      BY <2>2, <3>1 DEF HelloBefore
    <3>3. j \in 1..k
      BY <2>2
    <3>4. QED
      BY <2>2, <3>2, <3>3
  <2>7. \A x \in Items(w) : x.name = "hello" => HasHello(w)
    BY DEF Items, HasHello
  <2>8. HelloBefore(sent[socket]) /\ (HasHello(sent[socket]) \/ HelloBefore(w)) /\ sent[socket] \in Seq(Item)
    BY <1>0, <1>1, <2>3, <2>4, <2>6
  <2>9. /\ sent[socket] \o w \in Seq(Item) /\ HelloBefore(sent[socket] \o w)
        /\ HasHello(sent[socket]) \/ HasHello(w) => HasHello(sent[socket] \o w)
    BY <2>2, <2>8, HelloConcat
  <2>10. \A a \in Attempt : sent'[a] = IF a = socket THEN sent[socket] \o w ELSE sent[a]
    BY <2>3, <2>4, <2>5
  <2>11. sent' \in [Attempt -> Seq(Item)]
    BY <2>4, <2>5, <2>9
  <2>12. waiting' \in Seq(Item) /\ Items(waiting') \subseteq Items(waiting) \cup Items(w)
    BY <1>000, <2>2, <2>5, ItemsJoin
  <2>13. chainInExecution' \in 0..MaxAttempt
    <3>1. q[k] \in Item
      BY <2>2
    <3>2. q[k].name # "user" => q[k].own \in Attempt
      BY <3>1, ItemNames
    <3>3. QED
      BY <2>1, <3>2, SocketAssumption DEF NoSocket, Attempt
  <2>14. HelloOrder'
    BY <1>0, <1>00, <2>9, <2>10
  <2>15. \A a \in Attempt : HasHello(sent[a]) => HasHello(sent'[a])
    BY <2>9, <2>10
  <2>16. HasHello(w) => HasHello(sent'[socket])
    BY <2>3, <2>9, <2>10
  <2>17. Queued' \subseteq Items(q) \cup Items(waiting)
    BY <2>12, <2>50 DEF Queued
  <2>18. \A x \in Items(waiting') : x.name = "hello" => x \in Items(waiting) \/ HasHello(sent'[socket])
    BY <2>7, <2>12, <2>16
  <2>19. QED
    BY <2>11, <2>12, <2>13, <2>14, <2>15, <2>17, <2>18, <2>50
<1>2. CASE ~(Writable /\ q # <<>>)
  <2>1. toWrite' = q /\ UNCHANGED <<waiting, sent, chainInExecution>>
    BY <1>2 DEF WriteQueue
  <2>2. Items(waiting') = Items(waiting) /\ Queued' = Items(q) \cup Items(waiting)
    BY <2>1 DEF Queued
  <2>3. QED
    BY <1>0, <1>00, <2>1, <2>2 DEF QueueType
<1>3. QED
  BY <1>1, <1>2

(* Initiators that are not made to succeed, or to wait for a handshake no  *)
(* longer, or to have run.                                                 *)
InitsKept ==
    /\ init' \in [Attempt -> InitState]
    /\ unanswered' \in [Attempt -> SUBSET Name]
    /\ \A a \in Attempt : /\ init'[a] = "sent" => init[a] = "sent"
                          /\ init'[a] = "sent" /\ "hello" \in unanswered[a] => "hello" \in unanswered'[a]
                          /\ init'[a] = "none" <=> init[a] = "none"

(* Commands that are not added to the queue. *)
QueueShrinks ==
    /\ toWrite' \in Seq(Item) /\ waiting' \in Seq(Item)
    /\ chainInExecution' \in 0..MaxAttempt
    /\ Items(waiting') \subseteq Items(waiting)
    /\ Queued' \subseteq Queued

(* Promises of initiators that are rejected make none succeed. *)
LEMMA RejectedInits ==
    ASSUME QueueType, InitiatorsFresh, NEW S \in SUBSET Queued, Reject(S)
    PROVE  InitsKept
<1> DEFINE rejected(a) == {n \in Name : OwnItem(a, n) \in S}
<1>1. /\ init' = [a \in Attempt |-> IF rejected(a) \ {"setinfo"} # {} THEN Rejected(init[a]) ELSE init[a]]
      /\ unanswered' = [a \in Attempt |-> unanswered[a] \ rejected(a)]
  BY DEF Reject
<1>2. \A a \in Attempt : Rejected(init[a]) \in {"doomed", "failed"}
  BY DEF Rejected
<1>3. \A a \in Attempt : init[a] \in InitState /\ unanswered[a] \in SUBSET Name
  BY DEF QueueType
<1>4. ASSUME NEW a \in Attempt, init[a] = "none" PROVE rejected(a) = {}
  <2>1. \A n \in Name : OwnItem(a, n).own = a
    BY DEF OwnItem
  <2>2. QED
    BY <1>4, <2>1 DEF InitiatorsFresh
<1>5. "hello" \in Name
  BY DEF Name
<1> HIDE DEF rejected
<1>6. \A a \in Attempt : "hello" \in rejected(a) => rejected(a) \ {"setinfo"} # {}
  OBVIOUS
<1>7. \A a \in Attempt : init'[a] = IF rejected(a) \ {"setinfo"} # {} THEN Rejected(init[a]) ELSE init[a]
  BY <1>1
<1>8. \A a \in Attempt : unanswered'[a] = unanswered[a] \ rejected(a)
  BY <1>1
<1>9. \A a \in Attempt : /\ init'[a] = "sent" => init[a] = "sent" /\ "hello" \notin rejected(a)
                         /\ init'[a] = "none" <=> init[a] = "none"
                         /\ init'[a] \in InitState
  BY <1>2, <1>3, <1>4, <1>6, <1>7 DEF InitState
<1>10. init' \in [Attempt -> InitState]
  <2>1. init' = [a \in Attempt |-> init'[a]]
    BY <1>1
  <2>2. QED
    BY <1>9, <2>1
<1>11. unanswered' \in [Attempt -> SUBSET Name]
  BY <1>1, <1>3
<1>12. \A a \in Attempt : init'[a] = "sent" /\ "hello" \in unanswered[a] => "hello" \in unanswered'[a]
  BY <1>8, <1>9
<1>13. QED
  BY <1>9, <1>10, <1>11, <1>12 DEF InitsKept

(* A flush of the queue keeps the rest of it. *)
LEMMA FlushKeeps ==
    ASSUME QueueType, InitiatorsFresh, FlushWaitingForReply \/ FlushAll
    PROVE  QueueShrinks /\ InitsKept
<1>0. toWrite \in Seq(Item) /\ waiting \in Seq(Item)
  BY DEF QueueType
<1>00. Items(<<>>) = {} /\ <<>> \in Seq(Item)
  BY DEF Items
<1>1. CASE FlushAll
  <2>1. toWrite' = <<>> /\ waiting' = <<>> /\ chainInExecution' = chainInExecution
    BY <1>1 DEF FlushAll
  <2>2. QueueShrinks
    <3>1. Items(waiting') = {} /\ Queued' = {}
      BY <1>00, <2>1 DEF Queued
    <3>2. QED
      BY <1>00, <2>1, <3>1 DEF QueueShrinks, QueueType
  <2>3. Reject(Queued)
    <3>1. Queued = Items(waiting) \cup Items(toWrite)
      BY DEF Queued
    <3>2. QED
      BY <1>1, <3>1 DEF FlushAll
  <2>4. QED
    BY <2>2, <2>3, RejectedInits
<1>2. CASE FlushWaitingForReply
  <2>1. PICK k \in 0..Len(toWrite) :
          /\ Reject(Items(waiting) \cup Items(SubSeq(toWrite, 1, k)))
          /\ toWrite' = SubSeq(toWrite, k + 1, Len(toWrite))
          /\ waiting' = <<>>
          /\ chainInExecution' = NoSocket
    BY <1>2 DEF FlushWaitingForReply
  <2>2. /\ toWrite' \in Seq(Item) /\ Items(toWrite') \subseteq Items(toWrite)
        /\ Items(SubSeq(toWrite, 1, k)) \subseteq Items(toWrite)
    BY <1>0, <2>1, ItemsSplit
  <2>3. chainInExecution' \in 0..MaxAttempt
    BY <2>1, SocketAssumption DEF NoSocket
  <2>4. QueueShrinks
    <3>1. Items(waiting') = {} /\ Queued' \subseteq Queued
      BY <1>00, <2>1, <2>2 DEF Queued
    <3>2. QED
      BY <1>00, <2>1, <2>2, <2>3, <3>1 DEF QueueShrinks
  <2>5. Items(waiting) \cup Items(SubSeq(toWrite, 1, k)) \in SUBSET Queued
    BY <2>2 DEF Queued
  <2>6. QED
    BY <2>1, <2>4, <2>5, RejectedInits
<1>3. QED
  BY <1>1, <1>2

(* Attempts are numbered upwards, and a loop that creates a socket has     *)
(* just made its attempt or was creating that socket before.               *)
LoopsAdvance ==
    /\ attempts <= attempts'
    /\ \A l \in Loop :
         /\ loop'[l].att <= attempts'
         /\ loop'[l].pc = "creating" =>
              \/ loop'[l].att > attempts /\ loop'[l].att \in Attempt
              \/ loop[l].pc = "creating" /\ loop'[l].att = loop[l].att

(* What the steps of a loop do to it. *)
LEMMA Advances ==
    ASSUME SocketType, \A l \in Loop : loop[l].att <= attempts,
           \/ loop' = loop /\ attempts' = attempts
           \/ \E l \in Loop : /\ attempts' = attempts
                              /\ \/ Stop(l)
                                 \/ \E pc \in {"delay", "pause", "initiating"} : loop' = [loop EXCEPT ![l].pc = pc]
           \/ \E l \in Loop : \E ph : Iterate(l, ph)
    PROVE  LoopsAdvance
<1>0. attempts \in Nat /\ attempts <= attempts
  BY SocketAssumption DEF SocketType
<1>1. CASE loop' = loop /\ attempts' = attempts
  BY <1>0, <1>1 DEF LoopsAdvance
<1>2. ASSUME NEW l \in Loop, attempts' = attempts, Stop(l) PROVE LoopsAdvance
  <2>1. /\ loop'[l].att = 0 /\ loop'[l].pc = "idle"
        /\ \A m \in Loop \ {l} : loop'[m] = loop[m]
    BY <1>2 DEF Stop, Idle, SocketType, NoSocket
  <2>2. 0 <= attempts
    BY <1>0
  <2>3. QED
    BY <1>0, <1>2, <2>1, <2>2 DEF LoopsAdvance
<1>3. ASSUME NEW l \in Loop, NEW pc \in {"delay", "pause", "initiating"}, attempts' = attempts,
             loop' = [loop EXCEPT ![l].pc = pc]
      PROVE  LoopsAdvance
  <2>1. loop'[l] = [loop[l] EXCEPT !.pc = pc] /\ loop[l] \in LoopState
        /\ \A m \in Loop \ {l} : loop'[m] = loop[m]
    BY <1>3 DEF SocketType
  <2>2. loop'[l].att = loop[l].att /\ loop'[l].pc # "creating"
    BY <2>1 DEF LoopState
  <2>3. QED
    BY <1>0, <1>3, <2>1, <2>2 DEF LoopsAdvance
<1>4. ASSUME NEW l \in Loop, NEW ph, Iterate(l, ph) PROVE LoopsAdvance
  <2>1. /\ attempts' = attempts + 1
        /\ loop'[l].att = attempts + 1
        /\ \A m \in Loop \ {l} : loop'[m] = loop[m]
    BY <1>4 DEF Iterate, SocketType
  <2>2. attempts <= attempts' /\ attempts' <= attempts' /\ attempts' > attempts
        /\ \A m \in Loop : loop[m].att \in Nat
    BY <1>0, <2>1 DEF SocketType, LoopState
  <2>3. \A m \in Loop \ {l} : loop'[m].att <= attempts'
    BY <1>0, <2>1, <2>2
  <2>4. attempts + 1 \in Attempt
    BY <1>4, <1>0, SocketAssumption DEF Iterate, Attempt
  <2>5. QED
    BY <2>1, <2>2, <2>3, <2>4 DEF LoopsAdvance
<1>5. QED
  BY <1>1, <1>2, <1>3, <1>4

(* An initiator that has not run still has not. *)
LEMMA FreshKept ==
    ASSUME SocketInv, InitiatorsFresh, LoopsAdvance, attempts' \in Nat,
           \A a \in Attempt : init'[a] = "none" <=> init[a] = "none",
           \A x \in Queued' : x \in Queued \/ (x.own \in Attempt => init'[x.own] # "none")
    PROVE  InitiatorsFresh'
<1>1. ASSUME NEW l \in Loop, loop'[l].pc = "creating" PROVE init'[loop'[l].att] = "none"
  <2>1. CASE loop'[l].att > attempts /\ loop'[l].att \in Attempt
    BY <2>1 DEF InitiatorsFresh
  <2>2. CASE loop[l].pc = "creating" /\ loop'[l].att = loop[l].att
    <3>1. loop[l].att \in Attempt
      BY <2>2 DEF SocketInv, OneLoop
    <3>2. QED
      BY <2>2, <3>1 DEF InitiatorsFresh
  <2>3. QED
    BY <1>1, <2>1, <2>2 DEF LoopsAdvance
<1>2. ASSUME NEW a \in Attempt, a > attempts' PROVE init'[a] = "none"
  <2>1. a > attempts
    BY <1>2, SocketAssumption DEF LoopsAdvance, SocketInv, SocketType, Attempt
  <2>2. QED
    BY <2>1 DEF InitiatorsFresh
<1>3. ASSUME NEW x \in Queued', x.own \in Attempt PROVE init'[x.own] # "none"
  BY <1>3 DEF InitiatorsFresh
<1>4. QED
  BY <1>1, <1>2, <1>3 DEF InitiatorsFresh

(* A step that opens no connection, schedules a write on a ready one only, *)
(* and lets an initiator have its reply when its handshake was written.    *)
LEMMA HelloKept ==
    ASSUME SocketInv, HelloInv, QueueType', HelloOrder', LoopsAdvance,
           \A a \in Attempt : HasHello(sent[a]) => HasHello(sent'[a]),
           \A a \in Attempt : phys'[a] = "open" => phys[a] = "open",
           socket' \in 0..MaxAttempt, attempts' \in Nat,
           isReady' => (isReady /\ socket' = socket) \/ HasHello(sent'[socket']),
           scheduledWrite' => scheduledWrite \/ isReady \/ HasHello(sent'[socket']),
           \A a \in Attempt : init'[a] = "none" <=> init[a] = "none",
           \A x \in Queued' : x \in Queued \/ (x.own \in Attempt => init'[x.own] # "none"),
           \A a \in Attempt : phys[a] = "open" /\ init'[a] = "sent" /\ "hello" \notin unanswered'[a] =>
               (init[a] = "sent" /\ "hello" \notin unanswered[a]) \/ HasHello(sent'[a]),
           \A a \in Attempt : phys[a] = "open" /\ OwnItem(a, "hello") \in Items(waiting') =>
               OwnItem(a, "hello") \in Items(waiting) \/ HasHello(sent'[a])
    PROVE  HelloInv'
<1> USE DEF HelloInv
<1>0. InitiatorsFresh'
  BY FreshKept
<1>1. ASSUME isReady' PROVE HasHello(sent'[socket'])
  <2>1. CASE isReady /\ socket' = socket
    <3>1. socket \in Attempt
      BY <2>1 DEF SocketInv, SocketsOwned, SocketType, NoSocket, Attempt
    <3>2. QED
      BY <2>1, <3>1 DEF HelloSent
  <2>2. QED
    BY <1>1, <2>1
<1>2. ASSUME scheduledWrite', Writable' PROVE HasHello(sent'[socket'])
  <2>1. socket' \in Attempt /\ phys[socket'] = "open"
    BY <1>2 DEF Writable, NoSocket, Attempt
  <2>2. socket' = socket /\ Writable
    BY <2>1 DEF SocketInv, SocketsOwned, Writable, NoSocket, Attempt
  <2>3. HasHello(sent[socket]) \/ HasHello(sent'[socket'])
    BY <1>2, <2>2 DEF HelloSent
  <2>4. QED
    BY <2>1, <2>2, <2>3
<1>3. ASSUME NEW a \in Attempt, phys'[a] = "open"
      PROVE  /\ init'[a] = "sent" /\ "hello" \notin unanswered'[a] => HasHello(sent'[a])
             /\ OwnItem(a, "hello") \in Items(waiting') => HasHello(sent'[a])
  BY <1>3 DEF HelloSent
<1>4. Items(waiting)' = Items(waiting')
  BY DEF Items
<1>5. HelloSent'
  BY <1>1, <1>2, <1>3, <1>4 DEF HelloSent
<1>6. QED
  BY <1>0, <1>5

(* The same for a step that adds nothing to the queue and writes nothing.  *)
LEMMA HelloShrinks ==
    ASSUME SocketInv, HelloInv, QueueShrinks, InitsKept, LoopsAdvance, sent' = sent,
           \A a \in Attempt : phys'[a] = "open" => phys[a] = "open",
           socket' \in 0..MaxAttempt, attempts' \in Nat,
           isReady' => (isReady /\ socket' = socket) \/ HasHello(sent[socket']),
           scheduledWrite' => scheduledWrite \/ isReady \/ HasHello(sent[socket'])
    PROVE  HelloInv'
<1>1. QueueType'
  BY DEF HelloInv, QueueType, QueueShrinks, InitsKept
<1>2. HelloOrder'
  BY DEF HelloInv, HelloOrder
<1>3. \A a \in Attempt : init'[a] = "none" <=> init[a] = "none"
  BY DEF InitsKept
<1>4. \A a \in Attempt : init'[a] = "sent" /\ "hello" \notin unanswered'[a] =>
                            init[a] = "sent" /\ "hello" \notin unanswered[a]
  BY DEF InitsKept
<1>5. Items(waiting') \subseteq Items(waiting) /\ Queued' \subseteq Queued
  BY DEF QueueShrinks
<1>6. QED
  BY <1>1, <1>2, <1>3, <1>4, <1>5, HelloKept

(* Neither the queue nor the initiators change. *)
LEMMA QueueSame ==
    ASSUME QueueType, UNCHANGED <<toWrite, waiting, chainInExecution, init, unanswered>>
    PROVE  QueueShrinks /\ InitsKept
<1>1. Items(waiting') = Items(waiting) /\ Queued' = Queued
  BY DEF Queued
<1>2. QED
  BY <1>1 DEF QueueType, QueueShrinks, InitsKept

(* The listeners, in a step that opens no connection and makes none ready  *)
(* that no handshake was written on.                                       *)
LEMMA ListenersKeep ==
    ASSUME SocketInv, HelloInv, Listeners, LoopsAdvance,
           \A a \in Attempt : phys'[a] = "open" => phys[a] = "open",
           socket' \in 0..MaxAttempt, attempts' \in Nat,
           isReady' => (isReady /\ socket' = socket) \/ HasHello(sent[socket']),
           "ready" \in emitted' => HasHello(sent[socket'])
    PROVE  HelloInv'
<1>1. sent' = sent
  BY DEF Listeners, wireVars
<1>2. QueueShrinks /\ InitsKept
  <2>1. CASE FlushWaitingForReply \/ FlushAll
    BY <2>1, FlushKeeps DEF HelloInv
  <2>2. CASE UNCHANGED queueVars
    BY <2>2, QueueSame DEF queueVars, HelloInv
  <2>3. QED
    BY <2>1, <2>2 DEF Listeners
<1>3. scheduledWrite' => scheduledWrite \/ HasHello(sent[socket'])
  BY DEF Listeners
<1>4. QED
  BY <1>1, <1>2, <1>3, HelloShrinks

(* A failed attempt opens nothing. *)
LEMMA FailedOpensNone ==
    ASSUME NEW l, NEW s, NEW ph \in [Attempt -> {"none", "connecting", "open", "closed"}], NEW wait,
           Failed(l, s, ph, wait) \/ Caught(l, s, ph)
    PROVE  /\ \A a \in Attempt : phys'[a] = "open" => ph[a] = "open"
           /\ isReady' => isReady /\ socket' = s /\ "end" \notin emitted'
           /\ "ready" \notin emitted' /\ "connect" \notin emitted'
<1>1. phys' = ph \/ phys' = Closing(ph, s)
  BY DEF Failed, Caught, GiveUp, DestroySocket
<1>2. \A a \in Attempt : phys'[a] = "open" => ph[a] = "open"
  BY <1>1, ClosingEffect
<1>3. isReady' => isReady /\ socket' = s /\ "end" \notin emitted'
  <2>1. \/ isReady' = FALSE
        \/ isReady' = isReady /\ socket' = s /\ emitted' \in {{"terminated", "error"}, {"error"}, {}}
    BY Zenon DEF Failed, Caught, GiveUp, DestroySocket
  <2>2. emitted' \in {{"terminated", "error"}, {"error"}, {}} => "end" \notin emitted'
    OBVIOUS
  <2>3. QED
    BY <2>1, <2>2
<1>4. \/ emitted' = {"terminated", "error"} \/ emitted' = {"error"}
      \/ emitted' = {"error", "end"} \/ emitted' = {}
  BY DEF Failed, Caught, GiveUp
<1>5. "ready" \notin emitted'
  BY <1>4
<1>6. "connect" \notin emitted'
  BY <1>4
<1>7. QED
  BY <1>2, <1>3, <1>5, <1>6

(* Steps of a loop that open no connection. *)
LEMMA LoopOpensNone ==
    ASSUME SocketInv, NEW l \in Loop,
           \/ Connect(l)
           \/ /\ ~Strays(l)
              /\ \/ CreateFails(l) \/ Retry(l) \/ InitiatorFails(l) \/ SocketDied(l)
                 \/ Created(l) /\ "connect" \notin emitted'
                 \/ Initiated(l) /\ "ready" \notin emitted'
    PROVE  /\ \A a \in Attempt : phys'[a] = "open" => phys[a] = "open"
           /\ isReady' => isReady /\ socket' = socket
           /\ "ready" \notin emitted'
<1>0. phys \in [Attempt -> {"none", "connecting", "open", "closed"}]
  BY DEF SocketInv, SocketType
<1>1. ASSUME NEW s \in {socket, NoSocket}, NEW b, ~Strays(l), s # socket => loop[l].pc = "initiating",
             Failed(l, s, Closing(phys, b), "pause") \/ Caught(l, s, Closing(phys, b))
      PROVE  /\ \A a \in Attempt : phys'[a] = "open" => phys[a] = "open"
             /\ isReady' => isReady /\ socket' = socket
             /\ "ready" \notin emitted'
  <2>1. Closing(phys, b) \in [Attempt -> {"none", "connecting", "open", "closed"}]
        /\ \A a \in Attempt : Closing(phys, b)[a] = IF a = b THEN "closed" ELSE phys[a]
    BY <1>0, ClosingEffect
  <2>2. /\ \A a \in Attempt : phys'[a] = "open" => Closing(phys, b)[a] = "open"
        /\ isReady' => isReady /\ socket' = s /\ "end" \notin emitted'
        /\ "ready" \notin emitted'
    BY <1>1, <2>1, FailedOpensNone
  <2>3. isReady' => s = socket
    <3>1. SUFFICES ASSUME isReady', s # socket PROVE FALSE
      OBVIOUS
    <3>2. isReady /\ socket' = NoSocket /\ "end" \notin emitted' /\ loop[l].pc # "idle"
      BY <1>1, <2>2, <3>1
    <3>3. socket # NoSocket /\ ~Live(l)
      BY <3>2 DEF SocketInv, SocketsOwned
    <3>4. QED
      BY <1>1, <3>2, <3>3 DEF Strays, Live
  <2>4. QED
    BY <2>1, <2>2, <2>3
<1>2. ASSUME NEW ph, ph = phys, Iterate(l, ph)
      PROVE  \A a \in Attempt : phys'[a] = "open" => phys[a] = "open"
  BY <1>0, <1>2 DEF Iterate
<1>3. CASE Connect(l)
  BY <1>2, <1>3 DEF Connect
<1>4. CASE ~Strays(l) /\ CreateFails(l)
  BY <1>1, <1>4 DEF CreateFails
<1>5. CASE ~Strays(l) /\ (InitiatorFails(l) \/ SocketDied(l))
  BY <1>1, <1>5 DEF InitiatorFails, SocketDied
<1>6. CASE ~Strays(l) /\ Created(l) /\ "connect" \notin emitted'
  BY <1>1, <1>6 DEF Created
<1>7. CASE ~Strays(l) /\ Initiated(l) /\ "ready" \notin emitted'
  BY <1>1, <1>7 DEF Initiated
<1>8. CASE ~Strays(l) /\ Retry(l)
  <2>1. \A a \in Attempt : Closing(phys, socket)[a] = "open" => phys[a] = "open"
    BY <1>0, ClosingEffect
  <2>2. CASE DestroySocket(socket, phys) /\ emitted' = {"reconnecting", "end"}
    BY <2>1, <2>2 DEF DestroySocket
  <2>3. CASE emitted' = {"reconnecting"} /\ (Iterate(l, phys) \/ phys' = phys)
             /\ UNCHANGED <<isReady, socket>>
    BY <1>2, <2>3
  <2>4. CASE emitted' = {} /\ UNCHANGED <<isReady, socket, phys>>
    BY <2>4
  <2>5. CASE emitted' = {} /\ socket' = NoSocket /\ phys' = Closing(phys, socket) /\ isReady' = isReady
    <3>1. isReady => socket # NoSocket /\ ~Live(l)
      BY DEF SocketInv, SocketsOwned
    <3>2. loop[l].pc # "idle"
      BY <1>8 DEF Retry
    <3>3. ~isReady
      BY <1>8, <2>5, <3>1, <3>2 DEF Strays, Live
    <3>4. QED
      BY <2>1, <2>5, <3>3
  <2>6. QED
    BY <1>8, <2>2, <2>3, <2>4, <2>5 DEF Retry
<1>9. QED
  BY <1>3, <1>4, <1>5, <1>6, <1>7, <1>8

(* What they do to the loops. *)
LEMMA LoopAdvances ==
    ASSUME SocketInv, NEW l \in Loop,
           \/ Connect(l) \/ CreateFails(l) \/ Retry(l) \/ InitiatorFails(l) \/ SocketDied(l)
           \/ Created(l) \/ Initiated(l)
    PROVE  LoopsAdvance
<1>1. SocketType /\ \A m \in Loop : loop[m].att <= attempts
  BY DEF SocketInv, OneLoop
<1>2. ASSUME NEW s, NEW ph, Failed(l, s, ph, "pause") \/ Caught(l, s, ph) PROVE LoopsAdvance
  <2>1. attempts' = attempts
        /\ (Stop(l) \/ \E pc \in {"delay", "pause", "initiating"} : loop' = [loop EXCEPT ![l].pc = pc])
    BY <1>2 DEF Failed, Caught, GiveUp
  <2>2. QED
    BY <1>1, <2>1, Advances
<1>3. CASE Connect(l) \/ Retry(l)
  <2>1. Iterate(l, phys) \/ (Stop(l) /\ attempts' = attempts)
    BY <1>3 DEF Connect, Retry
  <2>2. QED
    BY <1>1, <2>1, Advances
<1>4. CASE CreateFails(l) \/ InitiatorFails(l) \/ SocketDied(l)
  BY <1>2, <1>4 DEF CreateFails, InitiatorFails, SocketDied
<1>5. CASE Created(l)
  <2>1. CASE Caught(l, socket, Closing(phys, loop[l].att))
    BY <1>2, <2>1
  <2>2. CASE loop' = [loop EXCEPT ![l].pc = "initiating"] /\ attempts' = attempts
    BY <1>1, <2>2, Advances
  <2>3. QED
    BY <1>5, <2>1, <2>2 DEF Created
<1>6. CASE Initiated(l)
  <2>1. CASE Failed(l, NoSocket, Closing(phys, socket), "pause")
    BY <1>2, <2>1
  <2>2. CASE Stop(l) /\ attempts' = attempts
    BY <1>1, <2>2, Advances
  <2>3. QED
    BY <1>6, <2>1, <2>2 DEF Initiated
<1>7. QED
  BY <1>3, <1>4, <1>5, <1>6

(* Neither does a failure of the network. *)
LEMMA NetworkOpensNone ==
    ASSUME SocketInv, NEW b \in Attempt, SocketErrors(b) \/ SocketEnds(b)
    PROVE  /\ \A a \in Attempt : phys'[a] = "open" => phys[a] = "open"
           /\ isReady' => isReady /\ socket' = socket
           /\ "ready" \notin emitted'
<1>0. phys \in [Attempt -> {"none", "connecting", "open", "closed"}]
  BY DEF SocketInv, SocketType
<1> DEFINE ph == Closing(phys, b)
           cd == Closing(ph, socket)
<1>1. /\ ph \in [Attempt -> {"none", "connecting", "open", "closed"}]
      /\ \A a \in Attempt : ph[a] = "open" => phys[a] = "open"
  BY <1>0, ClosingEffect
<1>2. /\ cd \in [Attempt -> {"none", "connecting", "open", "closed"}]
      /\ \A a \in Attempt : cd[a] = "open" => phys[a] = "open"
  <2> HIDE DEF ph
  <2>1. QED
    BY <1>1, ClosingEffect
<1>3. \A a \in Attempt : Closing(cd, NoSocket)[a] = "open" => phys[a] = "open"
  <2> HIDE DEF cd
  <2>1. QED
    BY <1>2, ClosingEffect
<1> HIDE DEF cd, ph
<1>4. CASE OnSocketError(ph)
  <2>1. /\ isReady' = FALSE
        /\ "ready" \notin emitted'
        /\ \/ phys' = cd
           \/ phys' = Closing(cd, NoSocket)
           \/ \E l \in Loop : Iterate(l, cd)
    BY <1>4 DEF OnSocketError, DestroySocket, cd
  <2>2. (\E l \in Loop : Iterate(l, cd)) => \A a \in Attempt : phys'[a] = "open" => cd[a] = "open"
    BY <1>2 DEF Iterate
  <2>3. QED
    BY <1>2, <1>3, <2>1, <2>2
<1>5. CASE phys' = ph /\ emitted' = {} /\ UNCHANGED <<isReady, socket>>
  BY <1>1, <1>5
<1>6. QED
  BY <1>4, <1>5 DEF SocketErrors, SocketEnds, ph

(* The loops in a failure of the network. *)
LEMMA NetworkAdvances ==
    ASSUME SocketInv, NEW b \in Attempt, SocketErrors(b) \/ SocketEnds(b)
    PROVE  LoopsAdvance
<1>1. SocketType /\ \A m \in Loop : loop[m].att <= attempts
  BY DEF SocketInv, OneLoop
<1>2. ASSUME NEW ph, OnSocketError(ph) PROVE (loop' = loop /\ attempts' = attempts) \/ \E l \in Loop : \E p : Iterate(l, p)
  BY <1>2 DEF OnSocketError
<1>3. (loop' = loop /\ attempts' = attempts) \/ \E l \in Loop : \E p : Iterate(l, p)
  BY <1>2 DEF SocketErrors, SocketEnds
<1>4. QED
  BY <1>1, <1>3, Advances

(* Commands that are neither written nor answered: sendCommand, a drain    *)
(* and a provider that has no credentials.                                 *)
LEMMA HelloQueued ==
    ASSUME SocketInv, HelloInv,
           \/ \E u \in User : SendCommand(u)
           \/ \E a \in Attempt : CredentialsFail(a)
           \/ Drain
           \/ UNCHANGED allVars
    PROVE  HelloInv'
<1> USE DEF HelloInv
<1>0. socket \in 0..MaxAttempt /\ attempts \in Nat
  BY DEF SocketInv, SocketType
<1>00. SocketType /\ \A m \in Loop : loop[m].att <= attempts
  BY DEF SocketInv, OneLoop
<1>1. ASSUME NEW u \in User, SendCommand(u) PROVE HelloInv'
  <2>1. UserItem(u) \in Item /\ UserItem(u).own = u
    BY DEF Item, UserItem
  <2>2. toWrite' = toWrite \/ toWrite' = Append(toWrite, UserItem(u))
    BY <1>1 DEF SendCommand
  <2>3. toWrite \in Seq(Item)
    BY DEF QueueType
  <2>4. toWrite' \in Seq(Item) /\ Items(toWrite') \subseteq Items(toWrite) \cup {UserItem(u)}
    <3>1. <<UserItem(u)>> \in Seq(Item) /\ Items(<<UserItem(u)>>) = {UserItem(u)}
      BY <2>1 DEF Items
    <3>2. Append(toWrite, UserItem(u)) = toWrite \o <<UserItem(u)>>
      BY <2>3
    <3>3. QED
      BY <2>2, <2>3, <3>1, <3>2, ItemsJoin, ZenonT(60)
  <2>5. UNCHANGED <<waiting, chainInExecution, init, unanswered, sent, phys, socket, isReady, loop, attempts>>
    BY <1>1 DEF SendCommand, wireVars
  <2>6. scheduledWrite' => scheduledWrite \/ isReady
    BY <1>1 DEF SendCommand
  <2>7. QueueType' /\ HelloOrder'
    BY <2>4, <2>5 DEF QueueType, HelloOrder
  <2>8. LoopsAdvance
    BY <1>00, <2>5, Advances
  <2>9. Items(waiting') = Items(waiting) /\ Queued' \subseteq Queued \cup {UserItem(u)}
    BY <2>4, <2>5 DEF Queued
  <2>10. \A x \in Queued' : x \in Queued \/ (x.own \in Attempt => init'[x.own] # "none")
    BY <2>1, <2>9, ClientAssumption
  <2>11. QED
    BY <1>0, <2>5, <2>6, <2>7, <2>8, <2>9, <2>10, HelloKept
<1>2. ASSUME NEW a \in Attempt, CredentialsFail(a) PROVE HelloInv'
  <2>1. /\ init' = [init EXCEPT ![a] = "failed"] /\ init[a] \in {"credentials", "doomed"}
        /\ UNCHANGED <<toWrite, waiting, chainInExecution, unanswered, sent, phys, socket,
                       isReady, scheduledWrite, loop, attempts>>
    BY <1>2 DEF CredentialsFail, wireVars
  <2>2. QueueShrinks
    <3>1. Items(waiting') = Items(waiting) /\ Queued' = Queued
      BY <2>1 DEF Queued
    <3>2. QED
      BY <2>1, <3>1 DEF QueueType, QueueShrinks
  <2>3. InitsKept
    BY <2>1 DEF QueueType, InitsKept, InitState
  <2>4. LoopsAdvance
    BY <1>00, <2>1, Advances
  <2>5. QED
    BY <1>0, <2>1, <2>2, <2>3, <2>4, HelloShrinks
<1>3. CASE Drain \/ UNCHANGED allVars
  <2>1. UNCHANGED <<toWrite, waiting, chainInExecution, init, unanswered, sent, phys, socket,
                    isReady, loop, attempts>>
    BY <1>3 DEF Drain, queueVars, wireVars, allVars, socketVars, clientVars
  <2>2. scheduledWrite' => scheduledWrite \/ isReady
    BY <1>3 DEF Drain, allVars, clientVars
  <2>3. QueueShrinks /\ InitsKept
    BY <2>1, QueueSame
  <2>4. LoopsAdvance
    BY <1>00, <2>1, Advances
  <2>5. QED
    BY <1>0, <2>1, <2>2, <2>3, <2>4, HelloShrinks
<1>4. QED
  BY <1>1, <1>2, <1>3

(* Writes: one that was scheduled goes to a connection that has had a      *)
(* handshake, and that of an initiator puts its handshake first.           *)
LEMMA HelloWritten ==
    ASSUME SocketInv, HelloInv, MaxLength = 0,
           ScheduledWrite \/ \E a \in Attempt : SendHandshake(a)
    PROVE  HelloInv'
<1> USE DEF HelloInv
<1>0. socket \in 0..MaxAttempt /\ attempts \in Nat /\ SocketType
  BY DEF SocketInv, SocketType
<1>00. \A m \in Loop : loop[m].att <= attempts
  BY DEF SocketInv, OneLoop
<1>000. toWrite \in Seq(Item) /\ chainInExecution \in 0..MaxAttempt
  BY DEF QueueType
<1>1. ASSUME \A x \in Items(waiting') : x.name = "hello" => x \in Items(waiting) \/ HasHello(sent'[socket])
      PROVE  \A a \in Attempt : phys[a] = "open" /\ OwnItem(a, "hello") \in Items(waiting') =>
                 OwnItem(a, "hello") \in Items(waiting) \/ HasHello(sent'[a])
  <2>1. \A a \in Attempt : OwnItem(a, "hello").name = "hello"
    BY DEF OwnItem
  <2>2. \A a \in Attempt : phys[a] = "open" => socket = a
    BY DEF SocketInv, SocketsOwned
  <2>3. QED
    BY <1>1, <2>1, <2>2
<1>2. CASE ScheduledWrite
  <2>1. /\ scheduledWrite /\ ~scheduledWrite' /\ WriteQueue(toWrite)
        /\ UNCHANGED <<init, unanswered, phys, socket, isReady, loop, attempts>>
    BY <1>2 DEF ScheduledWrite
  <2>2. Writable => HasHello(sent[socket])
    BY <2>1 DEF HelloSent
  <2>3. /\ toWrite' \in Seq(Item) /\ waiting' \in Seq(Item) /\ chainInExecution' \in 0..MaxAttempt
        /\ sent' \in [Attempt -> Seq(Item)]
        /\ HelloOrder'
        /\ \A a \in Attempt : HasHello(sent[a]) => HasHello(sent'[a])
        /\ Queued' \subseteq Items(toWrite) \cup Items(waiting)
        /\ \A x \in Items(waiting') : x.name = "hello" => x \in Items(waiting) \/ HasHello(sent'[socket])
    BY <1>0, <1>000, <2>1, <2>2, Written
  <2>4. QueueType' /\ LoopsAdvance
    BY <1>0, <1>00, <2>1, <2>3, Advances DEF QueueType
  <2>5. Queued' \subseteq Queued
    BY <2>3 DEF Queued
  <2>6. QED
    BY <1>0, <1>1, <2>1, <2>3, <2>4, <2>5, HelloKept
<1>3. ASSUME NEW a \in Attempt, SendHandshake(a) PROVE HelloInv'
  <2> DEFINE q1 == InsertAtFront(toWrite, OwnItem(a, "setinfo"))
             q2 == InsertAtFront(q1, OwnItem(a, "hello"))
  <2>1. \A s : HasCapacity(s)
    BY DEF HasCapacity
  <2>2. /\ init[a] \in {"credentials", "doomed"}
        /\ init' = [init EXCEPT ![a] = IF init[a] = "credentials" THEN "sent" ELSE "failed"]
        /\ unanswered' = [unanswered EXCEPT ![a] = @ \cup {"hello"} \cup {"setinfo"}]
        /\ WriteQueue(q2)
        /\ UNCHANGED <<phys, socket, isReady, scheduledWrite, loop, attempts>>
    BY <1>3, <2>1 DEF SendHandshake
  <2>3. OwnItem(a, "setinfo") \in Item /\ OwnItem(a, "hello") \in Item
    BY DEF Item, Name
  <2>4. OwnItem(a, "hello").name = "hello" /\ OwnItem(a, "hello").own = a /\ OwnItem(a, "setinfo").own = a
    BY DEF OwnItem
  <2>5. q1 \in Seq(Item) /\ Items(q1) \subseteq Items(toWrite) \cup {OwnItem(a, "setinfo")}
    BY <1>000, <2>3, Inserted
  <2> HIDE DEF q1
  <2>6. /\ q2 \in Seq(Item) /\ HelloBefore(q2)
        /\ Items(q2) \subseteq Items(q1) \cup {OwnItem(a, "hello")}
    BY <1>000, <2>3, <2>4, <2>5, Inserted
  <2> HIDE DEF q2
  <2>7. /\ toWrite' \in Seq(Item) /\ waiting' \in Seq(Item) /\ chainInExecution' \in 0..MaxAttempt
        /\ sent' \in [Attempt -> Seq(Item)]
        /\ HelloOrder'
        /\ \A b \in Attempt : HasHello(sent[b]) => HasHello(sent'[b])
        /\ Queued' \subseteq Items(q2) \cup Items(waiting)
        /\ \A x \in Items(waiting') : x.name = "hello" => x \in Items(waiting) \/ HasHello(sent'[socket])
    BY <1>0, <2>2, <2>6, Written
  <2>8. init' \in [Attempt -> InitState] /\ unanswered' \in [Attempt -> SUBSET Name]
    BY <2>2 DEF QueueType, InitState, Name
  <2>9. QueueType' /\ LoopsAdvance
    BY <1>0, <1>00, <2>2, <2>7, <2>8, Advances DEF QueueType
  <2>10. /\ \A b \in Attempt : init'[b] = "none" <=> init[b] = "none"
         /\ init'[a] # "none"
         /\ "hello" \in unanswered'[a]
         /\ \A b \in Attempt \ {a} : init'[b] = init[b] /\ unanswered'[b] = unanswered[b]
    BY <2>2 DEF QueueType
  <2>11. \A x \in Queued' : x \in Queued \/ (x.own \in Attempt => init'[x.own] # "none")
    BY <2>4, <2>5, <2>6, <2>7, <2>10 DEF Queued
  <2>12. QED
    BY <1>0, <1>1, <2>2, <2>7, <2>9, <2>10, <2>11, HelloKept
<1>4. QED
  BY <1>2, <1>3

(* Replies, close() and destroy(): connections are only closed, and what   *)
(* is rejected makes no initiator succeed.                                 *)
LEMMA HelloSettled ==
    ASSUME SocketInv, HelloInv,
           (\E a \in Attempt : ReplyStep(a)) \/ Close \/ Destroy
    PROVE  HelloInv'
<1> USE DEF HelloInv
<1>0. /\ socket \in 0..MaxAttempt /\ attempts \in Nat
      /\ phys \in [Attempt -> {"none", "connecting", "open", "closed"}]
  BY DEF SocketInv, SocketType
<1>00. NoSocket \in 0..MaxAttempt
  BY SocketAssumption DEF NoSocket
<1>000. SocketType /\ \A m \in Loop : loop[m].att <= attempts
  BY DEF SocketInv, OneLoop
<1>1. \A a \in Attempt : Closing(phys, socket)[a] = "open" => phys[a] = "open"
  BY <1>0, ClosingEffect
<1>2. ASSUME DestroySocket(socket, phys) \/ UNCHANGED <<phys, socket, isReady>>
      PROVE  /\ \A a \in Attempt : phys'[a] = "open" => phys[a] = "open"
             /\ socket' \in 0..MaxAttempt
             /\ isReady' => isReady /\ socket' = socket
  <2>1. CASE DestroySocket(socket, phys)
    <3>1. ~isReady' /\ socket' = NoSocket /\ phys' = Closing(phys, socket)
      BY <2>1 DEF DestroySocket
    <3>2. QED
      BY <1>00, <1>1, <3>1
  <2>2. CASE UNCHANGED <<phys, socket, isReady>>
    BY <1>0, <2>2
  <2>3. QED
    BY <1>2, <2>1, <2>2
<1>3. ASSUME NEW a \in Attempt, NEW error \in BOOLEAN, Reply(a, error) PROVE HelloInv'
  <2> DEFINE item == Head(waiting)
  <2>1. /\ waiting # <<>> /\ waiting' = Tail(waiting)
        /\ UNCHANGED <<toWrite, chainInExecution, sent, scheduledWrite, loop, attempts>>
        /\ SocketDrained \/ UNCHANGED <<phys, socket, isReady>>
    BY <1>3 DEF Reply, SocketDrained
  <2>2. DestroySocket(socket, phys) \/ UNCHANGED <<phys, socket, isReady>>
    BY <2>1 DEF SocketDrained
  <2>3. waiting \in Seq(Item)
    BY DEF QueueType
  <2>4. waiting' \in Seq(Item) /\ Items(waiting') \subseteq Items(waiting) /\ item \in Items(waiting) /\ item \in Item
    BY <2>1, <2>3, ItemsTail
  <2>5. PICK f : init' = [b \in Attempt |-> IF f /\ item.own = b THEN Rejected(init[b]) ELSE init[b]]
    BY <1>3 DEF Reply
  <2>6. unanswered' = [b \in Attempt |-> IF item.own = b THEN unanswered[b] \ {item.name} ELSE unanswered[b]]
    BY <1>3 DEF Reply
  <2> HIDE DEF item
  <2>7. \A b \in Attempt : init'[b] \in {Rejected(init[b]), init[b]} /\ (item.own # b => init'[b] = init[b])
    BY <2>5
  <2>8. \A b \in Attempt : Rejected(init[b]) \in {"doomed", "failed"}
    BY DEF Rejected
  <2>9. \A b \in Attempt : init[b] \in InitState /\ unanswered[b] \in SUBSET Name
    BY DEF QueueType
  <2>10. init' \in [Attempt -> InitState]
    <3>1. init' = [b \in Attempt |-> init'[b]]
      BY <2>5
    <3>2. \A b \in Attempt : init'[b] \in InitState
      BY <2>7, <2>8, <2>9 DEF InitState
    <3>3. QED
      BY <3>1, <3>2
  <2>11. unanswered' \in [Attempt -> SUBSET Name]
    BY <2>6, <2>9
  <2>12. \A b \in Attempt : init'[b] = "none" <=> init[b] = "none"
    <3>1. \A b \in Attempt : item.own = b => init[b] # "none"
      BY <2>4 DEF InitiatorsFresh, Queued
    <3>2. QED
      BY <2>7, <2>8, <3>1
  <2>13. ASSUME NEW b \in Attempt, phys[b] = "open", init'[b] = "sent", "hello" \notin unanswered'[b]
         PROVE  (init[b] = "sent" /\ "hello" \notin unanswered[b]) \/ HasHello(sent'[b])
    <3>1. init[b] = "sent"
      BY <2>7, <2>8, <2>13
    <3>2. CASE "hello" \in unanswered[b]
      <4>1. item.own = b /\ item.name = "hello"
        BY <2>6, <2>13, <3>2
      <4>2. item = OwnItem(b, "hello")
        BY <2>4, <4>1, OwnHello
      <4>3. HasHello(sent[b])
        BY <2>4, <2>13, <4>2 DEF HelloSent
      <4>4. QED
        BY <2>1, <4>3
    <3>3. QED
      BY <3>1, <3>2
  <2>14. QueueType' /\ HelloOrder' /\ LoopsAdvance /\ Queued' \subseteq Queued
    <3>1. QueueType'
      BY <2>1, <2>4, <2>10, <2>11 DEF QueueType
    <3>2. HelloOrder'
      BY <2>1 DEF HelloOrder
    <3>3. LoopsAdvance
      BY <1>000, <2>1, Advances
    <3>4. Queued' \subseteq Queued
      BY <2>1, <2>4 DEF Queued
    <3>5. QED
      BY <3>1, <3>2, <3>3, <3>4
  <2>15. /\ \A b \in Attempt : phys'[b] = "open" => phys[b] = "open"
         /\ socket' \in 0..MaxAttempt
         /\ isReady' => isReady /\ socket' = socket
    BY <1>2, <2>2
  <2>16. QED
    BY <1>0, <2>1, <2>4, <2>12, <2>13, <2>14, <2>15, HelloKept
<1>4. CASE Close
  <2>1. /\ UNCHANGED <<toWrite, waiting, chainInExecution, init, unanswered, sent, scheduledWrite, loop, attempts>>
        /\ DestroySocket(socket, phys) \/ UNCHANGED <<phys, socket, isReady>>
    BY <1>4 DEF Close, SocketDestroy, SocketClose, queueVars, wireVars
  <2>2. QueueShrinks /\ InitsKept
    BY <2>1, QueueSame
  <2>3. LoopsAdvance
    BY <1>000, <2>1, Advances
  <2>4. QED
    BY <1>0, <1>2, <2>1, <2>2, <2>3, HelloShrinks
<1>5. CASE Destroy
  <2>1. /\ FlushAll
        /\ UNCHANGED <<sent, scheduledWrite, loop, attempts>>
        /\ DestroySocket(socket, phys) \/ UNCHANGED <<phys, socket, isReady>>
    BY <1>5 DEF Destroy, SocketDestroy, wireVars
  <2>2. QueueShrinks /\ InitsKept
    BY <2>1, FlushKeeps
  <2>3. LoopsAdvance
    BY <1>000, <2>1, Advances
  <2>4. QED
    BY <1>0, <1>2, <2>1, <2>2, <2>3, HelloShrinks
<1>6. QED
  BY <1>3, <1>4, <1>5 DEF ReplyStep

(* The resubscriptions that an initiator queues. *)
LEMMA Resubscriptions ==
    ASSUME NEW a \in Attempt, NEW s, s = [i \in DOMAIN Resubscribe |-> OwnItem(a, Resubscribe[i])],
           NEW q \in Seq(Item), chainInExecution \in 0..MaxAttempt
    PROVE  InsertAll(q, s) \in Seq(Item) /\ \A x \in Items(InsertAll(q, s)) : x \in Items(q) \/ x.own = a
<1>1. /\ Resubscribe \in Seq({"channels", "patterns"})
      /\ DOMAIN Resubscribe = 1..Len(Resubscribe) /\ Len(Resubscribe) \in Nat
  BY ClientAssumption
<1>2. \A i \in 1..Len(Resubscribe) : s[i] = OwnItem(a, Resubscribe[i])
  BY <1>1
<1>3. \A i \in 1..Len(Resubscribe) : s[i] \in Item
  BY <1>1, <1>2 DEF Item, Name, Items
<1>4. \A i \in 1..Len(Resubscribe) : s[i].own = a
  BY <1>2 DEF OwnItem
<1>5. s \in Seq(Item) /\ Len(s) = Len(Resubscribe)
  BY <1>1, <1>3
<1>6. CASE s = <<>>
  BY <1>6 DEF InsertAll
<1>7. CASE s # <<>>
  <2>1. 1 \in 1..Len(s)
    BY <1>1, <1>5, <1>7
  <2>2. s[1] \in Item /\ s[1].own = a /\ (Len(s) # 1 => s[2] \in Item /\ s[2].own = a)
    BY <1>1, <1>3, <1>4, <1>5, <2>1
  <2> DEFINE one == InsertAtFront(q, s[1])
  <2>3. one \in Seq(Item) /\ Items(one) \subseteq Items(q) \cup {s[1]}
    BY <2>2, Inserted
  <2> HIDE DEF one
  <2>4. Len(s) # 1 => /\ InsertAtFront(one, s[2]) \in Seq(Item)
                      /\ Items(InsertAtFront(one, s[2])) \subseteq Items(one) \cup {s[2]}
    BY <2>2, <2>3, Inserted
  <2>5. InsertAll(q, s) = IF Len(s) = 1 THEN one ELSE InsertAtFront(one, s[2])
    BY <1>7 DEF InsertAll, one
  <2>6. CASE Len(s) = 1
    BY <2>2, <2>3, <2>5, <2>6
  <2>7. CASE Len(s) # 1
    BY <2>2, <2>3, <2>4, <2>5, <2>7
  <2>8. QED
    BY <2>6, <2>7
<1>8. QED
  BY <1>6, <1>7

(* A connection is made: nothing has been written on it, no write is       *)
(* scheduled, and its initiator has only queued the resubscriptions.       *)
LEMMA HelloConnected ==
    ASSUME SocketInv, HelloInv, NEW l \in Loop, ClientCreated(l), "connect" \in emitted'
    PROVE  HelloInv'
<1> USE DEF HelloInv
<1> DEFINE a == loop[l].att
           s == [i \in DOMAIN Resubscribe |-> OwnItem(a, Resubscribe[i])]
<1>0. phys \in [Attempt -> {"none", "connecting", "open", "closed"}]
  BY DEF SocketInv, SocketType
<1>1. ~scheduledWrite /\ Created(l) /\ StartInitiator(a) /\ loop[l].pc = "creating"
  BY DEF ClientCreated, Created
<1>2. a \in Attempt
      /\ \A m \in Loop \ {l} : loop[m].pc = "creating" => loop[m].att \in Attempt /\ loop[m].att # a
  BY <1>1 DEF SocketInv, OneLoop
<1>20. init[a] = "none" /\ a <= attempts
  BY <1>1 DEF InitiatorsFresh, SocketInv, OneLoop
<1> HIDE DEF a
<1>3. CASE Caught(l, socket, Closing(phys, a))
  <2>1. Closing(phys, a) \in [Attempt -> {"none", "connecting", "open", "closed"}]
    BY <1>0, ClosingEffect
  <2>2. QED
    BY <1>3, <2>1, FailedOpensNone
<1>4. CASE /\ phys' = [phys EXCEPT ![a] = "open"] /\ isReady' = isReady /\ attempts' = attempts
           /\ loop' = [loop EXCEPT ![l].pc = "initiating"] /\ ~TornDown(l)
  <2>0. ~isReady /\ \A b \in Attempt : phys[b] # "open"
    <3>1. Live(l)
      BY <1>1, <1>4 DEF Live
    <3>2. QED
      BY <1>1, <3>1 DEF SocketInv, SocketsOwned
  <2>1. /\ init' = [init EXCEPT ![a] = "credentials"]
        /\ unanswered' = [unanswered EXCEPT ![a] = Items(Resubscribe)]
        /\ toWrite' = InsertAll(toWrite, s)
        /\ UNCHANGED <<waiting, chainInExecution, scheduledWrite, sent>>
    BY <1>1 DEF StartInitiator, wireVars
  <2>2. toWrite \in Seq(Item) /\ chainInExecution \in 0..MaxAttempt
    BY DEF QueueType
  <2>3. toWrite' \in Seq(Item) /\ \A x \in Items(toWrite') : x \in Items(toWrite) \/ x.own = a
    <3>1. InsertAll(toWrite, s) \in Seq(Item) /\ \A x \in Items(InsertAll(toWrite, s)) : x \in Items(toWrite) \/ x.own = a
      BY <1>2, <2>2, Resubscriptions
    <3>2. QED
      BY <2>1, <3>1
  <2> HIDE DEF s
  <2>4. /\ init'[a] = "credentials"
        /\ \A b \in Attempt \ {a} : init'[b] = init[b]
        /\ init' \in [Attempt -> InitState]
    BY <1>2, <2>1 DEF QueueType, InitState
  <2>5. QueueType'
    <3>1. unanswered' \in [Attempt -> SUBSET Name]
      BY <2>1 DEF QueueType, Name
    <3>2. QED
      BY <2>1, <2>3, <2>4, <3>1 DEF QueueType
  <2>6. HelloOrder'
    BY <2>1 DEF HelloOrder
  <2>7. \A b \in Attempt : phys'[b] = "open" => b = a
    BY <1>0, <1>2, <1>4, <2>0
  <2>8. OwnItem(a, "hello") \notin Items(waiting)
    <3>1. OwnItem(a, "hello").own = a
      BY DEF OwnItem
    <3>2. QED
      BY <1>2, <1>20, <3>1 DEF InitiatorsFresh, Queued
  <2>9. HelloSent'
    <3>1. ~isReady' /\ ~scheduledWrite'
      BY <1>1, <1>4, <2>0, <2>1
    <3>2. Items(waiting)' = Items(waiting)
      BY <2>1
    <3>3. ASSUME NEW b \in Attempt, phys'[b] = "open"
          PROVE  init'[b] # "sent" /\ OwnItem(b, "hello") \notin Items(waiting)'
      BY <2>4, <2>7, <2>8, <3>2, <3>3
    <3>4. QED
      BY <3>1, <3>3 DEF HelloSent
  <2>10. InitiatorsFresh'
    <3>1. ASSUME NEW m \in Loop, loop'[m].pc = "creating" PROVE init'[loop'[m].att] = "none"
      <4>1. loop'[l] = [loop[l] EXCEPT !.pc = "initiating"] /\ loop[l] \in LoopState
        BY <1>4 DEF SocketInv, SocketType
      <4>2. loop'[l].pc = "initiating"
        BY <4>1 DEF LoopState
      <4>3. m # l => loop'[m] = loop[m]
        BY <1>4 DEF SocketInv, SocketType
      <4>4. m # l /\ loop'[m] = loop[m] /\ loop[m].att \in Attempt \ {a}
        BY <1>2, <3>1, <4>2, <4>3
      <4>5. init[loop[m].att] = "none"
        BY <3>1, <4>4 DEF InitiatorsFresh
      <4>6. QED
        BY <2>4, <4>4, <4>5
    <3>2. ASSUME NEW b \in Attempt, b > attempts' PROVE init'[b] = "none"
      <4>1. b # a
        BY <1>2, <1>20, <1>4, <3>2, SocketAssumption DEF Attempt, SocketInv, SocketType
      <4>2. QED
        BY <1>4, <2>4, <3>2, <4>1 DEF InitiatorsFresh
    <3>3. ASSUME NEW x \in Queued', x.own \in Attempt PROVE init'[x.own] # "none"
      <4>1. x \in Queued \/ x.own = a
        BY <2>1, <2>3, <3>3 DEF Queued
      <4>2. QED
        BY <2>4, <3>3, <4>1 DEF InitiatorsFresh
    <3>4. QED
      BY <3>1, <3>2, <3>3 DEF InitiatorsFresh
  <2>11. QED
    BY <2>5, <2>6, <2>9, <2>10
<1>5. QED
  BY <1>1, <1>3, <1>4 DEF Created, a

(* Every step keeps the handshake first. *)
LEMMA HelloNext ==
    ASSUME AwaitsClose, MaxLength = 0, SocketInv, HelloInv, [ClientNext]_allVars, ~strayed'
    PROVE  HelloInv'
<1>0. socket' \in 0..MaxAttempt /\ attempts' \in Nat
  <2>1. SocketInv'
    BY SocketNext
  <2>2. QED
    BY <2>1, SocketAssumption DEF SocketInv, SocketType
<1>1. ASSUME NEW l \in Loop, Listeners,
             \/ Connect(l)
             \/ /\ ~Strays(l)
                /\ \/ CreateFails(l) \/ Retry(l) \/ InitiatorFails(l) \/ SocketDied(l)
                   \/ Created(l) /\ "connect" \notin emitted'
                   \/ Initiated(l) /\ "ready" \notin emitted'
      PROVE  HelloInv'
  <2>1. /\ \A a \in Attempt : phys'[a] = "open" => phys[a] = "open"
        /\ isReady' => isReady /\ socket' = socket
        /\ "ready" \notin emitted'
    BY <1>1, LoopOpensNone
  <2>2. LoopsAdvance
    BY <1>1, LoopAdvances
  <2>3. QED
    BY <1>0, <1>1, <2>1, <2>2, ListenersKeep
<1>2. ASSUME NEW l \in Loop, ClientInitiated(l), ~Strays(l), "ready" \in emitted' PROVE HelloInv'
  <2>0. /\ Listeners /\ Initiated(l) /\ loop[l].pc = "initiating"
        /\ init[loop[l].att] = "sent" /\ unanswered[loop[l].att] = {}
    BY <1>2 DEF ClientInitiated, Initiated
  <2>1. CASE Failed(l, NoSocket, Closing(phys, socket), "pause")
    <3>1. Closing(phys, socket) \in [Attempt -> {"none", "connecting", "open", "closed"}]
      BY ClosingEffect DEF SocketInv, SocketType
    <3>2. QED
      BY <1>2, <2>1, <3>1, FailedOpensNone
  <2>2. CASE socket # NoSocket /\ phys[socket] = "open" /\ UNCHANGED <<socket, phys>>
    <3>0. Live(l)
      BY <1>2, <2>0 DEF Strays, Live
    <3>1. loop[l].att \in Attempt /\ socket = loop[l].att
      BY <2>0, <2>2, <3>0 DEF SocketInv, OneLoop, SocketsOwned
    <3>2. HasHello(sent[socket])
      BY <2>0, <2>2, <3>1 DEF HelloInv, HelloSent
    <3>3. LoopsAdvance
      BY <2>0, LoopAdvances
    <3>4. QED
      BY <1>0, <2>0, <2>2, <3>2, <3>3, ListenersKeep
  <2>3. QED
    BY <2>0, <2>1, <2>2 DEF Initiated
<1>3. ASSUME NEW l \in Loop, ClientConnect(l) \/ ClientLoopStep(l) PROVE HelloInv'
  <2>0. ClientConnect(l) \/ ~Strays(l)
    BY <1>3 DEF ClientLoopStep
  <2>1. CASE ClientConnect(l)
    BY <1>1, <2>1 DEF ClientConnect
  <2>2. CASE ~Strays(l) /\ CreateFails(l) /\ Listeners
    BY <1>1, <2>2
  <2>3. CASE ~Strays(l) /\ Retry(l) /\ Listeners
    BY <1>1, <2>3
  <2>4. CASE ~Strays(l) /\ ClientCreated(l)
    <3>1. CASE "connect" \in emitted'
      BY <2>4, <3>1, HelloConnected
    <3>2. CASE "connect" \notin emitted'
      BY <1>1, <2>4, <3>2 DEF ClientCreated
    <3>3. QED
      BY <3>1, <3>2
  <2>5. CASE ~Strays(l) /\ ClientInitiated(l)
    <3>1. CASE "ready" \in emitted'
      BY <1>2, <2>5, <3>1
    <3>2. CASE "ready" \notin emitted'
      BY <1>1, <2>5, <3>2 DEF ClientInitiated
    <3>3. QED
      BY <3>1, <3>2
  <2>6. CASE ~Strays(l) /\ (ClientInitiatorFails(l) \/ ClientSocketDied(l))
    BY <1>1, <2>6 DEF ClientInitiatorFails, ClientSocketDied
  <2>7. QED
    BY <1>3, <2>0, <2>1, <2>2, <2>3, <2>4, <2>5, <2>6 DEF ClientLoopStep
<1>4. ASSUME NEW a \in Attempt, Network(a) PROVE HelloInv'
  <2>1. Listeners /\ (SocketErrors(a) \/ SocketEnds(a))
    BY <1>4 DEF Network
  <2>2. /\ \A b \in Attempt : phys'[b] = "open" => phys[b] = "open"
        /\ isReady' => isReady /\ socket' = socket
        /\ "ready" \notin emitted'
    BY <2>1, NetworkOpensNone
  <2>3. LoopsAdvance
    BY <2>1, NetworkAdvances
  <2>4. QED
    BY <1>0, <2>1, <2>2, <2>3, ListenersKeep
<1>5. CASE ScheduledWrite \/ \E a \in Attempt : SendHandshake(a)
  BY <1>5, HelloWritten
<1>6. CASE \/ \E u \in User : SendCommand(u)
           \/ \E a \in Attempt : CredentialsFail(a)
           \/ Drain
           \/ UNCHANGED allVars
  BY <1>6, HelloQueued
<1>7. CASE (\E a \in Attempt : ReplyStep(a)) \/ Close \/ Destroy
  BY <1>7, HelloSettled
<1>8. QED
  BY <1>3, <1>4, <1>5, <1>6, <1>7 DEF ClientNext, ClientProgress, InitiatorStep

(* Nothing is queued or written at first. *)
LEMMA InitHello == ClientInit => HelloInv
<1>1. SUFFICES ASSUME ClientInit PROVE HelloInv
  OBVIOUS
<1>2. QueueType
  <2>1. toWrite \in Seq(Item) /\ waiting \in Seq(Item) /\ \A a \in Attempt : sent[a] \in Seq(Item)
    BY <1>1 DEF ClientInit
  <2>2. chainInExecution \in 0..MaxAttempt
    BY <1>1, SocketAssumption DEF ClientInit, NoSocket
  <2>3. sent \in [Attempt -> Seq(Item)]
    BY <1>1, <2>1 DEF ClientInit
  <2>4. init \in [Attempt -> InitState]
    BY <1>1 DEF ClientInit, InitState
  <2>5. unanswered \in [Attempt -> SUBSET Name]
    BY <1>1 DEF ClientInit
  <2>6. QED
    BY <2>1, <2>2, <2>3, <2>4, <2>5 DEF QueueType
<1>3. HelloSent
  BY <1>1 DEF HelloSent, ClientInit, SocketInit
<1>4. InitiatorsFresh
  <2>1. Queued = {}
    BY <1>1 DEF ClientInit, Queued, Items
  <2>2. \A l \in Loop : loop[l].pc # "creating"
    BY <1>1 DEF ClientInit, SocketInit, Idle
  <2>3. \A a \in Attempt : init[a] = "none"
    BY <1>1 DEF ClientInit
  <2>4. QED
    BY <2>1, <2>2, <2>3 DEF InitiatorsFresh
<1>5. HelloOrder
  BY <1>1 DEF HelloOrder, HelloBefore, ClientInit
<1>6. QED
  BY <1>2, <1>3, <1>4, <1>5 DEF HelloInv

(* No command of a caller is written on a connection before the handshake  *)
(* of an attempt (#handshake, #initiator and #maybeScheduleWrite in        *)
(* client/index.ts), on the first connection and on every later one, and   *)
(* however little of the queue the socket takes at a time: until a loop    *)
(* that was torn down meddles with a later session, for callers that await *)
(* close() before they connect again, and a queue without a limit.  When   *)
(* one of these is not so a command may overtake the handshake.            *)
THEOREM HandshakeComesFirst ==
    ASSUME AwaitsClose, MaxLength = 0
    PROVE  ClientSpec => []HandshakeFirst
<1> DEFINE Inv == strayed \/ (SocketInv /\ HelloInv)
<1>1. Inv => HandshakeFirst
  BY DEF HelloInv, HelloOrder, HelloBefore, HandshakeFirst
<1>2. Inv /\ [ClientNext]_allVars => Inv'
  BY SocketNext, HelloNext, StrayedStays
<1>3. ClientInit => Inv
  BY InitSocket, InitHello
<1> HIDE DEF Inv
<1>4. QED
  BY <1>1, <1>2, <1>3, PTL DEF ClientSpec
=============================================================================
