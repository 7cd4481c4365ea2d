------------------------------- MODULE Socket -------------------------------
(***************************************************************************)
(* The reconnecting socket of a client (RedisSocket in                     *)
(* packages/client/lib/client/socket.ts).                                  *)
(*                                                                         *)
(* A connect loop (#connect) is a coroutine that suspends while a socket   *)
(* is being created, while the initiator runs, and while it waits before a *)
(* retry; everything between two suspensions is one step.  Each iteration  *)
(* of a loop is an attempt and owns one net.Socket, so attempts number the *)
(* sockets too.  The network is the environment.  What the reconnect       *)
(* strategy answers is a choice, and so is whether an 'error' or           *)
(* 'reconnecting' handler calls destroy() before it returns.               *)
(***************************************************************************)
EXTENDS Integers, FiniteSets

CONSTANTS
    Loop,         \* identities of connect loops
    MaxAttempt    \* bound: sockets created in a behaviour

ASSUME SocketAssumption ==
    /\ IsFiniteSet(Loop) /\ Loop # {}
    /\ MaxAttempt \in Nat \ {0}

NoSocket == 0
Attempt == 1..MaxAttempt
VARIABLES
    isOpen,         \* #isOpen
    isReady,        \* #isReady
    socket,         \* #socket: an attempt, or NoSocket
    teardownEpoch,  \* #teardownEpoch
    loop,           \* Loop -> [pc, att, epoch] of a #connect coroutine
    phys,           \* Attempt -> state of its net.Socket
    attempts,       \* attempts made so far
    emitted         \* events emitted in the last step

socketVars == <<isOpen, isReady, socket, teardownEpoch, loop, phys, attempts, emitted>>

Idle == [pc |-> "idle", att |-> NoSocket, epoch |-> 0]

SocketInit ==
    /\ isOpen = FALSE
    /\ isReady = FALSE
    /\ socket = NoSocket
    /\ teardownEpoch = 0
    /\ loop = [l \in Loop |-> Idle]
    /\ phys = [a \in Attempt |-> "none"]
    /\ attempts = 0
    /\ emitted = {}

Running == {l \in Loop : loop[l].pc # "idle"}

(* The client was torn down since the attempt of loop l began. *)
TornDown(l) == loop[l].epoch # teardownEpoch

(* The sockets after socket a, if there is one, is destroyed. *)
Closing(ph, a) == [b \in Attempt |-> IF b = a THEN "closed" ELSE ph[b]]

-----------------------------------------------------------------------------
(* One more iteration of loop l, over the sockets ph: #createSocket.       *)
Iterate(l, ph) ==
    /\ attempts < MaxAttempt
    /\ attempts' = attempts + 1
    /\ phys' = [ph EXCEPT ![attempts + 1] = "connecting"]
    /\ loop' = [loop EXCEPT ![l] =
         [pc |-> "creating", att |-> attempts + 1, epoch |-> teardownEpoch]]

Stop(l) == loop' = [loop EXCEPT ![l] = Idle]

(* destroySocket, when the sockets are ph and #socket is s. *)
DestroySocket(s, ph) ==
    /\ teardownEpoch' = teardownEpoch + 1
    /\ isReady' = FALSE
    /\ phys' = Closing(ph, s)
    /\ socket' = NoSocket

(* #shouldReconnect: the strategy answers false or an Error. *)
GiveUp(s, ph) ==
    /\ isOpen' = FALSE
    /\ emitted' = {"terminated", "error"}
    /\ socket' = s
    /\ phys' = ph
    /\ UNCHANGED <<isReady, teardownEpoch, attempts>>

(* An attempt of loop l has failed, #socket is s and the sockets are ph:   *)
(* the strategy gives up, or an 'error' is emitted and the loop waits, at  *)
(* the place wait of the code, unless the error handler closed the client. *)
Failed(l, s, ph, wait) ==
    \/ Stop(l) /\ GiveUp(s, ph)
    \/ /\ attempts < MaxAttempt
       /\ emitted' = {"error"}
       /\ IF isOpen THEN loop' = [loop EXCEPT ![l].pc = wait] ELSE Stop(l)
       /\ socket' = s
       /\ phys' = ph
       /\ UNCHANGED <<isOpen, isReady, teardownEpoch, attempts>>
    \/ /\ isOpen
       /\ emitted' = {"error", "end"}
       /\ isOpen' = FALSE
       /\ DestroySocket(s, ph)
       /\ Stop(l)
       /\ UNCHANGED attempts

(* The outer catch of #connect: "the shutdown is intentional" when the     *)
(* client was closed meanwhile.                                            *)
Caught(l, s, ph) ==
    IF isOpen
    THEN Failed(l, s, ph, "delay")
    ELSE /\ Stop(l)
         /\ socket' = s
         /\ phys' = ph
         /\ emitted' = {}
         /\ UNCHANGED <<isOpen, isReady, teardownEpoch, attempts>>

-----------------------------------------------------------------------------
(* connect().  A loop that destroy() found asleep, or creating a socket,   *)
(* may still be there.                                                     *)
Connect(l) ==
    /\ ~isOpen
    /\ loop[l] = Idle
    /\ isOpen' = TRUE
    /\ Iterate(l, phys)
    /\ emitted' = {}
    /\ UNCHANGED <<isReady, socket, teardownEpoch>>

(* The new socket could not connect, or the connect timeout destroyed it.  *)
CreateFails(l) ==
    /\ loop[l].pc = "creating"
    /\ Caught(l, socket, Closing(phys, loop[l].att))

(* Mutant: a late socket is dropped only if the client is closed by then.  *)
CreatedIfOpen(l) ==
    LET a == loop[l].att IN
    /\ loop[l].pc = "creating"
    /\ IF ~isOpen
       THEN Caught(l, socket, Closing(phys, a))
       ELSE /\ phys' = [phys EXCEPT ![a] = "open"]
            /\ socket' = a
            /\ loop' = [loop EXCEPT ![l].pc = "initiating"]
            /\ emitted' = {"connect"}
            /\ UNCHANGED <<isOpen, isReady, teardownEpoch, attempts>>

(* The new socket is connected; it is dropped if the attempt was torn down *)
(* while it was pending.                                                   *)
Created(l) ==
    LET a == loop[l].att IN
    /\ loop[l].pc = "creating"
    /\ IF TornDown(l)
       THEN Caught(l, socket, Closing(phys, a))
       ELSE /\ phys' = [phys EXCEPT ![a] = "open"]
            /\ socket' = a
            /\ loop' = [loop EXCEPT ![l].pc = "initiating"]
            /\ emitted' = {"connect"}
            /\ UNCHANGED <<isOpen, isReady, teardownEpoch, attempts>>

(* The initiator has succeeded.  If the socket went away meanwhile the     *)
(* attempt has failed, and waits inside the inner try; otherwise the       *)
(* socket is ready.                                                        *)
Initiated(l) ==
    /\ loop[l].pc = "initiating"
    /\ IF socket = NoSocket \/ phys[socket] # "open"
       THEN Failed(l, NoSocket, Closing(phys, socket), "pause")
       ELSE /\ isReady' = TRUE
            /\ emitted' = {"ready"}
            /\ Stop(l)
            /\ UNCHANGED <<isOpen, socket, teardownEpoch, phys, attempts>>

(* The initiator was rejected: the socket is destroyed. *)
InitiatorFails(l) ==
    /\ loop[l].pc = "initiating"
    /\ Caught(l, NoSocket, Closing(phys, socket))

(* #initiateWhileSocketAlive: the socket died while the initiator ran. *)
SocketDied(l) ==
    /\ loop[l].pc = "initiating"
    /\ phys[loop[l].att] = "closed"
    /\ Caught(l, NoSocket, Closing(phys, socket))

(* The delay before a retry is over.  If the client was closed, the inner  *)
(* catch destroys #socket, whichever it is by now.  A 'reconnecting'       *)
(* handler may close the client, which ends the loop.                      *)
Retry(l) ==
    /\ loop[l].pc \in {"delay", "pause"}
    /\ IF ~isOpen
       THEN /\ Stop(l)
            /\ emitted' = {}
            /\ IF loop[l].pc = "pause"
               THEN socket' = NoSocket /\ phys' = Closing(phys, socket)
               ELSE UNCHANGED <<socket, phys>>
            /\ UNCHANGED <<isOpen, isReady, teardownEpoch, attempts>>
       ELSE \/ /\ emitted' = {"reconnecting"}
               /\ IF isReady THEN Stop(l) /\ UNCHANGED <<phys, attempts>> ELSE Iterate(l, phys)
               /\ UNCHANGED <<isOpen, isReady, socket, teardownEpoch>>
            \/ /\ emitted' = {"reconnecting", "end"}
               /\ isOpen' = FALSE
               /\ DestroySocket(socket, phys)
               /\ Stop(l)
               /\ UNCHANGED attempts

-----------------------------------------------------------------------------
(* #onSocketError, over the sockets ph: #socket is dropped; if it was      *)
(* ready and the client is open, a new loop reconnects.                    *)
OnSocketError(ph) ==
    LET closed == Closing(ph, socket) IN
    /\ isReady' = FALSE
    /\ IF ~isReady \/ ~isOpen
       THEN /\ emitted' = IF isOpen THEN {} ELSE {"error"}
            /\ socket' = NoSocket
            /\ phys' = closed
            /\ UNCHANGED <<isOpen, teardownEpoch, loop, attempts>>
       ELSE \/ /\ isOpen' = FALSE
               /\ emitted' = {"terminated", "error"}
               /\ socket' = NoSocket
               /\ phys' = closed
               /\ UNCHANGED <<teardownEpoch, loop, attempts>>
            \/ /\ emitted' = {"error", "reconnecting"}
               /\ socket' = NoSocket
               /\ \E l \in Loop : loop[l] = Idle /\ Iterate(l, closed)
               /\ UNCHANGED <<isOpen, teardownEpoch>>
            \/ /\ emitted' \in {{"error", "end"}, {"error", "reconnecting", "end"}}
               /\ isOpen' = FALSE
               /\ DestroySocket(NoSocket, closed)
               /\ UNCHANGED <<loop, attempts>>

(* The 'error' event of a connected socket (the socket timeout included). *)
SocketErrors(a) ==
    /\ phys[a] = "open"
    /\ attempts < MaxAttempt
    /\ OnSocketError(Closing(phys, a))

(* The 'close' event of a connected socket that had no error. *)
SocketEnds(a) ==
    /\ phys[a] = "open"
    /\ attempts < MaxAttempt
    /\ IF isOpen /\ socket = a
       THEN OnSocketError(Closing(phys, a))
       ELSE /\ phys' = Closing(phys, a)
            /\ emitted' = {}
            /\ UNCHANGED <<isOpen, isReady, socket, teardownEpoch, loop, attempts>>

-----------------------------------------------------------------------------
(* close(), and the first half of quit(): the socket stays, to drain. *)
SocketClose ==
    /\ isOpen
    /\ isOpen' = FALSE
    /\ emitted' = {}
    /\ UNCHANGED <<isReady, socket, teardownEpoch, loop, phys, attempts>>

(* destroySocket(), once the client has drained. *)
SocketDrained ==
    /\ DestroySocket(socket, phys)
    /\ emitted' = {"end"}
    /\ UNCHANGED <<isOpen, loop, attempts>>

(* destroy() *)
SocketDestroy ==
    /\ isOpen \/ socket # NoSocket
    /\ isOpen' = FALSE
    /\ DestroySocket(socket, phys)
    /\ emitted' = {"end"}
    /\ UNCHANGED <<loop, attempts>>

=============================================================================
