------------------------------- MODULE Client -------------------------------
(***************************************************************************)
(* A client (RedisClient in packages/client/lib/client/index.ts): the      *)
(* socket of module Socket, the queue of module CommandsQueue reduced to   *)
(* single commands, and the handshake and shutdown that tie them together. *)
(*                                                                         *)
(* Every step of the socket is conjoined with what the client's listeners  *)
(* do with the events it emits.  The initiator of an attempt is a          *)
(* coroutine of its own, because it goes on when the attempt it belongs to *)
(* has been abandoned: it queues the resubscriptions, waits for            *)
(* credentials, queues the handshake commands in front, writes, and waits  *)
(* for the replies.  "hello" stands for the handshake commands whose       *)
(* failure fails the attempt (HELLO, AUTH, SELECT...), "setinfo" for those *)
(* whose errors are ignored.                                               *)
(***************************************************************************)
EXTENDS Socket, Sequences

CONSTANTS
    User,                 \* commands of the callers
    MaxLength,            \* commandsQueueMaxLength, 0 when not configured
    DisableOfflineQueue,  \* the disableOfflineQueue option
    Resubscribe,          \* Seq of names: the subscriptions to restore
    HandshakeFits,        \* an initiator's commands fit the write buffer
    CallsClose,           \* the application calls close()
    AwaitsClose           \* and connect() again only once close() is settled

ASSUME ClientAssumption ==
    /\ MaxLength \in Nat
    /\ DisableOfflineQueue \in BOOLEAN
    /\ Resubscribe \in Seq({"channels", "patterns"})
    /\ HandshakeFits \in BOOLEAN
    /\ CallsClose \in BOOLEAN
    /\ AwaitsClose \in BOOLEAN
    /\ User \cap Attempt = {}

Items(s) == {s[i] : i \in DOMAIN s}
Name == {"hello", "setinfo"} \cup Items(Resubscribe)
UserItem(u) == [own |-> u, name |-> "user"]
OwnItem(a, n) == [own |-> a, name |-> n]

VARIABLES
    toWrite,           \* the items to be written, in order
    waiting,           \* the items written and unanswered, in order
    chainInExecution,  \* the attempt whose handshake was written last
    outcome,           \* User -> what became of the promise
    init,              \* Attempt -> state of its initiator
    unanswered,        \* Attempt -> names of the commands it waits for
    scheduledWrite,    \* #scheduledWrite
    needDrain,         \* writableNeedDrain of the current socket
    sent,              \* Attempt -> the items written to its socket
    answered,          \* Attempt -> how many of those have been answered
    closing,           \* the promise of close()
    strayed            \* history: a loop that was torn down changed a later session

queueVars == <<toWrite, waiting, chainInExecution, outcome, init, unanswered>>
wireVars == <<sent, answered>>
clientVars == <<queueVars, wireVars, scheduledWrite, needDrain, closing, strayed>>
allVars == <<socketVars, clientVars>>

ClientInit ==
    /\ SocketInit
    /\ toWrite = <<>>
    /\ waiting = <<>>
    /\ chainInExecution = NoSocket
    /\ outcome = [u \in User |-> "unused"]
    /\ init = [a \in Attempt |-> "none"]
    /\ unanswered = [a \in Attempt |-> {}]
    /\ scheduledWrite = FALSE
    /\ needDrain = FALSE
    /\ sent = [a \in Attempt |-> <<>>]
    /\ answered = [a \in Attempt |-> 0]
    /\ closing = "none"
    /\ strayed = FALSE

HasCapacity(s) == MaxLength = 0 \/ Len(s) + Len(waiting) + 1 <= MaxLength

IsEmpty(tw, w) == tw = <<>> /\ w = <<>>

Writable == socket # NoSocket /\ phys[socket] = "open"

-----------------------------------------------------------------------------
(* One of the promises of an initiator was rejected: that fails it once it *)
(* awaits them, which is after it has its credentials ("doomed" till then).*)
Rejected(state) == IF state \in {"credentials", "doomed"} THEN "doomed" ELSE "failed"

(* The promises of the items in S are rejected. *)
Reject(S) ==
    LET rejected(a) == {n \in Name : OwnItem(a, n) \in S} IN
    /\ outcome' = [u \in User |-> IF UserItem(u) \in S THEN "settled" ELSE outcome[u]]
    /\ init' = [a \in Attempt |->
         IF rejected(a) \ {"setinfo"} # {} THEN Rejected(init[a]) ELSE init[a]]
    /\ unanswered' = [a \in Attempt |-> unanswered[a] \ rejected(a)]

(* How many items at the front of toWrite are the rest of a handshake that *)
(* is partly written.                                                      *)
TailOfChain(k) ==
    /\ \A i \in 1..k : toWrite[i].own = chainInExecution
    /\ k < Len(toWrite) => toWrite[k + 1].own # chainInExecution

FlushWaitingForReply ==
    \E k \in 0..Len(toWrite) :
        /\ TailOfChain(k)
        /\ Reject(Items(waiting) \cup Items(SubSeq(toWrite, 1, k)))
        /\ toWrite' = SubSeq(toWrite, k + 1, Len(toWrite))
        /\ waiting' = <<>>
        /\ chainInExecution' = NoSocket

FlushAll ==
    /\ Reject(Items(waiting) \cup Items(toWrite))
    /\ toWrite' = <<>>
    /\ waiting' = <<>>
    /\ UNCHANGED chainInExecution

(* The listeners of #attachListeners, and close()'s on 'end', on what the  *)
(* socket emitted in this step; a handler that ended the client called     *)
(* destroy(), which rejects everything.                                    *)
Listeners ==
    /\ IF emitted' \cap {"error", "end"} # {}
       THEN IF isOpen' /\ ~DisableOfflineQueue THEN FlushWaitingForReply ELSE FlushAll
       ELSE UNCHANGED queueVars
    /\ scheduledWrite' = (scheduledWrite \/ ("ready" \in emitted' /\ toWrite # <<>>))
    /\ needDrain' = (needDrain /\ socket' = socket)
    /\ closing' = IF "end" \in emitted' /\ closing = "draining" THEN "settled" ELSE closing
    /\ UNCHANGED wireVars

-----------------------------------------------------------------------------
(* #write, of the queue q: as much of it as the socket takes. *)
WriteQueue(q) ==
    IF Writable /\ q # <<>>
    THEN \E k \in 1..Len(q) :
           /\ HandshakeFits => \A i \in (k + 1)..Len(q) : q[i].name = "user"
           /\ toWrite' = SubSeq(q, k + 1, Len(q))
           /\ waiting' = waiting \o SubSeq(q, 1, k)
           /\ sent' = [sent EXCEPT ![socket] = @ \o SubSeq(q, 1, k)]
           /\ chainInExecution' = IF q[k].name = "user" THEN NoSocket ELSE q[k].own
           /\ needDrain' = (k < Len(q))
    ELSE toWrite' = q /\ UNCHANGED <<waiting, sent, chainInExecution, needDrain>>

ScheduledWrite ==
    /\ scheduledWrite
    /\ scheduledWrite' = FALSE
    /\ emitted' = {}
    /\ WriteQueue(toWrite)
    /\ UNCHANGED <<isOpen, isReady, socket, teardownEpoch, loop, phys, attempts,
                   outcome, init, unanswered, answered, closing, strayed>>

(* Mutant: a drain is left to the next command. *)
DrainIgnored ==
    /\ needDrain
    /\ Writable
    /\ needDrain' = FALSE
    /\ emitted' = {}
    /\ UNCHANGED <<isOpen, isReady, socket, teardownEpoch, loop, phys, attempts,
                   queueVars, wireVars, scheduledWrite, closing, strayed>>

(* The 'drain' event of the socket: #maybeScheduleWrite. *)
Drain ==
    /\ needDrain
    /\ Writable
    /\ needDrain' = FALSE
    /\ scheduledWrite' = (scheduledWrite \/ (isReady /\ toWrite # <<>>))
    /\ emitted' = {}
    /\ UNCHANGED <<isOpen, isReady, socket, teardownEpoch, loop, phys, attempts,
                   queueVars, wireVars, closing, strayed>>

(* Mutant: a command is written without waiting for the client to be ready.*)
SendCommandEager(u) ==
    /\ outcome[u] = "unused"
    /\ isOpen
    /\ HasCapacity(toWrite)
    /\ outcome' = [outcome EXCEPT ![u] = "pending"]
    /\ toWrite' = Append(toWrite, UserItem(u))
    /\ scheduledWrite' = TRUE
    /\ emitted' = {}
    /\ UNCHANGED <<isOpen, isReady, socket, teardownEpoch, loop, phys, attempts,
                   waiting, chainInExecution, init, unanswered, needDrain,
                   wireVars, closing, strayed>>

(* sendCommand *)
SendCommand(u) ==
    /\ outcome[u] = "unused"
    /\ IF isOpen /\ (isReady \/ ~DisableOfflineQueue) /\ HasCapacity(toWrite)
       THEN /\ outcome' = [outcome EXCEPT ![u] = "pending"]
            /\ toWrite' = Append(toWrite, UserItem(u))
            /\ scheduledWrite' = (scheduledWrite \/ isReady)
       ELSE /\ outcome' = [outcome EXCEPT ![u] = "settled"]
            /\ UNCHANGED <<toWrite, scheduledWrite>>
    /\ emitted' = {}
    /\ UNCHANGED <<isOpen, isReady, socket, teardownEpoch, loop, phys, attempts,
                   waiting, chainInExecution, init, unanswered, needDrain,
                   wireVars, closing, strayed>>

-----------------------------------------------------------------------------
(* addCommand(..., {asap}) of one handshake command, on the queue q.       *)
InsertAtFront(q, item) ==
    LET inTail(i) == \A j \in 1..i :
                        chainInExecution # NoSocket /\ q[j].own = chainInExecution
        k == CHOOSE i \in 0..Len(q) : inTail(i) /\ (i < Len(q) => ~inTail(i + 1))
    IN  SubSeq(q, 1, k) \o <<item>> \o SubSeq(q, k + 1, Len(q))

(* The initiator of attempt a has its credentials: #handshake queues its   *)
(* commands at the front, last one first, each if the queue has room, and  *)
(* the initiator writes whatever the queue then holds.                     *)
SendHandshake(a) ==
    LET second == HasCapacity(toWrite)
        q1 == IF second THEN InsertAtFront(toWrite, OwnItem(a, "setinfo")) ELSE toWrite
        first == HasCapacity(q1)
        q2 == IF first THEN InsertAtFront(q1, OwnItem(a, "hello")) ELSE q1
    IN  /\ init[a] \in {"credentials", "doomed"}
        /\ init' = [init EXCEPT ![a] =
             IF first /\ init[a] = "credentials" THEN "sent" ELSE "failed"]
        /\ unanswered' = [unanswered EXCEPT ![a] = @ \cup
             (IF first THEN {"hello"} ELSE {}) \cup (IF second THEN {"setinfo"} ELSE {})]
        /\ WriteQueue(q2)
        /\ emitted' = {}
        /\ UNCHANGED <<isOpen, isReady, socket, teardownEpoch, loop, phys, attempts,
                       outcome, scheduledWrite, answered, closing, strayed>>

(* The credentials provider rejects. *)
CredentialsFail(a) ==
    /\ init[a] \in {"credentials", "doomed"}
    /\ attempts < MaxAttempt
    /\ init' = [init EXCEPT ![a] = "failed"]
    /\ emitted' = {}
    /\ UNCHANGED <<isOpen, isReady, socket, teardownEpoch, loop, phys, attempts,
                   toWrite, waiting, chainInExecution, outcome, unanswered,
                   scheduledWrite, needDrain, wireVars, closing, strayed>>

(* A reply, or an error, arrives on socket a and settles the oldest item   *)
(* that is waiting; close() then sees whether everything has drained.      *)
Reply(a, error) ==
    LET item == Head(waiting)
        fatal == error /\ item.name \notin {"setinfo", "user"}
    IN  /\ phys[a] = "open"
        /\ answered[a] < Len(sent[a])
        /\ waiting # <<>>
        /\ fatal => attempts < MaxAttempt
        /\ answered' = [answered EXCEPT ![a] = @ + 1]
        /\ waiting' = Tail(waiting)
        /\ outcome' = [u \in User |-> IF item = UserItem(u) THEN "settled" ELSE outcome[u]]
        /\ unanswered' = [b \in Attempt |->
             IF item.own = b THEN unanswered[b] \ {item.name} ELSE unanswered[b]]
        /\ init' = [b \in Attempt |->
             IF fatal /\ item.own = b THEN Rejected(init[b]) ELSE init[b]]
        /\ IF closing = "draining" /\ IsEmpty(toWrite, Tail(waiting))
           THEN SocketDrained /\ closing' = "settled" /\ needDrain' = FALSE
           ELSE /\ emitted' = {}
                /\ UNCHANGED <<isOpen, isReady, socket, teardownEpoch, loop, phys,
                               attempts, closing, needDrain>>
        /\ UNCHANGED <<toWrite, chainInExecution, scheduledWrite, sent, strayed>>

-----------------------------------------------------------------------------
(* The steps of the socket, with the client's part of each.                *)

ClientConnect(l) ==
    /\ AwaitsClose => closing # "draining"
    /\ Connect(l)
    /\ Listeners
    /\ UNCHANGED strayed

(* The queue with the items of s inserted at its front, one by one. *)
InsertAll(q, s) ==
    IF s = <<>> THEN q
    ELSE LET one == InsertAtFront(q, s[1])
         IN  IF Len(s) = 1 THEN one ELSE InsertAtFront(one, s[2])

(* The initiator of attempt a starts: it queues the resubscriptions, which *)
(* bypass the limit of the queue.                                          *)
StartInitiator(a) ==
    /\ init' = [init EXCEPT ![a] = "credentials"]
    /\ unanswered' = [unanswered EXCEPT ![a] = Items(Resubscribe)]
    /\ toWrite' = InsertAll(toWrite, [i \in DOMAIN Resubscribe |-> OwnItem(a, Resubscribe[i])])
    /\ needDrain' = FALSE
    /\ UNCHANGED <<waiting, chainInExecution, outcome, scheduledWrite, wireVars, closing>>

(* setImmediate runs before the event loop polls for new connections. *)
ClientCreated(l) ==
    /\ ~scheduledWrite
    /\ Created(l)
    /\ IF "connect" \in emitted' THEN StartInitiator(loop[l].att) ELSE Listeners

ClientInitiated(l) ==
    /\ init[loop[l].att] = "sent"
    /\ unanswered[loop[l].att] = {}
    /\ Initiated(l)
    /\ Listeners

ClientInitiatorFails(l) ==
    /\ init[loop[l].att] = "failed"
    /\ InitiatorFails(l)
    /\ Listeners

(* Mutant: the initiator is awaited without watching its socket. *)
ClientSocketDiedUnwatched(l) ==
    /\ init[loop[l].att] = "failed"
    /\ SocketDied(l)
    /\ Listeners

ClientSocketDied(l) == SocketDied(l) /\ Listeners

(* Nothing stops a loop that was torn down when the client is open again:  *)
(* it may give up for the new session, declare it ready, drop its socket,  *)
(* or begin one more attempt beside it.                                    *)
Strays(l) ==
    /\ TornDown(l)
    /\ \/ {"terminated", "ready"} \cap emitted' # {}
       \/ attempts' # attempts
       \/ socket # NoSocket /\ socket' = NoSocket /\ "end" \notin emitted'

ClientLoopStep(l) ==
    /\ \/ CreateFails(l) /\ Listeners
       \/ Retry(l) /\ Listeners
       \/ ClientCreated(l)
       \/ loop[l].pc = "initiating" /\
            (ClientInitiated(l) \/ ClientInitiatorFails(l) \/ ClientSocketDied(l))
    /\ strayed' = (strayed \/ Strays(l))

Network(a) == (SocketErrors(a) \/ SocketEnds(a)) /\ Listeners /\ UNCHANGED strayed

(* close() *)
Close ==
    /\ CallsClose
    /\ closing = "none"
    /\ IF IsEmpty(toWrite, waiting)
       THEN isOpen /\ SocketDestroy /\ closing' = "settled"
       ELSE SocketClose /\ closing' = "draining"
    /\ needDrain' = (needDrain /\ socket' = socket)
    /\ UNCHANGED <<queueVars, wireVars, scheduledWrite, strayed>>

(* destroy() *)
Destroy ==
    /\ isOpen \/ socket # NoSocket \/ toWrite # <<>> \/ waiting # <<>>
    /\ FlushAll
    /\ IF isOpen \/ socket # NoSocket
       THEN SocketDestroy
       ELSE emitted' = {} /\ UNCHANGED <<isOpen, isReady, socket, teardownEpoch,
                                         loop, phys, attempts>>
    /\ closing' = IF "end" \in emitted' /\ closing = "draining" THEN "settled" ELSE closing
    /\ needDrain' = FALSE
    /\ UNCHANGED <<scheduledWrite, wireVars, strayed>>

InitiatorStep(a) == SendHandshake(a) \/ CredentialsFail(a)
ReplyStep(a) == \E error \in BOOLEAN : Reply(a, error)

(* What the program and the server of a live connection do by themselves:  *)
(* timers and immediates fire, promises settle, credentials arrive, and    *)
(* the server reads and answers.                                           *)
ClientProgress ==
    \/ \E l \in Loop : ClientLoopStep(l)
    \/ \E a \in Attempt : InitiatorStep(a) \/ ReplyStep(a)
    \/ ScheduledWrite
    \/ Drain

ClientNext ==
    \/ ClientProgress
    \/ \E l \in Loop : ClientConnect(l)
    \/ \E a \in Attempt : Network(a)
    \/ \E u \in User : SendCommand(u)
    \/ Close
    \/ Destroy

ClientSpec == ClientInit /\ [][ClientNext]_allVars /\ WF_allVars(ClientProgress)

-----------------------------------------------------------------------------
(* Properties.                                                             *)

(* A loop that was torn down leaves the later sessions of the client       *)
(* alone.  The code does not provide it: #connect looks at #isOpen when it *)
(* goes on, not at #teardownEpoch, so after destroy() and connect() the    *)
(* loop of the old session finds the client open.                          *)
NoStrayLoop == ~strayed

(* Until that happens, whatever destroy() and connect() overlap with: the  *)
(* client works towards one connection at a time, a socket it opened is    *)
(* either the current one or not connected any more, and one it is still   *)
(* opening has a loop that will look at it; so a destroy() that races a    *)
(* pending attempt leaves no connection behind.                            *)
NoLeakedSocket ==
    ~strayed =>
        /\ Cardinality({l \in Running : ~TornDown(l)}) <= 1
        /\ \A a \in Attempt : phys[a] = "open" => socket = a
        /\ \A a \in Attempt : phys[a] = "connecting" =>
             \E l \in Loop : loop[l].pc = "creating" /\ loop[l].att = a

(* No command of a caller reaches a connection before the handshake that   *)
(* authenticates it and selects its protocol and database, on the first    *)
(* connection and on every later one.                                      *)
HandshakeFirst ==
    ~strayed =>
        \A a \in Attempt : \A i \in DOMAIN sent[a] :
            sent[a][i].name = "user" => \E j \in 1..(i - 1) : sent[a][j].name = "hello"

(* Every command is settled, provided that the network does not fail       *)
(* forever: it is answered, or rejected when its connection is lost, when  *)
(* the client is destroyed or when reconnection is given up.  A close()    *)
(* that waits is left out: when it loses its connection nothing settles it *)
(* or what it waits for.                                                   *)
CommandsSettle ==
    \A u \in User : outcome[u] = "pending" ~>
        outcome[u] # "pending" \/ closing = "draining" \/ strayed

(* Neither is the connect loop "suspended forever without emitting a       *)
(* terminal event": an open client becomes ready or is closed.             *)
ConnectSettles == isOpen ~> (isReady \/ ~isOpen \/ strayed)

=============================================================================
