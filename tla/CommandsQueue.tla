--------------------------- MODULE CommandsQueue ---------------------------
(***************************************************************************)
(* The command queue of one client (RedisCommandsQueue in                  *)
(* packages/client/lib/client/commands-queue.ts) together with the         *)
(* connection it writes to.                                                *)
(*                                                                         *)
(* A command object is queued in toWrite, moves to waiting when it is      *)
(* written, and leaves waiting when its reply is decoded.  A caller        *)
(* submits a request: one command, a pipeline, a MULTI, or one of those    *)
(* behind an ASKING that is submitted in the same tick.  Each command      *)
(* object is used once, so its options are constants.                      *)
(*                                                                         *)
(* The connection is the environment: wire holds what the server has been  *)
(* sent on the current connection and has not answered, conn numbers the   *)
(* connections, log is the history of what was written where.              *)
(***************************************************************************)
EXTENDS Integers, Sequences, FiniteSets, Filters

CONSTANTS
    Cmd,          \* command objects
    Chain,        \* chain symbols of MULTI, pipeline, ASK and initiator chains
    NoChain,      \* chainId is undefined
    NoLead,       \* a request with no ASKING in front
    Req,          \* requests a caller can submit
    KindOf,       \* Req -> "command", "pipeline", "multi" or "internal"
    LeadOf,       \* Req -> the ASKING submitted in front, or NoLead
    BodyOf,       \* Req -> the sequence of commands of the request
    ChainOf,      \* Cmd -> its chainId
    OptionsOf,    \* Cmd -> which of "timeout", "abort" its options carry
    Asap,         \* commands submitted with the asap option
    WithPrelude,  \* commands that carry a CommandPrelude
    Unencodable,  \* commands encodeCommand throws on
    MaxLength,    \* commandsQueueMaxLength, 0 when it is not configured
    MaxConn       \* bound: how many connections a behaviour uses

Listener == {"timeout", "abort", "relaxed"}
Slot == Cmd \X {"main", "prelude"}
Outcome == {"unused", "pending", "answered", "lost", "closed",
            "cancelled", "refused", "invalid"}

(* The commands of a request, the ASKING in front of it included. *)
BodyCmds(r) == {BodyOf[r][i] : i \in DOMAIN BodyOf[r]}
CmdsOf(r) == BodyCmds(r) \cup ({LeadOf[r]} \ {NoLead})

ASSUME QueueAssumption ==
    /\ NoChain \notin Chain
    /\ NoLead \notin Cmd
    /\ KindOf \in [Req -> {"command", "pipeline", "multi", "internal"}]
    /\ LeadOf \in [Req -> Cmd \cup {NoLead}]
    /\ BodyOf \in [Req -> Seq(Cmd)]
    /\ ChainOf \in [Cmd -> Chain \cup {NoChain}]
    /\ OptionsOf \in [Cmd -> SUBSET {"timeout", "abort"}]
    /\ Asap \subseteq Cmd
    /\ WithPrelude \subseteq Cmd
    /\ Unencodable \subseteq Cmd
    /\ MaxLength \in Nat
    /\ MaxConn \in Nat \ {0}

(* Every command object belongs to one request and has one place in it.  A *)
(* single command is a body of one; a chain is one request's, and every    *)
(* command of a batch, or behind an ASKING, is in its request's chain.     *)
ASSUME RequestAssumption ==
    /\ \A c \in Cmd : \E r \in Req : c \in CmdsOf(r)
    /\ \A r \in Req :
         /\ BodyOf[r] # <<>>
         /\ KindOf[r] \in {"command", "internal"} => Len(BodyOf[r]) = 1
         /\ \A i, j \in DOMAIN BodyOf[r] :
              BodyOf[r][i] = BodyOf[r][j] => i = j
         /\ LeadOf[r] \notin BodyCmds(r)
         /\ KindOf[r] \in {"pipeline", "multi"} \/ LeadOf[r] # NoLead =>
              \E ch \in Chain : \A c \in CmdsOf(r) : ChainOf[c] = ch
         /\ LeadOf[r] # NoLead => KindOf[r] \in {"command", "multi"}
    /\ \A r, s \in Req : r # s =>
         /\ CmdsOf(r) \cap CmdsOf(s) = {}
         /\ \A c \in CmdsOf(r), d \in CmdsOf(s) :
              ChainOf[c] = ChainOf[d] => ChainOf[c] = NoChain
    /\ \A r \in Req : (LeadOf[r] # NoLead \/ KindOf[r] \in {"pipeline", "multi"})
         => CmdsOf(r) \cap (Asap \cup WithPrelude) = {}

VARIABLES
    toWrite,           \* Seq(Cmd): #toWrite
    waiting,           \* Seq(Slot): #waitingForReply
    chainInExecution,  \* chain of the last written command
    maintenance,       \* #maintenanceCommandTimeout is set
    armed,             \* Cmd -> listeners attached to its abort signals
    outcome,           \* Cmd -> what became of its promise
    wire,              \* Seq(Slot): sent on this connection, not answered
    conn,              \* number of the current connection
    log                \* Seq of [cmd, conn]: what was written, in order

queueVars == <<toWrite, waiting, chainInExecution, maintenance, armed, outcome>>
wireVars == <<wire, conn, log>>
vars == <<toWrite, waiting, chainInExecution, maintenance, armed, outcome,
          wire, conn, log>>

TypeOK ==
    /\ toWrite \in Seq(Cmd)
    /\ waiting \in Seq(Slot)
    /\ chainInExecution \in Chain \cup {NoChain}
    /\ maintenance \in BOOLEAN
    /\ armed \in [Cmd -> SUBSET Listener]
    /\ outcome \in [Cmd -> Outcome]
    /\ wire \in Seq(Slot)
    /\ conn \in 1..MaxConn
    /\ log \in Seq([cmd : Cmd, conn : 1..MaxConn])

Init ==
    /\ toWrite = <<>>
    /\ waiting = <<>>
    /\ chainInExecution = NoChain
    /\ maintenance = FALSE
    /\ armed = [c \in Cmd |-> {}]
    /\ outcome = [c \in Cmd |-> "unused"]
    /\ wire = <<>>
    /\ conn = 1
    /\ log = <<>>

-----------------------------------------------------------------------------
Elements(s) == {s[i] : i \in DOMAIN s}
InFlight == {c \in Cmd : <<c, "main">> \in Elements(waiting)}
Sent == {log[i].cmd : i \in DOMAIN log}

(* Settle every command of S with the same outcome. *)
Settle(S, what) == outcome' = [c \in Cmd |-> IF c \in S THEN what ELSE outcome[c]]

Batches == {r \in Req : KindOf[r] \in {"pipeline", "multi"}}
IsHead(c) == \E r \in Batches : BodyOf[r][1] = c
IsMember(c) == \E r \in Batches : c \in BodyCmds(r) /\ BodyOf[r][1] # c

(* hasCapacity(size) when n commands are already pending. *)
HasCapacity(n, size) == MaxLength = 0 \/ n + size <= MaxLength

PendingCount == Len(toWrite) + Len(waiting)
SizeOf(c) == IF c \in WithPrelude THEN 2 ELSE 1

(* Mutant: any queued batch may be cancelled. *)
IsBatchStartedNever(c) == c # c

(* #isBatchStarted: a command of the head's chain was the last one written. *)
IsBatchStarted(c) ==
    /\ IsHead(c)
    /\ ChainOf[c] # NoChain
    /\ ChainOf[c] = chainInExecution

(* Mutant: the chain in execution is not looked at. *)
TailOfChainIgnored(k) == k = 0

(* The length k of the unwritten tail, at the front of toWrite, of the     *)
(* chain that is partly on the wire.                                       *)
TailOfChain(k) ==
    IF chainInExecution = NoChain
    THEN k = 0
    ELSE /\ \A i \in 1..k : ChainOf[toWrite[i]] = chainInExecution
         /\ k < Len(toWrite) => ChainOf[toWrite[k + 1]] # chainInExecution

(* #arm: the timeout is the maintenance one whenever that is set. *)
ArmedOf(c) ==
    (OptionsOf[c] \cap {"abort"}) \cup
    (IF maintenance THEN {"relaxed"} ELSE OptionsOf[c] \cap {"timeout"})

-----------------------------------------------------------------------------
(* addCommand, addBatch and the admission check of _executeMulti.          *)

Unused(r) == \A c \in CmdsOf(r) : outcome[c] = "unused"

(* The part of the ASKING in front of r that is admitted. *)
AdmittedLead(r) ==
    IF LeadOf[r] # NoLead /\ HasCapacity(PendingCount, 1)
    THEN <<LeadOf[r]>> ELSE <<>>

(* Mutant: a MULTI is admitted command by command. *)
AdmittedLenPartial(r, n) ==
    IF n + Len(BodyOf[r]) <= MaxLength THEN Len(BodyOf[r])
    ELSE IF n < MaxLength THEN MaxLength - n ELSE 0

(* How many commands of r's body are admitted when n are pending: all or   *)
(* none of a command and of a MULTI, command by command for a pipeline.    *)
AdmittedLen(r, n) ==
    LET len == Len(BodyOf[r])
        free == IF n < MaxLength THEN MaxLength - n ELSE 0
    IN  CASE KindOf[r] = "command"  ->
                IF HasCapacity(n, SizeOf(BodyOf[r][1])) THEN 1 ELSE 0
          [] KindOf[r] = "multi"    -> IF HasCapacity(n, len) THEN len ELSE 0
          [] KindOf[r] = "pipeline" ->
                IF MaxLength = 0 \/ len <= free THEN len ELSE free
          [] OTHER                  -> len

(* The caller submits r, every part in one tick, behind what is queued.    *)
AddRequest(r) ==
    LET lead == AdmittedLead(r)
        body == SubSeq(BodyOf[r], 1, AdmittedLen(r, PendingCount + Len(lead)))
        armedNow == Elements(lead) \cup
                    (IF body = <<>> \/ KindOf[r] = "internal" THEN {} ELSE {body[1]})
        admitted == Elements(lead) \cup Elements(body)
    IN  /\ Unused(r)
        /\ CmdsOf(r) \cap Asap = {}
        /\ toWrite' = toWrite \o lead \o body
        /\ armed' = [c \in Cmd |-> IF c \in armedNow THEN ArmedOf(c) ELSE armed[c]]
        /\ outcome' = [c \in Cmd |-> IF c \in admitted THEN "pending"
                                     ELSE IF c \in CmdsOf(r) THEN "refused"
                                     ELSE outcome[c]]
        /\ UNCHANGED <<waiting, chainInExecution, maintenance, wireVars>>

(* A single command with the asap option: #insertAtFront. *)
AddAsap(r) ==
    LET c == BodyOf[r][1] IN
    /\ Unused(r)
    /\ c \in Asap
    /\ IF KindOf[r] = "internal" \/ HasCapacity(PendingCount, SizeOf(c))
       THEN /\ \E k \in 0..Len(toWrite) :
                 /\ TailOfChain(k)
                 /\ toWrite' = SubSeq(toWrite, 1, k) \o <<c>> \o
                               SubSeq(toWrite, k + 1, Len(toWrite))
            /\ armed' = [armed EXCEPT ![c] =
                           IF KindOf[r] = "internal" THEN {} ELSE ArmedOf(c)]
            /\ Settle({c}, "pending")
       ELSE Settle({c}, "refused") /\ UNCHANGED <<toWrite, armed>>
    /\ UNCHANGED <<waiting, chainInExecution, maintenance, wireVars>>

(* The signal is aborted already when the request arrives, or its timeout  *)
(* is not a valid one: of the request only the ASKING in front is queued.  *)
AddAborted(r) ==
    LET lead == AdmittedLead(r) IN
    /\ Unused(r)
    /\ OptionsOf[BodyOf[r][1]] # {}
    /\ KindOf[r] # "internal"
    /\ toWrite' = toWrite \o lead
    /\ armed' = [c \in Cmd |-> IF c \in Elements(lead) THEN ArmedOf(c) ELSE armed[c]]
    /\ outcome' = [c \in Cmd |-> IF c \in Elements(lead) THEN "pending"
                                 ELSE IF c \in CmdsOf(r) THEN "refused"
                                 ELSE outcome[c]]
    /\ UNCHANGED <<waiting, chainInExecution, maintenance, wireVars>>

-----------------------------------------------------------------------------
(* #rejectCommand on the command at position i: a head takes with it the   *)
(* members queued right behind it, up to position j.                       *)
BatchRun(i, j) ==
    LET inRun(m) == /\ IsMember(toWrite[m])
                    /\ ChainOf[toWrite[m]] = ChainOf[toWrite[i]]
    IN  IF IsHead(toWrite[i])
        THEN /\ \A m \in (i + 1)..j : inRun(m)
             /\ j < Len(toWrite) => ~inRun(j + 1)
        ELSE j = i

(* Mutant: the members of a batch are rejected but stay queued. *)
RejectCommandKeepMembers(i) ==
    \E j \in i..Len(toWrite) :
        /\ BatchRun(i, j)
        /\ toWrite' = SubSeq(toWrite, 1, i - 1) \o SubSeq(toWrite, i + 1, Len(toWrite))
        /\ Settle(Elements(SubSeq(toWrite, i, j)), "cancelled")

RejectCommand(i) ==
    \E j \in i..Len(toWrite) :
        /\ BatchRun(i, j)
        /\ toWrite' = SubSeq(toWrite, 1, i - 1) \o SubSeq(toWrite, j + 1, Len(toWrite))
        /\ Settle(Elements(SubSeq(toWrite, i, j)), "cancelled")

(* A timeout or abort signal fires.  The listener of a batch whose chain   *)
(* is already partly written does nothing; the listener that outlives its  *)
(* command (it could not be encoded) finds its node unlinked.              *)
FireListener(c, l) ==
    /\ l \in armed[c]
    /\ IF IsBatchStarted(c)
       THEN /\ armed' = [armed EXCEPT ![c] = @ \ {l}]
            /\ UNCHANGED <<toWrite, outcome>>
       ELSE /\ armed' = [armed EXCEPT ![c] = {}]
            /\ IF c \in Elements(toWrite)
               THEN \E i \in DOMAIN toWrite : toWrite[i] = c /\ RejectCommand(i)
               ELSE UNCHANGED <<toWrite, outcome>>
    /\ UNCHANGED <<waiting, chainInExecution, maintenance, wireVars>>

(* setMaintenanceCommandTimeout(ms): every queued command except the       *)
(* members of a batch and the head of a started one gets the relaxed timer.*)
StartMaintenance ==
    /\ ~maintenance
    /\ maintenance' = TRUE
    /\ armed' = [c \in Cmd |->
         IF c \in Elements(toWrite) /\ ~IsMember(c) /\ ~IsBatchStarted(c)
         THEN (armed[c] \ {"timeout"}) \cup {"relaxed"}
         ELSE armed[c]]
    /\ UNCHANGED <<toWrite, waiting, chainInExecution, outcome, wireVars>>

(* setMaintenanceCommandTimeout(undefined): queued commands keep theirs. *)
EndMaintenance ==
    /\ maintenance
    /\ maintenance' = FALSE
    /\ UNCHANGED <<toWrite, waiting, chainInExecution, armed, outcome, wireVars>>

-----------------------------------------------------------------------------
(* commandsToWrite as RedisSocket.write drives it.  The loop may stop at   *)
(* any command (writableNeedDrain) and is resumed on drain, so each        *)
(* command is a step.                                                      *)
SlotsOf(c) ==
    IF c \in WithPrelude THEN << <<c, "prelude">>, <<c, "main">> >>
                         ELSE << <<c, "main">> >>

Write ==
    /\ toWrite # <<>>
    /\ LET c == Head(toWrite) IN
       /\ c \notin Unencodable
       /\ toWrite' = Tail(toWrite)
       /\ waiting' = waiting \o SlotsOf(c)
       /\ wire' = wire \o SlotsOf(c)
       /\ log' = Append(log, [cmd |-> c, conn |-> conn])
       /\ chainInExecution' = ChainOf[c]
       /\ armed' = [armed EXCEPT ![c] = {}]
    /\ UNCHANGED <<maintenance, outcome, conn>>

(* encodeCommand throws: the command is rejected and skipped, its          *)
(* listeners stay attached and the chain in execution does not change.     *)
WriteUnencodable ==
    /\ toWrite # <<>>
    /\ Head(toWrite) \in Unencodable
    /\ toWrite' = Tail(toWrite)
    /\ Settle({Head(toWrite)}, "invalid")
    /\ UNCHANGED <<waiting, chainInExecution, maintenance, armed, wireVars>>

-----------------------------------------------------------------------------
(* The server answers its oldest unanswered command; #onReply resolves, or *)
(* #onErrorReply rejects, the oldest entry of #waitingForReply.            *)
Reply ==
    /\ wire # <<>>
    /\ waiting # <<>>
    /\ wire' = Tail(wire)
    /\ waiting' = Tail(waiting)
    /\ LET s == Head(waiting) IN
       IF s[2] = "main" THEN Settle({s[1]}, "answered") ELSE UNCHANGED outcome
    /\ UNCHANGED <<toWrite, chainInExecution, maintenance, armed, conn, log>>

(* Mutant: the oldest command in flight is queued again. *)
FlushWaitingForReplyRetry ==
    /\ toWrite' = IF waiting = <<>> THEN toWrite ELSE <<Head(waiting)[1]>> \o toWrite
    /\ waiting' = <<>>
    /\ chainInExecution' = NoChain
    /\ UNCHANGED <<armed, outcome>>

(* The connection is lost and the client will reconnect:                   *)
(* flushWaitingForReply rejects what is in flight and the unwritten tail   *)
(* of the chain that was being written; the rest stays queued.             *)
FlushWaitingForReply ==
    \E k \in 0..Len(toWrite) :
        /\ TailOfChain(k)
        /\ Settle(InFlight \cup Elements(SubSeq(toWrite, 1, k)), "lost")
        /\ armed' = [c \in Cmd |->
             IF c \in Elements(SubSeq(toWrite, 1, k)) THEN {} ELSE armed[c]]
        /\ toWrite' = SubSeq(toWrite, k + 1, Len(toWrite))
        /\ waiting' = <<>>
        /\ chainInExecution' = NoChain

(* Mutant: the entries waiting for a reply are rejected but not removed. *)
FlushAllKeepWaiting ==
    /\ Settle(InFlight \cup Elements(toWrite), "closed")
    /\ armed' = [c \in Cmd |-> IF c \in Elements(toWrite) THEN {} ELSE armed[c]]
    /\ toWrite' = <<>>
    /\ UNCHANGED <<waiting, chainInExecution>>

(* flushAll: everything is rejected; chainInExecution is left as it is. *)
FlushAll ==
    /\ Settle(InFlight \cup Elements(toWrite), "closed")
    /\ armed' = [c \in Cmd |-> IF c \in Elements(toWrite) THEN {} ELSE armed[c]]
    /\ toWrite' = <<>>
    /\ waiting' = <<>>
    /\ UNCHANGED chainInExecution

(* What the old connection had not answered is never answered. *)
NextConnection ==
    /\ conn < MaxConn
    /\ conn' = conn + 1
    /\ wire' = <<>>
    /\ UNCHANGED log

ConnectionLost == FlushWaitingForReply /\ NextConnection /\ UNCHANGED maintenance
ConnectionClosed == FlushAll /\ NextConnection /\ UNCHANGED maintenance

Next ==
    \/ \E r \in Req : AddRequest(r) \/ AddAsap(r) \/ AddAborted(r)
    \/ \E c \in Cmd, l \in Listener : FireListener(c, l)
    \/ StartMaintenance
    \/ EndMaintenance
    \/ Write
    \/ WriteUnencodable
    \/ Reply
    \/ ConnectionLost
    \/ ConnectionClosed

Spec == Init /\ [][Next]_vars

-----------------------------------------------------------------------------
(* Properties.                                                             *)

(* The reply the server sends next answers the command that the queue will *)
(* settle with it: cancelled commands, preludes and flushes never put      *)
(* #waitingForReply out of step with the connection.                       *)
ReplyMatching == waiting = wire

(* A command whose promise is not settled is in exactly one place, in      *)
(* toWrite or in waiting, and a settled one is in neither: no promise is   *)
(* left hanging, none is settled and then sent.                            *)
NoCommandLost ==
    /\ {c \in Cmd : outcome[c] = "pending"} = Elements(toWrite) \cup InFlight
    /\ Elements(toWrite) \cap InFlight = {}
    /\ \A i, j \in DOMAIN toWrite : toWrite[i] = toWrite[j] => i = j
    /\ \A i, j \in DOMAIN waiting : waiting[i] = waiting[j] => i = j

(* No command is written twice: after a lost connection what was sent is   *)
(* rejected, not resent, "as [it] might have been executed on the server". *)
AtMostOnce == \A i, j \in DOMAIN log : log[i].cmd = log[j].cmd => i = j

(* "A MULTI is never split by a command that is not part of it": the       *)
(* commands of a chain are contiguous in what is written, and the tail of  *)
(* one whose head is already sent never follows on another connection.     *)
ChainWhole ==
    \A i, k \in DOMAIN log :
        ChainOf[log[i].cmd] # NoChain /\ ChainOf[log[i].cmd] = ChainOf[log[k].cmd] =>
            /\ log[i].conn = log[k].conn
            /\ \A j \in i..k : ChainOf[log[j].cmd] = ChainOf[log[i].cmd]

(* A transaction whose MULTI is sent is sent to its EXEC, unless the       *)
(* connection goes: the queue limit, a timeout or an abort never leaves    *)
(* "the connection in MULTI".                                              *)
MultiNotStranded ==
    \A r \in Req : KindOf[r] = "multi" /\ BodyOf[r][1] \in Sent =>
        \A c \in BodyCmds(r) \ Unencodable :
            outcome[c] \in {"pending", "answered", "lost", "closed"}

(* The queue keeps the promises of module Delivery: the entries of         *)
(* #waitingForReply that are a caller's, in order, are what is unanswered. *)
MainSlots == Filter(waiting, Cmd \X {"main"})

Callers == INSTANCE Delivery WITH
    sent <- Sent,
    flight <- [i \in DOMAIN MainSlots |-> MainSlots[i][1]]

ImplementsDelivery == Callers!Spec

=============================================================================
