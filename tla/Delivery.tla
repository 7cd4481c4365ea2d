------------------------------ MODULE Delivery ------------------------------
(***************************************************************************)
(* What the commands queue promises its callers, without a queue: which    *)
(* commands have reached the server, which of them are unanswered, and     *)
(* what became of every promise.  CommandsQueue implements this module.    *)
(*                                                                         *)
(* Nothing is said of the order in which pending commands are sent, of     *)
(* limits or of timers: a command may be refused when it is submitted, and *)
(* any that was not sent may be cancelled.  What is said is that a batch   *)
(* is cancelled whole and only while nothing of it was sent, that replies  *)
(* settle commands in the order they were sent, and exactly which promises *)
(* a lost connection takes with it.                                        *)
(***************************************************************************)
EXTENDS Naturals, Sequences

CONSTANTS
    Cmd,
    Req,
    BodyOf,         \* Req -> Seq(Cmd)
    LeadOf,         \* Req -> the ASKING in front of it, or NoLead
    ChainOf,        \* Cmd -> the transaction or pipeline it is part of, or NoChain
    NoLead,
    NoChain

VARIABLES
    outcome,        \* Cmd -> what became of its promise
    sent,           \* the commands that were ever sent
    flight          \* Seq(Cmd): sent on this connection, and not answered

vars == <<outcome, sent, flight>>

Body(r) == {BodyOf[r][i] : i \in DOMAIN BodyOf[r]}
All(r) == Body(r) \cup (IF LeadOf[r] = NoLead THEN {} ELSE {LeadOf[r]})

Pending == {c \in Cmd : outcome[c] = "pending"}
Settle(S, what) == outcome' = [c \in Cmd |-> IF c \in S THEN what ELSE outcome[c]]

Init ==
    /\ outcome = [c \in Cmd |-> "unused"]
    /\ sent = {}
    /\ flight = <<>>

(* Of a request any part may be refused. *)
Submit(r) ==
    /\ \A c \in All(r) : outcome[c] = "unused"
    /\ \E S \in SUBSET All(r) :
        outcome' = [c \in Cmd |-> IF c \in S THEN "pending"
                                  ELSE IF c \in All(r) THEN "refused" ELSE outcome[c]]
    /\ UNCHANGED <<sent, flight>>

Send(c) ==
    /\ c \in Pending \ sent
    /\ sent' = sent \cup {c}
    /\ flight' = Append(flight, c)
    /\ UNCHANGED outcome

(* The oldest command on the connection is answered, no other. *)
Answer ==
    /\ flight # <<>>
    /\ flight' = Tail(flight)
    /\ Settle({Head(flight)}, "answered")
    /\ UNCHANGED sent

(* A request goes as a whole, while nothing of it is on its way.  A batch  *)
(* does not go once its ASKING is; a single command may, and an ASKING is  *)
(* cancelled by itself.                                                    *)
Cancel(r) ==
    /\ \/ /\ Body(r) \cap sent = {}
          /\ Len(BodyOf[r]) > 1 => LeadOf[r] \notin sent
          /\ Settle(Body(r) \cap Pending, "cancelled")
       \/ LeadOf[r] \in Pending \ sent /\ Settle({LeadOf[r]}, "cancelled")
    /\ UNCHANGED <<sent, flight>>

(* A command that cannot be encoded is never sent. *)
Skip(c) ==
    /\ c \in Pending \ sent
    /\ Settle({c}, "invalid")
    /\ UNCHANGED <<sent, flight>>

(* The rest of a transaction of which something was sent. *)
Remainder ==
    {c \in Pending \ sent :
        ChainOf[c] # NoChain /\ \E d \in sent : ChainOf[d] = ChainOf[c]}

(* The connection is lost: what is unanswered is lost with it, and what    *)
(* would complete a transaction on another connection; all else waits.     *)
Lose ==
    /\ Settle({flight[i] : i \in DOMAIN flight} \cup Remainder, "lost")
    /\ flight' = <<>>
    /\ UNCHANGED sent

(* The client is closed. *)
Close ==
    /\ Settle(Pending, "closed")
    /\ flight' = <<>>
    /\ UNCHANGED sent

Next ==
    \/ \E r \in Req : Submit(r) \/ Cancel(r)
    \/ \E c \in Cmd : Send(c) \/ Skip(c)
    \/ Answer \/ Lose \/ Close

Spec == Init /\ [][Next]_vars
=============================================================================
