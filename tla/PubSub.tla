------------------------------- MODULE PubSub -------------------------------
(***************************************************************************)
(* Pub/sub on one connection: the registry of listeners (client/pub-sub.ts)*)
(* and the part of the queue that carries its commands and tells their     *)
(* replies, pushed messages and plain replies apart (client/               *)
(* commands-queue.ts).                                                     *)
(*                                                                         *)
(* c is the client, its methods are operators on that record; srv is the   *)
(* server's side of the connection, which is at most one reply per channel *)
(* behind what has been written.  Sharded channels, RESET and MONITOR are  *)
(* left out.                                                               *)
(***************************************************************************)
EXTENDS Integers, Sequences, FiniteSets, SequencesExt

CONSTANTS
    Channel,        \* channels and patterns
    TypeOf,         \* TypeOf[ch]: "CHANNELS" or "PATTERNS"
    Listener,
    Scenario,       \* how often each external event happens
    None

Type == {"CHANNELS", "PATTERNS"}

ASSUME PubSubAssumption == TypeOf \in [Channel -> Type] /\ None \notin Listener

VARIABLES
    c,          \* the client
    srv,        \* the server: what is subscribed, and the replies on the wire
    left        \* what is left of the scenario's events

vars == <<c, srv, left>>

Spend(event) ==
    /\ event \in DOMAIN left
    /\ left[event] > 0
    /\ left' = [left EXCEPT ![event] = @ - 1]

-----------------------------------------------------------------------------
(* The registry. *)

Gone == [there |-> FALSE, leaving |-> FALSE, set |-> {}]

Keys(reg, t) == {ch \in Channel : TypeOf[ch] = t /\ reg[ch].there}
AllKeys(reg) == {ch \in Channel : reg[ch].there}

UpdateIsActive(s) == [s EXCEPT !.active = AllKeys(s.reg) # {} \/ s.subscribing # 0]

Add(reg, chs, l) ==
    [ch \in Channel |->
        IF ch \notin chs THEN reg[ch]
        ELSE IF reg[ch].there THEN [reg[ch] EXCEPT !.set = @ \cup {l}]
        ELSE [there |-> TRUE, leaving |-> FALSE, set |-> {l}]]

(* removeListeners, one for each form of unsubscribe. *)
RemoveListeners(reg, o) ==
    [ch \in Channel |->
        IF ch \notin o.all THEN reg[ch]
        ELSE IF o.l = None \/ reg[ch].set \ {o.l} = {} THEN Gone
        ELSE [reg[ch] EXCEPT !.set = @ \ {o.l}]]

(* An operation of the log, applied to a snapshot. *)
ApplyTo(reg, o) == IF o.kind = "sub" THEN Add(reg, o.all, o.l) ELSE RemoveListeners(reg, o)

Blank == [kind |-> "ping", type |-> "CHANNELS", chs |-> {}, all |-> {}, l |-> None,
          count |-> 0, flagged |-> {}, carried |-> FALSE, st |-> "queued"]

(* An operation is recorded in the history, and its command queued. *)
Log(s, o) == [s EXCEPT !.op = Append(@, o)]

Queued(s, o) ==
    LET id == Len(s.op) + 1
    IN  [Log(s, o) EXCEPT
            !.queue = Append(@, id),
            !.pending = IF o.kind \in {"sub", "unsub", "unsubAll"} THEN Append(@, id) ELSE @]

(* #setupPubSubHandler, #resetDecoderCallbacks: RESP2 tells a pushed       *)
(* message from a reply only while the handler is installed.               *)
Handler(s) == [s EXCEPT !.mode = IF s.resp = 2 THEN "pubsub" ELSE @]

(* Mutant: every unsubscribe and every rejection takes the handler away. *)
RestoreAlways(s) == [s EXCEPT !.mode = "plain"]

RestoreDecoder(s) == [s EXCEPT !.mode = IF s.resp = 2 /\ ~s.active THEN "plain" ELSE @]

-----------------------------------------------------------------------------
(* How a command settles. *)

Forget(s, id) == [s EXCEPT !.pending = SelectSeq(@, LAMBDA i : i # id)]

(* Entries another unsubscribe in flight deletes stay flagged. *)
StillLeaving(s, ch) == \E i \in Range(s.pending) : ch \in s.op[i].flagged

(* An entry that went away takes the flags on it along. *)
Unflag(s) ==
    [s EXCEPT !.op = [i \in DOMAIN @ |-> [@[i] EXCEPT !.flagged = {ch \in @ : s.reg[ch].there}]]]

Subscribed(s, id) ==
    LET o == s.op[id]
        t == [Forget(s, id) EXCEPT !.subscribing = @ - 1]
    IN  IF o.carried THEN UpdateIsActive(t) ELSE [t EXCEPT !.reg = Add(s.reg, o.chs, o.l)]

Unsubscribed(s, id) ==
    LET o == s.op[id]
        t == Forget(s, id)
    IN  RestoreDecoder(UpdateIsActive(
            IF o.carried THEN t ELSE Unflag([t EXCEPT !.reg = RemoveListeners(s.reg, o)])))

Resubscribed(s) == [s EXCEPT !.subscribing = IF @ > 0 THEN @ - 1 ELSE @]

Resolve(s, id) ==
    LET kind == s.op[id].kind
        t == [s EXCEPT !.op[id].st = "ok"]
    IN  CASE kind = "sub" -> Subscribed(t, id)
          [] kind \in {"unsub", "unsubAll"} -> Unsubscribed(t, id)
          [] kind = "resub" -> Resubscribed(t)
          [] kind = "adopt" -> [t EXCEPT !.subscribing = @ - 1]
          [] OTHER -> t

(* The channels stay, so the flags are lifted. *)
UnsubscribeFailed(s, id) ==
    LET o == s.op[id]
        t == Forget(s, id)
    IN  UpdateIsActive(
            IF o.carried THEN t
            ELSE [t EXCEPT !.reg = [ch \in Channel |->
                    IF ch \in o.flagged /\ ~StillLeaving(t, ch)
                    THEN [@[ch] EXCEPT !.leaving = FALSE] ELSE @[ch]]])

(* A move made a success of what it carried. *)
Reject(s, id) ==
    LET o == s.op[id]
        t == [s EXCEPT !.op[id].st = IF o.carried THEN "ok" ELSE "failed"]
    IN  RestoreDecoder(
            CASE o.kind \in {"sub", "adopt"} ->
                    UpdateIsActive([Forget(t, id) EXCEPT !.subscribing = @ - 1])
              [] o.kind \in {"unsub", "unsubAll"} -> UnsubscribeFailed(t, id)
              [] o.kind = "resub" -> Resubscribed(t)
              [] OTHER -> t)

-----------------------------------------------------------------------------
(* Calls. *)

(* Mutant: an entry that is about to go away is joined. *)
JoinedAnyway(s, ch) == s.reg[ch].there

Joined(s, ch) == s.reg[ch].there /\ ~s.reg[ch].leaving

Subscribe(chs, l) ==
    LET new == {ch \in chs : ~Joined(c, ch)}
        s == [c EXCEPT !.reg = Add(c.reg, chs \ new, l)]
        o == [Blank EXCEPT !.kind = "sub", !.chs = new, !.all = chs, !.l = l, !.count = Cardinality(new)]
    IN  /\ ~c.moved
        /\ Spend("subscribe")
        /\ chs # {} /\ \A x, y \in chs : TypeOf[x] = TypeOf[y]
        /\ c' = IF new = {} THEN Log(s, [o EXCEPT !.st = "ok"])
                ELSE Handler(Queued([s EXCEPT !.active = TRUE, !.subscribing = @ + 1], o))
        /\ UNCHANGED srv

Leaving(s, chs) == [s EXCEPT !.reg = [ch \in Channel |->
                        IF ch \in chs THEN [@[ch] EXCEPT !.leaving = TRUE] ELSE @[ch]]]

(* A caller that is not hasty unsubscribes what is subscribed: it waited   *)
(* for its subscribe() to resolve.                                         *)
Patient(chs) ==
    \/ "hasty" \in DOMAIN left
    \/ /\ \A ch \in chs : c.reg[ch].there
       /\ \A i \in Range(c.pending) : c.op[i].kind = "sub" => c.op[i].all \cap chs = {}

(* One or several channels, of all their listeners or of one. *)
Unsubscribe(chs, l) ==
    LET others(ch) == l # None /\ c.reg[ch].there /\ c.reg[ch].set \ {l} # {}
        out == {ch \in chs : ~others(ch)}
        flagged == {ch \in out : c.reg[ch].there}
        o == [Blank EXCEPT !.kind = "unsub", !.chs = out, !.all = chs, !.l = l,
                           !.count = Cardinality(out), !.flagged = flagged]
    IN  /\ ~c.moved
        /\ IF l = None THEN Spend("unsubscribe") ELSE Spend("unlisten")
        /\ chs # {} /\ \A x, y \in chs : TypeOf[x] = TypeOf[y]
        /\ Patient(chs)
        /\ c' = IF out = {}
                THEN Log([c EXCEPT !.reg = RemoveListeners(c.reg, o)], [o EXCEPT !.st = "ok"])
                ELSE Queued(Leaving(c, flagged), o)
        /\ UNCHANGED srv

(* Everything of a type; how many replies there will be is not known. *)
UnsubscribeAll(t) ==
    LET keys == Keys(c.reg, t)
        all == {ch \in Channel : TypeOf[ch] = t}
    IN  /\ ~c.moved
        /\ Spend("unsubscribeAll")
        /\ \A i \in Range(c.pending) : c.op[i].kind = "sub" => c.op[i].all \cap all = {}
        /\ c' = Queued(Leaving(c, keys),
                    [Blank EXCEPT !.kind = "unsubAll", !.type = t, !.all = all, !.flagged = keys])
        /\ UNCHANGED srv

Ping ==
    /\ Spend("ping")
    /\ c' = Queued(c, Blank)
    /\ UNCHANGED srv

(* Mutant: what is still on its way is not in the snapshot. *)
SnapshotNow(s) == [ch \in Channel |-> s.reg[ch].set]

(* removeAllListeners: the snapshot another client adopts. *)
Snapshot(s) ==
    LET reg == FoldLeft(LAMBDA r, i : ApplyTo(r, s.op[i]), s.reg, s.pending)
    IN  [ch \in Channel |-> reg[ch].set]

Move ==
    /\ ~c.moved
    /\ Spend("move")
    /\ c' = UpdateIsActive([c EXCEPT
                !.snap = Snapshot(c),
                !.moved = TRUE,
                !.op = [i \in DOMAIN @ |->
                    IF i \in Range(c.pending) THEN [@[i] EXCEPT !.carried = TRUE] ELSE @[i]],
                !.pending = <<>>,
                !.reg = [ch \in Channel |-> Gone]])
    /\ UNCHANGED srv

(* extendTypeListeners, of a snapshot that comes back. *)
Adopt ==
    LET new == {ch \in Channel : c.snap[ch] # {} /\ ~c.reg[ch].there}
        reg == [ch \in Channel |->
                    IF c.snap[ch] = {} THEN c.reg[ch]
                    ELSE IF c.reg[ch].there THEN [c.reg[ch] EXCEPT !.set = @ \cup c.snap[ch]]
                    ELSE [there |-> TRUE, leaving |-> FALSE, set |-> c.snap[ch]]]
        s == [c EXCEPT !.reg = reg, !.moved = FALSE, !.snap = [ch \in Channel |-> {}]]
        o == [Blank EXCEPT !.kind = "adopt", !.chs = new, !.count = Cardinality(new)]
    IN  /\ c.moved
        /\ Spend("adopt")
        /\ \A x, y \in new : TypeOf[x] = TypeOf[y]
        /\ c' = IF new = {} THEN s
                ELSE Handler(Queued([s EXCEPT !.active = TRUE, !.subscribing = @ + 1], o))
        /\ UNCHANGED srv

-----------------------------------------------------------------------------
(* The connection. *)

Reply(id, kind, ch, n) == [of |-> id, kind |-> kind, ch |-> ch, n |-> n]

(* What the server answers, and what is subscribed then.  An unsubscribe   *)
(* tells how many subscriptions, of either type, are left.                 *)
Answers(o, id, subs) ==
    LET gone == IF o.kind = "unsubAll" THEN {ch \in subs : TypeOf[ch] = o.type} ELSE o.chs
        order == SetToSeq(gone)
    IN  CASE o.kind \in {"sub", "resub", "adopt"} ->
                [i \in 1..Cardinality(o.chs) |-> Reply(id, "subscribe", SetToSeq(o.chs)[i], 0)]
          [] o.kind = "ping" -> <<Reply(id, "pong", None, 0)>>
          [] o.kind = "unsubAll" /\ gone = {} -> <<Reply(id, "unsubscribe", None, Cardinality(subs))>>
          [] OTHER -> [i \in 1..Len(order) |->
                        Reply(id, "unsubscribe", order[i],
                              Cardinality(subs \ {order[j] : j \in 1..i}))]

After(o, subs) ==
    CASE o.kind \in {"sub", "resub", "adopt"} -> subs \cup o.chs
      [] o.kind = "unsub" -> subs \ o.chs
      [] o.kind = "unsubAll" -> {ch \in subs : TypeOf[ch] # o.type}
      [] OTHER -> subs

Write ==
    LET id == Head(c.queue)
        o == c.op[id]
    IN  /\ c.link /\ c.queue # <<>>
        /\ c' = [c EXCEPT !.queue = Tail(@), !.waiting = Append(@, id), !.op[id].st = "sent"]
        /\ srv' = [srv EXCEPT !.subs = After(o, @), !.wire = @ \o Answers(o, id, srv.subs)]
        /\ UNCHANGED left

(* A status reply goes to the oldest command; residualAfterUnsubscribeAll  *)
(* tells when one without a counter is done.                               *)
OtherType(t) == IF t = "CHANNELS" THEN "PATTERNS" ELSE "CHANNELS"

(* Mutant: an argument-less unsubscribe is done when nothing is left. *)
DoneAtZero(s, id, r) ==
    IF s.op[id].kind = "unsubAll" THEN r.n = 0 ELSE s.op[id].count = 1

Done(s, id, r) ==
    IF s.op[id].kind = "unsubAll"
    THEN r.n = Cardinality(Keys(s.reg, OtherType(s.op[id].type)))
    ELSE s.op[id].count = 1

Status(s, r) ==
    LET id == Head(s.waiting)
    IN  IF Done(s, id, r)
        THEN Resolve([s EXCEPT !.waiting = Tail(@)], id)
        ELSE [s EXCEPT !.op[id].count = @ - 1]

OnReply(s) == Resolve([s EXCEPT !.waiting = Tail(@)], Head(s.waiting))

Receive ==
    LET r == Head(srv.wire)
        pushes == c.resp = 3 \/ c.mode = "pubsub"
    IN  /\ srv.wire # <<>>
        /\ srv' = [srv EXCEPT !.wire = Tail(@)]
        /\ c' = IF r.kind = "message" /\ pushes THEN c
                ELSE IF c.waiting = <<>> THEN c
                ELSE IF r.kind \in {"subscribe", "unsubscribe"} /\ pushes THEN Status(c, r)
                ELSE OnReply(c)
        /\ UNCHANGED left

Publish(ch) ==
    /\ ch \in srv.subs
    /\ Spend("publish")
    /\ srv' = [srv EXCEPT !.wire = Append(@, Reply(0, "message", ch, 0))]
    /\ UNCHANGED c

(* flushWaitingForReply *)
Flush(s) ==
    LET plain == [s EXCEPT !.mode = "plain", !.waiting = <<>>]
        rejected == FoldLeft(LAMBDA t, i : Reject(t, i), plain, s.waiting)
    IN  [rejected EXCEPT !.active = FALSE, !.subscribing = 0]

(* The connection drops, or an attempt to connect fails. *)
Drop ==
    /\ Spend("drop")
    /\ c' = [Flush(c) EXCEPT !.link = FALSE]
    /\ srv' = [subs |-> {}, wire |-> <<>>]

(* resubscribe: one command for each type, ahead of the queue. *)
Resubscribe(s) ==
    LET types == {t \in Type : Keys(s.reg, t) # {}}
        o(t) == [Blank EXCEPT !.kind = "resub", !.type = t, !.chs = Keys(s.reg, t),
                              !.count = Cardinality(Keys(s.reg, t))]
        one(u, t) == [u EXCEPT !.op = Append(@, o(t)), !.queue = <<Len(u.op) + 1>> \o @]
        all == FoldLeft(one, s, SetToSeq(types))
    IN  IF types = {} THEN s
        ELSE Handler([all EXCEPT !.active = TRUE, !.subscribing = @ + Cardinality(types)])

Reconnect ==
    /\ ~c.link
    /\ c' = [Resubscribe(c) EXCEPT !.link = TRUE]
    /\ UNCHANGED <<srv, left>>

-----------------------------------------------------------------------------
Init ==
    /\ \E sc \in Scenario, v \in {2, 3} :
        /\ v = 2 => "drop" \notin DOMAIN sc
        /\ left = sc
        /\ c = [reg |-> [ch \in Channel |-> Gone], subscribing |-> 0, active |-> FALSE,
                pending |-> <<>>, op |-> <<>>, queue |-> <<>>, waiting |-> <<>>,
                mode |-> "plain", resp |-> v, link |-> TRUE,
                snap |-> [ch \in Channel |-> {}], moved |-> FALSE]
    /\ srv = [subs |-> {}, wire |-> <<>>]

Calls ==
    \/ \E chs \in SUBSET Channel, l \in Listener : Subscribe(chs, l)
    \/ \E chs \in SUBSET Channel, l \in Listener \cup {None} : Unsubscribe(chs, l)
    \/ \E t \in Type : UnsubscribeAll(t)
    \/ Ping
    \/ Move
    \/ Adopt

Work == Write \/ Receive \/ Reconnect

Next == Calls \/ Work \/ Drop \/ \E ch \in Channel : Publish(ch)

Spec == Init /\ [][Next]_vars

FairSpec == Spec /\ WF_vars(Work)

-----------------------------------------------------------------------------
(* Properties. *)

(* The next reply on the wire goes to the command that asked for it, and a *)
(* message to none: the counters of SUBSCRIBE and UNSUBSCRIBE and the RESP2*)
(* handler keep replies, pushes and commands aligned.                      *)
Aligned ==
    srv.wire # <<>> =>
        LET r == Head(srv.wire)
        IN  IF r.kind = "message" THEN c.resp = 3 \/ c.mode = "pubsub"
            ELSE c.waiting # <<>> /\ Head(c.waiting) = r.of

Quiet == c.link /\ c.queue = <<>> /\ c.waiting = <<>>

(* Once everything is answered, the registry holds exactly the channels    *)
(* the server is subscribed to, unless it was moved away.                  *)
Hears == (Quiet /\ ~c.moved) => AllKeys(c.reg) = srv.subs

(* What the calls that did not fail add up to, in the order they were made.*)
(* A call that failed part of the way may have changed its channels.       *)
Touched(ch) == \E i \in DOMAIN c.op : c.op[i].st = "failed" /\ ch \in c.op[i].all

Wanted(ch) ==
    LET step(r, o) == IF o.kind \in {"sub", "unsub", "unsubAll"} THEN ApplyTo(r, o) ELSE r
    IN  FoldLeft(step, [x \in Channel |-> Gone], c.op)[ch].set

(* A registry that is moved takes along what the calls add up to, those    *)
(* whose replies are still on their way included; otherwise, once they are *)
(* answered, that is what is registered.                                   *)
IntentKept ==
    \A ch \in Channel : ~Touched(ch) =>
        /\ c.moved => c.snap[ch] = Wanted(ch)
        /\ (Quiet /\ ~c.moved) => c.reg[ch].set = Wanted(ch)

(* Every call settles. *)
CallsSettle == \A i \in 1..4 :
    (i \in DOMAIN c.op) ~> (i \in DOMAIN c.op /\ c.op[i].st \in {"ok", "failed"})

=============================================================================
