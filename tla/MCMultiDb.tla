------------------------------ MODULE MCMultiDb ------------------------------
(* What happens to two members, one of them preferred, or to one member    *)
(* and one that joins: outages, a watching caller, a subscriber, a caller  *)
(* whose command is caught by a switch, and an operator who rearranges.    *)
EXTENDS MultiDb, TLC

CONSTANTS a, b

Two == {a, b}

Outages == [dbs |-> Two, left |-> "connect" :> 1 @@ "drop" :> 3 @@ "force" :> 1]
Returning == [dbs |-> Two, left |-> "connect" :> 2 @@ "drop" :> 1 @@ "check" :> 1]
Watching == [dbs |-> Two, left |-> "connect" :> 1 @@ "drop" :> 1 @@ "force" :> 1
                                    @@ "watch" :> 1 @@ "multi" :> 1]
Subscribing == [dbs |-> Two, left |-> "connect" :> 1 @@ "force" :> 2 @@ "subscribe" :> 1 @@ "drop" :> 1]
Commanding == [dbs |-> Two, left |-> "connect" :> 1 @@ "drop" :> 2 @@ "command" :> 2 @@ "close" :> 1]
Rearranging == [dbs |-> {a}, left |-> "connect" :> 1 @@ "add" :> 1 @@ "remove" :> 1
                                    @@ "weight" :> 1 @@ "check" :> 1 @@ "drop" :> 1]

AllScenarios == {Outages, Returning, Watching, Subscribing, Commanding, Rearranging}
=============================================================================
