------------------------------ MODULE MCPubSub ------------------------------
(* Two channels and a pattern, two listeners. *)
EXTENDS PubSub, TLC

CONSTANTS x, y, p, k, l

Types == x :> "CHANNELS" @@ y :> "CHANNELS" @@ p :> "PATTERNS"

Changing == "subscribe" :> 2 @@ "unsubscribe" :> 1 @@ "publish" :> 1
Emptying == "subscribe" :> 2 @@ "unsubscribeAll" :> 1 @@ "ping" :> 1
Dropping == "subscribe" :> 2 @@ "unsubscribe" :> 1 @@ "drop" :> 1
Unlistening == "subscribe" :> 2 @@ "unlisten" :> 1 @@ "drop" :> 1
Moving == "subscribe" :> 2 @@ "unsubscribe" :> 1 @@ "move" :> 1 @@ "adopt" :> 1
Racing == "subscribe" :> 2 @@ "unsubscribe" :> 1 @@ "hasty" :> 1
HastyOnly == {Racing}
AllScenarios == {Changing, Emptying, Dropping, Unlistening, Moving}
=============================================================================
