------------------------------- MODULE MCCache -------------------------------
(* Two clients, a read of one key and a read of two, room for one or two.  *)
EXTENDS Cache, TLC

CONSTANTS a, b, get, mget

Keys == get :> {a} @@ mget :> {a, b}

Setting(provider, mode, max, events) ==
    [conf |-> [provider |-> provider, mode |-> mode, max |-> max], events |-> events]

Racing(p) == Setting(p, "plain", 1, "read" :> 3 @@ "write" :> 1 @@ "expire" :> 1 @@ "abort" :> 1)
OptIn == Setting("basic", "optin", 0, "read" :> 3 @@ "write" :> 1 @@ "drop" :> 1)
Dropping(p) == Setting(p, "plain", 0, "read" :> 3 @@ "write" :> 1 @@ "drop" :> 1 @@ "destroy" :> 1)
Flushing == Setting("pooled", "plain", 0, "read" :> 3 @@ "write" :> 1 @@ "flushall" :> 1)
Moving == Setting("basic", "plain", 0, "read" :> 3 @@ "write" :> 1 @@ "handoff" :> 1)
MovingOwn == Setting("own", "plain", 0, "read" :> 1 @@ "write" :> 1 @@ "handoff" :> 1)
Interchangeable == Permutations(Client)

AllScenarios == {Racing("basic"), OptIn, Dropping("pooled"), Dropping("noredirect"), Flushing, Moving}
OwnOnly == {MovingOwn}
FlushingOnly == {Flushing}
==============================================================================
