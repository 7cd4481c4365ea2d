----------------------------- MODULE MCSentinel -----------------------------
(* What happens to a sentinel client of two nodes and two sentinels. *)
EXTENDS Sentinel, TLC

CONSTANTS n1, n2, g1, g2, c1, c2, u1

Failing == [pool |-> 1, seeds |-> {g1}, guards |-> {g1}, callers |-> {c1}, left |-> "connect" :> 1 @@ "command" :> 1 @@ "failover" :> 1
                                  @@ "nodeDown" :> 1 @@ "drop" :> 1]
Deaf == [pool |-> 1, seeds |-> {g1}, guards |-> {g1, g2}, callers |-> {c1}, left |-> "connect" :> 1 @@ "command" :> 1 @@ "guardDown" :> 2 @@ "failover" :> 1]
Watching == [pool |-> 1, seeds |-> {g1}, guards |-> {g1}, callers |-> {c1, u1}, left |-> "connect" :> 1 @@ "use" :> 1 @@ "command" :> 1 @@ "failover" :> 1
                                  @@ "drop" :> 1 @@ "nodeDown" :> 1]
Sharing == [pool |-> 2, seeds |-> {g1}, guards |-> {g1}, callers |-> {c1, c2, u1}, left |-> "connect" :> 1 @@ "use" :> 1 @@ "command" :> 2 @@ "failover" :> 1]
Closing == [pool |-> 1, seeds |-> {g1}, guards |-> {g1}, callers |-> {c1}, left |-> "connect" :> 2 @@ "block" :> 1 @@ "close" :> 1 @@ "destroy" :> 1
                                  @@ "nodeDown" :> 1]
Subscribing == [pool |-> 1, seeds |-> {g1}, guards |-> {g1}, callers |-> {}, left |-> "connect" :> 1 @@ "subscribe" :> 1 @@ "failover" :> 2 @@ "scan" :> 1]
Reopening == [pool |-> 1, seeds |-> {g1}, guards |-> {g1}, callers |-> {u1}, left |-> "connect" :> 2 @@ "use" :> 1 @@ "destroy" :> 1 @@ "scan" :> 2]

AllScenarios == {Failing, Deaf, Watching, Sharing, Closing, Subscribing, Reopening}
=============================================================================
