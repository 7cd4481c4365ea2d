----------------------------- MODULE MCCluster ------------------------------
(* Three slots on two masters, and a third node that may take over. *)
EXTENDS Cluster, TLC

CONSTANTS n1, n2, n3

Owners == 1 :> n1 @@ 2 :> n2 @@ 3 :> n1
Slots == <<1, 3, 1, 1>>

Redirecting == "connect" :> 1 @@ "command" :> 2 @@ "reshard" :> 2
Importing == "connect" :> 1 @@ "command" :> 1 @@ "import" :> 1 @@ "reshard" :> 1
Migrating == "connect" :> 1 @@ "command" :> 4 @@ "migrate" :> 1 @@ "timeout" :> 1
Overlapping == "connect" :> 1 @@ "command" :> 1 @@ "migrate" :> 2
Failing == "connect" :> 1 @@ "command" :> 2 @@ "down" :> 1 @@ "up" :> 1 @@ "refresh" :> 1
Vanishing == "connect" :> 1 @@ "command" :> 1 @@ "migrate" :> 1 @@ "down" :> 1 @@ "refresh" :> 1
Closing == "connect" :> 2 @@ "command" :> 1 @@ "destroy" :> 1 @@ "reshard" :> 1
MigrationOnly == {Migrating}
AllScenarios == {Redirecting, Importing, Migrating, Overlapping, Failing, Vanishing, Closing}
=============================================================================
