------------------------------ MODULE MCHandoff ------------------------------
(* A few calls, one or two handoffs, a drop. *)
EXTENDS Handoff, TLC

Watching == "watch" :> 2 @@ "exec" :> 2 @@ "moving" :> 1 @@ "cancel" :> 1 @@ "drop" :> 1
Unwatching == "watch" :> 1 @@ "unwatch" :> 1 @@ "exec" :> 1 @@ "moving" :> 1 @@ "drop" :> 1
Overlapping == "get" :> 2 @@ "moving" :> 2 @@ "migrating" :> 1 @@ "migrated" :> 2 @@ "drop" :> 1
Failing == "get" :> 1 @@ "exec" :> 1 @@ "moving" :> 2 @@ "tmpfail" :> 1 @@ "drop" :> 1
Squeezed == "get" :> 1 @@ "exec" :> 1 @@ "moving" :> 1 @@ "drop" :> 1 @@ "backpressure" :> 0
Ending == "get" :> 2 @@ "exec" :> 1 @@ "drop" :> 1 @@ "destroy" :> 1
AllScenarios == {Watching, Unwatching, Overlapping, Failing, Squeezed, Ending}

Destroyed == "moving" :> 1 @@ "destroy" :> 1
DestroyedOnly == {Destroyed}
Moved == "moving" :> 1 @@ "drop" :> 1
MovedOnly == {Moved}
Merging == "watch" :> 2 @@ "exec" :> 2 @@ "cancel" :> 1 @@ "drop" :> 1 @@ "backpressure" :> 0
MergingOnly == {Merging}
==============================================================================
