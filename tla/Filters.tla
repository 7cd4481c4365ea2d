------------------------------- MODULE Filters -------------------------------
(***************************************************************************)
(* The subsequence of s made of its elements in keep.  SelectSeq with a    *)
(* set for a test, so that theorems can be stated about it.                *)
(***************************************************************************)
EXTENDS Naturals, Sequences

Filter(s, keep) ==
    LET kept[i \in 0..Len(s)] ==
            IF i = 0 THEN <<>>
            ELSE IF s[i] \in keep THEN Append(kept[i - 1], s[i]) ELSE kept[i - 1]
    IN  kept[Len(s)]
==============================================================================
