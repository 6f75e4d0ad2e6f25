-------------------------- MODULE MCMergeProducer --------------------------
(* Instances of MergeProducer: which merge owns an input, and its rows.     *)
EXTENDS MergeProducer

const_OneMerge == [r \in Runs |-> "m1"]
const_TwoMerges == [r \in Runs |-> IF r = 1 THEN "m1" ELSE "m2"]
const_Rows == [r \in Runs |-> IF r = 1 THEN 2 ELSE 1]

=============================================================================
