---------------------------- MODULE MCWriteEngine ----------------------------
(* The write engine on a small instance. *)
EXTENDS WriteEngine, TLC

CONSTANTS m1, m2, bad

MCMutation == {m1, m2, bad}
MCKeyable == {m1, m2}
MCUnkeyable == {bad}
MCSymmetry == Permutations({m1, m2})
=============================================================================
