-------------------------------- MODULE MCWal --------------------------------
(* The write-ahead log on a small instance. *)
EXTENDS Wal, TLC

CONSTANTS m1, m2, big

MCMutation == {m1, m2, big}
MCOversized == {big}
MCSymmetry == Permutations({m1, m2})
=============================================================================
