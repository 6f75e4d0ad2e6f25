----------------------------- MODULE MCRefresh -----------------------------
(***************************************************************************)
(* Two callers; two flushes and their compaction, and one more generation. *)
(***************************************************************************)
EXTENDS Refresh

=============================================================================
