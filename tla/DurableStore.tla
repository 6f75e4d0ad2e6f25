---------------------------- MODULE DurableStore ----------------------------
(***************************************************************************)
(* What a WriteEngine promises its caller, with nothing said about logs,   *)
(* memtables, SSTables or compaction: a set of mutations that a caller who *)
(* reads the open store sees, and a set it may never lose.                 *)
(***************************************************************************)
CONSTANTS
  Mutation,       \* the mutations a caller may write
  SyncEachWrite   \* Durability::SyncEachWrite (TRUE) or Durability::Disabled

VARIABLES
  up,             \* an engine is open on the directories
  visible,        \* what the open engine holds, in memory or in SSTables
  promised,       \* what a crash may not lose
  attempted       \* what a caller has ever tried to write

storeVars == <<up, visible, promised, attempted>>

StoreInit == up = FALSE /\ visible = {} /\ promised = {} /\ attempted = {}

\* Opening finds everything promised, and nothing that was never written.  A
\* write that returned an error may or may not have survived.
StoreOpen ==
  /\ ~up
  /\ up' = TRUE
  /\ promised \subseteq visible' /\ visible' \subseteq attempted
  /\ UNCHANGED <<promised, attempted>>

\* A write that returns Ok is visible, and durable if the mode says so.
StoreWrite(m) ==
  /\ up
  /\ attempted' = attempted \cup {m}
  /\ visible' = visible \cup {m}
  /\ promised' = IF SyncEachWrite THEN promised \cup {m} ELSE promised
  /\ UNCHANGED up

StoreWriteFails(m) ==
  /\ up
  /\ attempted' = attempted \cup {m}
  /\ UNCHANGED <<up, visible, promised>>

\* A flush makes everything visible durable.
StoreFlush ==
  /\ up
  /\ promised' = promised \cup visible
  /\ UNCHANGED <<up, visible, attempted>>

\* Closing, dropping and crashing look alike from outside.
StoreDown ==
  /\ up
  /\ up' = FALSE /\ visible' = {}
  /\ UNCHANGED <<promised, attempted>>

StoreNext ==
  \/ StoreOpen \/ StoreFlush \/ StoreDown
  \/ \E m \in Mutation : StoreWrite(m) \/ StoreWriteFails(m)

StoreSpec == StoreInit /\ [][StoreNext]_storeVars
=============================================================================
