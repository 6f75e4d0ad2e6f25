-------------------------- MODULE MCTombstonePurge --------------------------
EXTENDS TombstonePurge

=============================================================================
