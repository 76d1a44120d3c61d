--------------------------- MODULE MC_Lifecycle ----------------------------
\* Two restarts that may overlap, the queue at its real size.
EXTENDS Lifecycle_proofs
=============================================================================
