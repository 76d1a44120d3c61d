--------------------------- MODULE MC_PlatformKey ---------------------------
(* Instances of PlatformKey for TLC. *)
EXTENDS PlatformKey_proofs, TLC

CONSTANTS cbor, u2f, qt, f1, f2, t1
=============================================================================
