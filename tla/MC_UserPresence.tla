-------------------------- MODULE MC_UserPresence --------------------------
(* Instances of UserPresence for TLC. *)
EXTENDS UserPresence_proofs, TLC

CONSTANTS k1, k2
=============================================================================
