---------------------------- MODULE MC_Session ----------------------------
(* Instances of Session for TLC.                                           *)
EXTENDS Session_proofs, TLC

\* Neither channels nor PINs are told apart by the code.
SessionSymmetry == Permutations(Channels) \cup Permutations(PINs)

=============================================================================
