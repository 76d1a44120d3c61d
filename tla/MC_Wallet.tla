----------------------------- MODULE MC_Wallet -----------------------------
(* An instance of Wallet for TLC. *)
EXTENDS Wallet_proofs, TLC

\* No PIN and no account is special.
Symmetry == Permutations(PINs) \cup Permutations(Accounts)
=============================================================================
