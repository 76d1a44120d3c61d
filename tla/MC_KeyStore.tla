---------------------------- MODULE MC_KeyStore ----------------------------
(* An instance of KeyStore for TLC.                                        *)
EXTENDS KeyStore

=============================================================================
