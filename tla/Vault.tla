------------------------------- MODULE Vault -------------------------------
(***************************************************************************)
(* What a wallet promises, whatever files hold it: it is created with a    *)
(* key, a PIN and no credential; an operation appends one credential, or   *)
(* removes some, or changes the PIN, and leaves the rest alone; and only a *)
(* failure during a save, or a deletion, makes it disappear.  Wallet       *)
(* implements it with two files per wallet.                                *)
(***************************************************************************)
EXTENDS Naturals, Sequences

CONSTANTS
    Wallets,    \* names
    Keys,       \* wallet keys
    PINs,
    Accounts,   \* what a resident credential is for
    None        \* no such wallet

Contents == [key : Keys, pin : PINs, creds : Seq(Accounts)]

VARIABLES
    vault,      \* per name, the content or None
    saving      \* names that are being saved

vvars == <<vault, saving>>

VInit == vault = [w \in Wallets |-> None] /\ saving = {}

\* s without some of its members, the others in order.
Fewer(s, t) ==
    \E f \in [DOMAIN t -> DOMAIN s] : /\ \A i, j \in DOMAIN t : i < j => f[i] < f[j]
                                    /\ \A i \in DOMAIN t : t[i] = s[f[i]]

\* What a save may make of v.
Saved(v, n) ==
    \/ v = None /\ n.creds = <<>>
    \/ /\ v # None /\ n.key = v.key
       /\ \/ n.creds = v.creds
          \/ n.pin = v.pin /\ \E a \in Accounts : n.creds = Append(v.creds, a)
          \/ n.pin = v.pin /\ Fewer(v.creds, n.creds)

Save(w) ==
    /\ vault'[w] # None /\ Saved(vault[w], vault'[w])
    /\ vault' = [vault EXCEPT ![w] = vault'[w]]
    /\ saving' = saving \cup {w}

Settle(w) == w \in saving /\ saving' = saving \ {w} /\ UNCHANGED vault

\* The failures of several saves may be one, as when the process dies.
Lose(S) ==
    /\ vault' = [w \in Wallets |-> IF w \in S THEN None ELSE vault[w]] /\ saving' = saving \ S

Erase(w) == vault' = [vault EXCEPT ![w] = None] /\ UNCHANGED saving

VNext ==
    \/ \E w \in Wallets : Save(w) \/ Settle(w) \/ Erase(w)
    \/ \E S \in SUBSET saving : Lose(S)

VSpec == VInit /\ [][VNext]_vvars

=============================================================================
