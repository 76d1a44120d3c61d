---------------------------- MODULE MC_CtapHid ----------------------------
(* Instances of CtapHid for TLC: two clients that may draw the same channel. *)
EXTENDS CtapHid_proofs, TLC

CONSTANTS a, b, k1, k2, m1, m2, m3, x1

MCClients == {a, b}
MCChannels == {k1, k2}

\* The host cuts a message into as few frames as it can.
HostSegs(len) ==
    IF len <= FirstPayload THEN 0
    ELSE (len - FirstPayload + NextPayload - 1) \div NextPayload

\* Shared: a sends a three-frame and then a one-frame message, b a two-frame one;
\* a and b may draw the same channel.
MCMessages == {m1, m2, m3}
MCClientOf == m1 :> a @@ m2 :> a @@ m3 :> b
MCLength == m1 :> 116 @@ m2 :> 55 @@ m3 :> 57
MCSegs == [m \in MCMessages |-> HostSegs(MCLength[m])]

\* Pair: one two-frame and one one-frame request, of two clients.
PairMessages == {m1, m2}
PairLength == m1 :> 115 @@ m2 :> 10
PairSegs == [m \in PairMessages |-> HostSegs(PairLength[m])]
PairClientOf == m1 :> a @@ m2 :> b @@ x1 :> b

Symmetry == Permutations(MCChannels)
===========================================================================
