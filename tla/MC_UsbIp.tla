----------------------------- MODULE MC_UsbIp -----------------------------
(* Instances of UsbIp for TLC.                                             *)
EXTENDS UsbIp_proofs

\* A reply without frames, from two runs; a request that has sent a frame before it was complete; an
\* empty command that was run.
MCLeftovers ==
    {[Command("cbor", 0, 0) EXCEPT !.ready = TRUE, !.seg = 1, !.mixed = TRUE],
     [Command("cbor", 1, 0) EXCEPT !.seg = 1],
     [Command("direct", 0, 1) EXCEPT !.ready = TRUE]}

=============================================================================
