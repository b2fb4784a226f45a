----------------------------- MODULE MCUdpSession -----------------------------
(* TLC's instance of UdpSession: two addresses that are alike, and two     *)
(* settings.  With the long timeout the sequences wrap and a spell of      *)
(* disturbances leaves time to settle; with the long latency a datagram    *)
(* is under way for longer than the silence a rebinding waits for.         *)
EXTENDS UdpSession, TLC

MCSettings ==
  {[modulus |-> 26, timeout |-> 10, latency |-> 1], [modulus |-> 16, timeout |-> 3, latency |-> 3]}

Symmetry == Permutations(Addresses)

=============================================================================
