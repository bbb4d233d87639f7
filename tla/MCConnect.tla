----------------------------- MODULE MCConnect -----------------------------
(***************************************************************************)
(* Instances of Connect: listeners l1 and l2, both started with the code   *)
(* the dialer is given, each on both transports.                           *)
(***************************************************************************)
EXTENDS ConnectInv

CONSTANTS l1, l2, s1, tcp, quic

BothTransports == [l \in Listeners |-> {tcp, quic}]
=============================================================================
