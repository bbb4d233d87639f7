-------------------------- MODULE MCReverseForward --------------------------
(***************************************************************************)
(* Instances of ReverseForward.  Runs r1 and r2 are of one identity, r3 is *)
(* of another one and asks for the port of r1.                             *)
(***************************************************************************)
EXTENDS ReverseForwardInv, TLC

CONSTANTS c1, c2, r1, r2, r3, d1, d2, p1, p2, t1, t2, t3

WhoIs == [r \in Run |-> IF r = r3 THEN d2 ELSE d1]
BindPort == [r \in Run |-> IF r = r2 THEN p2 ELSE p1]
ForwardTo == [r \in Run |-> CASE r = r1 -> t1 [] r = r2 -> t2 [] r = r3 -> t3]

Clients == Permutations(Client)
=============================================================================
