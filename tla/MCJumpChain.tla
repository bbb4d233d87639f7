---------------------------- MODULE MCJumpChain ----------------------------
(***************************************************************************)
(* Instances of JumpChain: two relays r1 and r2, the listener lst.         *)
(***************************************************************************)
EXTENDS JumpChainInv

CONSTANTS r1, r2, lst

At(p) == <<[proto |-> "tcp", peer |-> NoPeer], P2p(p)>>

TwoRelays == <<At(r1), At(r2)>>
\* The path comes back to the relay it started from.
ThereAndBack == <<At(r1), At(r2), At(r1)>>

DirectTarget == At(lst)
\* An address without a peer id parses as a target too.
NamelessTarget == <<[proto |-> "tcp", peer |-> NoPeer]>>
CircuitTarget == DialAddress(At(r2), lst)

NoConnections == [p \in RelayPeers |-> {}]
\* The relays are connected through earlier chains.
RelaysConnected == [p \in RelayPeers |-> RelayPeers \ {p}]
\* A listener keeps a connection to the relay it is registered on.
Registered == [p \in RelayPeers |-> IF p = r2 THEN {lst} ELSE {}]
=============================================================================
