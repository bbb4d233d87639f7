--------------------------- MODULE MultiaddrProofs ---------------------------
(***************************************************************************)
(* What the readers of addresses return, for addresses of any length.      *)
(***************************************************************************)
EXTENDS Multiaddr, WellFoundedInduction, SequenceTheorems, TLAPS

\* The natural numbers have a well-founded order that holds <.
LEMMA LessIsWellFounded ==
  \E R : /\ IsWellFoundedOn(R, Nat)
         /\ \A x, y \in Nat : y < x => <<y, x>> \in R
<1> DEFINE R == OpToRel(<, Nat)
<1>1. IsWellFoundedOn(R, Nat)
  BY NatLessThanWellFounded
<1>2. \A x, y \in Nat : y < x => <<y, x>> \in R
  BY DEF OpToRel
<1> HIDE DEF R
<1> QED BY <1>1, <1>2

\* Every nonempty set of natural numbers has a least element.
LEMMA LeastExists ==
  ASSUME NEW T, T \subseteq Nat, T # {}
  PROVE  \E x \in T : \A y \in T : x <= y
<1>1. PICK R : /\ IsWellFoundedOn(R, Nat)
               /\ \A x, y \in Nat : y < x => <<y, x>> \in R
  BY LessIsWellFounded
<1>2. PICK x \in T : \A y \in T : <<y, x>> \notin R
  BY <1>1, WFMin
<1>3. \A y \in T : ~(y < x)
  BY <1>1, <1>2
<1> QED BY <1>3

\* FirstOf finds the first component of a kind when there is one.
LEMMA FirstOfProperties ==
  ASSUME NEW addr \in Address, NEW proto, Has(addr, proto)
  PROVE  /\ FirstOf(addr, proto) \in 1..Len(addr)
         /\ addr[FirstOf(addr, proto)].proto = proto
         /\ \A j \in 1..(FirstOf(addr, proto) - 1) : addr[j].proto # proto
<1> DEFINE T == {i \in 1..Len(addr) : addr[i].proto = proto}
<1>1. DOMAIN addr = 1..Len(addr) /\ Len(addr) \in Nat
  BY DEF Address
<1>2. T \subseteq Nat /\ T # {}
  BY <1>1 DEF Has
<1>3. PICK x \in T : \A y \in T : x <= y
  <2> HIDE DEF T
  <2> QED BY <1>2, LeastExists
<1>4. /\ x \in DOMAIN addr
      /\ addr[x].proto = proto
      /\ \A j \in 1..(x - 1) : addr[j].proto # proto
  BY <1>1, <1>3
<1> QED BY <1>1, <1>4 DEF FirstOf

\* peer_id_from_multiaddr returns a peer or nothing.
LEMMA PeerIdType ==
  ASSUME NEW addr \in Address
  PROVE  PeerIdFromMultiaddr(addr) \in Peer \cup {NoPeer}
<1>1. CASE Has(addr, "p2p")
  <2>1. /\ FirstOf(addr, "p2p") \in 1..Len(addr)
        /\ addr[FirstOf(addr, "p2p")].proto = "p2p"
    BY <1>1, FirstOfProperties
  <2>2. addr[FirstOf(addr, "p2p")] \in Component
    BY <2>1 DEF Address
  <2> QED BY <1>1, <2>1, <2>2 DEF PeerIdFromMultiaddr, Component
<1>2. CASE ~Has(addr, "p2p")
  BY <1>2 DEF PeerIdFromMultiaddr
<1> QED BY <1>1, <1>2
=============================================================================
