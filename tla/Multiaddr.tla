----------------------------- MODULE Multiaddr -----------------------------
(***************************************************************************)
(* The addresses sape exchanges, and the functions of src/types.rs that    *)
(* read them.  A multiaddr is a sequence of components; of a component     *)
(* only its protocol and, for /p2p, the peer it names matter here (IP      *)
(* addresses, ports and DNS names are one "host" component or the          *)
(* transport that follows it).                                             *)
(***************************************************************************)
EXTENDS Naturals, Sequences

CONSTANTS Peer,      \* peer identities
          NoPeer     \* the peer of a component that names none; also Option::None

ASSUME NoPeerAssumption == NoPeer \notin Peer

Transport == {"host", "tcp", "udp", "quic-v1"}

Component == [proto : Transport \cup {"p2p-circuit"}, peer : {NoPeer}]
               \cup [proto : {"p2p"}, peer : Peer]

Address == Seq(Component)

P2p(p) == [proto |-> "p2p", peer |-> p]
Circuit == [proto |-> "p2p-circuit", peer |-> NoPeer]

Has(addr, proto) == \E i \in DOMAIN addr : addr[i].proto = proto

(***************************************************************************)
(* validate_relay_address: a peer id, and TCP or UDP with QUIC v1,         *)
(* anywhere in the address and in any order.                               *)
(***************************************************************************)
ValidRelayAddress(addr) ==
  /\ Has(addr, "p2p")
  /\ Has(addr, "tcp") \/ (Has(addr, "udp") /\ Has(addr, "quic-v1"))

\* The program picks the first component of a kind, or the last.
FirstOf(addr, proto) ==
  CHOOSE i \in DOMAIN addr :
    /\ addr[i].proto = proto
    /\ \A j \in 1..(i - 1) : addr[j].proto # proto

LastOf(addr, proto) ==
  CHOOSE i \in DOMAIN addr :
    /\ addr[i].proto = proto
    /\ \A j \in (i + 1)..Len(addr) : addr[j].proto # proto

\* Mutant: the peer at the end of the path instead of the one at its start.
LastPeerId(addr) ==
  IF Has(addr, "p2p") THEN addr[LastOf(addr, "p2p")].peer ELSE NoPeer

(***************************************************************************)
(* peer_id_from_multiaddr: the FIRST /p2p component of the address.        *)
(***************************************************************************)
PeerIdFromMultiaddr(addr) ==
  IF Has(addr, "p2p") THEN addr[FirstOf(addr, "p2p")].peer ELSE NoPeer

(***************************************************************************)
(* relay_base_from_circuit_address: everything before the first            *)
(* /p2p-circuit, and the LAST /p2p after it.  The checks come in the       *)
(* order of the code: circuit, listener's peer id, relay's address.        *)
(***************************************************************************)
RelayBase(addr) == SubSeq(addr, 1, FirstOf(addr, "p2p-circuit") - 1)

ListenerPart(addr) == SubSeq(addr, FirstOf(addr, "p2p-circuit") + 1, Len(addr))

RelayBaseFromCircuitAddress(addr) ==
  IF ~Has(addr, "p2p-circuit") THEN [error |-> "MissingCircuit"]
  ELSE IF ~Has(ListenerPart(addr), "p2p") THEN [error |-> "MissingListenerPeerId"]
  ELSE IF ~Has(RelayBase(addr), "p2p") THEN [error |-> "MissingPeerId"]
  ELSE IF ~ValidRelayAddress(RelayBase(addr)) THEN [error |-> "UnsupportedTransport"]
  ELSE [base     |-> RelayBase(addr),
        listener |-> ListenerPart(addr)[LastOf(ListenerPart(addr), "p2p")].peer]

(***************************************************************************)
(* The address a listener prints after registering on a relay, and the     *)
(* one a dialer is given as its circuit target.                            *)
(***************************************************************************)
DialAddress(relay, listener) == relay \o <<Circuit, P2p(listener)>>
=============================================================================
