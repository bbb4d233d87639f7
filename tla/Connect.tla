------------------------------ MODULE Connect ------------------------------
(***************************************************************************)
(* How a dialer finds its listener: the set-up loops of client/swarm.rs    *)
(* and their use by run_listen and run_dial, with one relay that is also   *)
(* the rendezvous point, listeners that come and go, and other peers of    *)
(* the LAN that connect to a client while it is still setting up.          *)
(*                                                                         *)
(* A client polls its swarm only inside these loops and, once set up, in   *)
(* drive_client_swarm; an event is handled by the loop that polls, or lost *)
(* on it.  Steps of the network are therefore steps of the loop that sees  *)
(* their event.                                                            *)
(***************************************************************************)
EXTENDS Naturals, FiniteSets

CONSTANTS
  Listeners,   \* `sape listen` processes, each with an identity of its own
  Dialer,      \* one `sape dial`
  Relay,       \* the relay of --relay-address and of the circuit addresses
  Strangers,   \* peers that may connect to a client on their own account
  Kinds,       \* the kinds of DialTarget considered, see `kind`
  TargetPeer,  \* the listener of a circuit or mDNS target
  Paired,      \* the listeners whose --code is the one the dialer was given
  Addrs,       \* Addrs[l]: the addresses listener l announces by mDNS
  Reachable,   \* the addresses that the dialer can connect to
  Calms,       \* what `calm` may be
  MaxFaults,   \* bound: listeners stopped, connections to the relay lost
  Nobody

Clients == Listeners \cup {Dialer}
Peers == Clients \cup Strangers \cup {Relay}

ASSUME ConnectAssumption ==
  /\ Dialer \notin Listeners /\ Relay \notin Clients \cup Strangers
  /\ Strangers \cap Clients = {} /\ Nobody \notin Peers
  /\ Kinds \subseteq {"circuit", "code", "mdns"}
  /\ TargetPeer \in Listeners /\ Paired \subseteq Listeners
  /\ Calms \subseteq BOOLEAN /\ MaxFaults \in Nat

VARIABLES
  calm,       \* nothing stops or is lost, and the 30 s deadlines are far off
  kind,       \* the dialer's DialTarget: "circuit", "code" or "mdns"
  phase,      \* phase[x]: the loop client x is in
  learned,    \* clients with learned_observed_addr
  told,       \* clients with told_relay_observed_addr
  conn,       \* connections, as sets of two peers
  dials,      \* dials[x]: dials in progress at client x, see Dials
  reserving,  \* listeners that asked the relay for a reservation
  reserved,   \* listeners that have one
  registering, registered, \* the same for the rendezvous registration
  discover,   \* the dialer's discover request
  expected,   \* the peer the dialer waits for
  faults

vars == <<calm, kind, phase, learned, told, conn, dials, reserving, reserved,
          registering, registered, discover, expected, faults>>
lists == <<reserving, reserved, registering, registered>>

\* A dial goes to the relay, over the relay to a peer, or to a LAN address.
Dials == [way : {"relay"}, peer : {Relay}]
           \cup [way : {"circuit"}, peer : Listeners]
           \cup [way : {"lan"}, peer : Listeners, addr : UNION {Addrs[l] : l \in Listeners}]
ToRelay == [way |-> "relay", peer |-> Relay]
OverCircuit(p) == [way |-> "circuit", peer |-> p]

OnRelay(x) == {x, Relay} \in conn
Waiting == {"relay", "discover", "mdns", "peer"}
Runs(x) == phase[x] \in Waiting \cup {"ready"}

Init ==
  /\ calm \in Calms /\ kind \in Kinds
  /\ phase = [x \in Clients |-> "off"]
  /\ learned = {} /\ told = {} /\ conn = {}
  /\ dials = [x \in Clients |-> {}]
  /\ reserving = {} /\ reserved = {} /\ registering = {} /\ registered = {}
  /\ discover = "none" /\ expected = Nobody
  /\ faults = 0

-----------------------------------------------------------------------------
(* connect_and_identify, at listeners and dialers.                         *)

\* A listener without --relay-address is ready at once.
Start(x) ==
  /\ phase[x] = "off"
  /\ \/ /\ x \in Listeners \/ kind # "mdns"
        /\ phase' = [phase EXCEPT ![x] = "relay"]
        /\ dials' = [dials EXCEPT ![x] = {ToRelay}]
        /\ UNCHANGED expected
     \/ /\ x \in Listeners \/ kind = "mdns"
        /\ phase' = [phase EXCEPT ![x] = IF x = Dialer THEN "mdns" ELSE "ready"]
        /\ expected' = IF x = Dialer THEN TargetPeer ELSE expected
        /\ UNCHANGED dials
  /\ UNCHANGED <<calm, kind, learned, told, conn, lists, discover, faults>>

\* Identify events are taken from whichever peer is connected.
IdentifyReceived(x) ==
  /\ phase[x] = "relay" /\ \E c \in conn : x \in c
  /\ learned' = learned \cup {x}
  /\ UNCHANGED <<calm, kind, phase, told, conn, dials, lists, discover, expected, faults>>

IdentifySent(x) ==
  /\ phase[x] = "relay" /\ \E c \in conn : x \in c
  /\ told' = told \cup {x}
  /\ UNCHANGED <<calm, kind, phase, learned, conn, dials, lists, discover, expected, faults>>

Identified(x) == phase[x] = "relay" /\ x \in learned \cap told

\* run_listen asks for a reservation and for its registration, and prints
\* the pairing code, without waiting for either.
ListenerReady(l) ==
  /\ Identified(l)
  /\ phase' = [phase EXCEPT ![l] = "ready"]
  /\ reserving' = reserving \cup {l}
  /\ registering' = registering \cup {l}
  /\ UNCHANGED <<calm, kind, learned, told, conn, dials, reserved, registered, discover, expected, faults>>

\* run_dial dials the circuit address, or asks the relay for the code.
DialerIdentified ==
  /\ Identified(Dialer)
  /\ \/ /\ kind = "circuit"
        /\ phase' = [phase EXCEPT ![Dialer] = "peer"]
        /\ expected' = TargetPeer
        /\ dials' = [dials EXCEPT ![Dialer] = @ \cup {OverCircuit(TargetPeer)}]
        /\ UNCHANGED discover
     \/ /\ kind = "code"
        /\ phase' = [phase EXCEPT ![Dialer] = "discover"]
        /\ discover' = "sent"
        /\ UNCHANGED <<expected, dials>>
  /\ UNCHANGED <<calm, kind, learned, told, conn, lists, faults>>

-----------------------------------------------------------------------------
(* The waits of the dialer.                                                *)

Exit(x, how) ==
  /\ phase' = [phase EXCEPT ![x] = how]
  /\ conn' = {c \in conn : x \notin c}
  /\ dials' = [dials EXCEPT ![x] = {}]

\* Mutant: the wait ends with any connection.
EstablishedAny(x, p) ==
  /\ conn' = conn \cup {{x, p}}
  /\ phase' = IF x = Dialer /\ phase[x] \in {"peer", "mdns"}
                THEN [phase EXCEPT ![x] = "ready"] ELSE phase

\* ConnectionEstablished with peer p at client x.
Established(x, p) ==
  /\ conn' = conn \cup {{x, p}}
  /\ phase' = IF x = Dialer /\ phase[x] \in {"peer", "mdns"} /\ p = expected
                THEN [phase EXCEPT ![x] = "ready"] ELSE phase

Connected(x, d) ==
  /\ d \in dials[x] /\ Runs(x)
  /\ \/ d.way = "relay"
     \/ d.way = "circuit" /\ OnRelay(x) /\ d.peer \in reserved
     \/ d.way = "lan" /\ d.addr \in Reachable /\ Runs(d.peer)
  /\ dials' = [dials EXCEPT ![x] = @ \ {d}]
  /\ Established(x, d.peer)
  /\ UNCHANGED <<calm, kind, learned, told, lists, discover, expected, faults>>

\* OutgoingConnectionError: logged by every loop, and nothing else.  A
\* circuit is refused also while its relay is still being dialed.
DialFails(x, d) ==
  /\ d \in dials[x] /\ Runs(x)
  /\ \/ d.way = "circuit" /\ ~(OnRelay(x) /\ d.peer \in reserved)
     \/ d.way = "lan" /\ ~(d.addr \in Reachable /\ Runs(d.peer))
  /\ dials' = [dials EXCEPT ![x] = @ \ {d}]
  /\ UNCHANGED <<calm, kind, phase, learned, told, conn, lists, discover, expected, faults>>

StrangerConnects(x, s) ==
  /\ Runs(x) /\ {x, s} \notin conn
  /\ Established(x, s)
  /\ UNCHANGED <<calm, kind, learned, told, dials, lists, discover, expected, faults>>

\* Mutant: the wait is for the rendezvous node, not for the registered peer.
DiscoveredNode ==
  /\ phase[Dialer] = "discover" /\ discover = "sent" /\ OnRelay(Dialer)
  /\ discover' = "answered"
  /\ \E p \in registered \cap Paired :
       /\ phase' = [phase EXCEPT ![Dialer] = "peer"]
       /\ expected' = Relay
       /\ dials' = [dials EXCEPT ![Dialer] = @ \cup {OverCircuit(p)}]
  /\ UNCHANGED <<calm, kind, learned, told, conn, lists, faults>>

\* The answer to discover: the first registration of the code, in whatever
\* order the relay keeps them; without one, no second request is sent.
Discovered ==
  /\ phase[Dialer] = "discover" /\ discover = "sent" /\ OnRelay(Dialer)
  /\ discover' = "answered"
  /\ \/ /\ registered \cap Paired = {}
        /\ UNCHANGED <<phase, expected, dials>>
     \/ \E p \in registered \cap Paired :
          /\ phase' = [phase EXCEPT ![Dialer] = "peer"]
          /\ expected' = p
          /\ dials' = [dials EXCEPT ![Dialer] = @ \cup {OverCircuit(p)}]
  /\ UNCHANGED <<calm, kind, learned, told, conn, lists, faults>>

DiscoverFailed ==
  /\ phase[Dialer] = "discover" /\ discover = "sent"
  /\ ~OnRelay(Dialer) /\ ToRelay \notin dials[Dialer]
  /\ Exit(Dialer, "failed")
  /\ UNCHANGED <<calm, kind, learned, told, lists, discover, expected, faults>>

\* Mutant: the announcement of any peer ends the wait for discoveries.
MdnsDiscoveredAny(l) ==
  /\ phase[Dialer] = "mdns" /\ Runs(l)
  /\ \E a \in Addrs[l] :
       dials' = [dials EXCEPT ![Dialer] = {[way |-> "lan", peer |-> l, addr |-> a]}]
  /\ phase' = [phase EXCEPT ![Dialer] = "peer"]
  /\ UNCHANGED <<calm, kind, learned, told, conn, lists, discover, expected, faults>>

\* mDNS: of the addresses announced, the first of the target is dialed and
\* the wait for discoveries is left.
MdnsDiscovered(l) ==
  /\ phase[Dialer] = "mdns" /\ Runs(l) /\ l = expected
  /\ \E a \in Addrs[l] :
       dials' = [dials EXCEPT ![Dialer] = {[way |-> "lan", peer |-> l, addr |-> a]}]
  /\ phase' = [phase EXCEPT ![Dialer] = "peer"]
  /\ UNCHANGED <<calm, kind, learned, told, conn, lists, discover, expected, faults>>

\* Mutant: the wait for the discovery has no deadline.
DeadlineNotDiscover(x) ==
  /\ ~calm /\ phase[x] \in {"relay", "peer"}
  /\ Exit(x, "failed")
  /\ UNCHANGED <<calm, kind, learned, told, lists, discover, expected, faults>>

Deadline(x) ==
  /\ ~calm /\ phase[x] \in {"relay", "discover", "peer"}
  /\ Exit(x, "failed")
  /\ UNCHANGED <<calm, kind, learned, told, lists, discover, expected, faults>>

-----------------------------------------------------------------------------
(* The relay, and what fails.                                              *)

\* A reservation and a circuit dial connect to the relay themselves when it
\* is neither connected nor being dialed; a registration has no address to
\* do so.
RedialRelay(x) ==
  /\ Runs(x) /\ ~OnRelay(x) /\ ToRelay \notin dials[x]
  /\ x \in reserving \/ \E d \in dials[x] : d.way = "circuit"
  /\ conn' = conn \cup {{x, Relay}}
  /\ UNCHANGED <<calm, kind, phase, learned, told, dials, lists, discover, expected, faults>>

Reserve(l) ==
  /\ l \in reserving /\ phase[l] = "ready" /\ OnRelay(l)
  /\ reserving' = reserving \ {l}
  /\ reserved' = reserved \cup {l}
  /\ UNCHANGED <<calm, kind, phase, learned, told, conn, dials, registering, registered, discover, expected, faults>>

\* The relay refuses, or the request comes without a connection to it, as it
\* does while the relay is still being dialed: nobody asks again.
ReserveFails(l) ==
  /\ l \in reserving /\ phase[l] = "ready" /\ (~OnRelay(l) \/ ~calm)
  /\ reserving' = reserving \ {l}
  /\ UNCHANGED <<calm, kind, phase, learned, told, conn, dials, reserved, registering, registered, discover, expected, faults>>

Register(l) ==
  /\ l \in registering /\ phase[l] = "ready" /\ OnRelay(l)
  /\ registering' = registering \ {l}
  /\ registered' = registered \cup {l}
  /\ UNCHANGED <<calm, kind, phase, learned, told, conn, dials, reserving, reserved, discover, expected, faults>>

\* Only logged.
RegisterFails(l) ==
  /\ l \in registering /\ phase[l] = "ready"
  /\ ~OnRelay(l) /\ ToRelay \notin dials[l]
  /\ registering' = registering \ {l}
  /\ UNCHANGED <<calm, kind, phase, learned, told, conn, dials, reserving, reserved, registered, discover, expected, faults>>

\* Its registration stays at the relay.
ListenerStops(l) ==
  /\ Runs(l) /\ ~calm /\ faults < MaxFaults
  /\ faults' = faults + 1
  /\ Exit(l, "stopped")
  /\ reserved' = reserved \ {l}
  /\ UNCHANGED <<calm, kind, learned, told, reserving, registering, registered, discover, expected>>

\* The dial of the relay is not tried again.
RelayDialFails(x) ==
  /\ ToRelay \in dials[x] /\ ~calm /\ faults < MaxFaults
  /\ faults' = faults + 1
  /\ dials' = [dials EXCEPT ![x] = @ \ {ToRelay}]
  /\ UNCHANGED <<calm, kind, phase, learned, told, conn, lists, discover, expected>>

\* With its connection a listener loses its reservation, for good.
LoseRelay(x) ==
  /\ OnRelay(x) /\ ~calm /\ faults < MaxFaults
  /\ faults' = faults + 1
  /\ conn' = conn \ {{x, Relay}}
  /\ reserved' = reserved \ {x}
  /\ UNCHANGED <<calm, kind, phase, learned, told, dials, reserving, registering, registered, discover, expected>>

-----------------------------------------------------------------------------
ClientStep(x) ==
  \/ IdentifyReceived(x) \/ IdentifySent(x)
  \/ \E d \in dials[x] : Connected(x, d) \/ DialFails(x, d)
ListenerStep(l) ==
  \/ ListenerReady(l)
  \/ Reserve(l) \/ ReserveFails(l) \/ Register(l) \/ RegisterFails(l)
DialerStep ==
  \/ DialerIdentified \/ Discovered \/ DiscoverFailed
  \/ \E l \in Listeners : MdnsDiscovered(l)

Next ==
  \/ \E x \in Clients : Start(x) \/ ClientStep(x) \/ Deadline(x) \/ RedialRelay(x)
  \/ \E x \in Clients : \E s \in Strangers : StrangerConnects(x, s)
  \/ \E l \in Listeners : ListenerStep(l) \/ ListenerStops(l)
  \/ \E x \in Clients : LoseRelay(x) \/ RelayDialFails(x)
  \/ DialerStep

\* Swarms are polled and the network answers in the end; deadlines expire.
Fairness ==
  /\ \A x \in Clients : /\ WF_vars(IdentifyReceived(x)) /\ WF_vars(IdentifySent(x))
                        /\ WF_vars(\E d \in dials[x] : Connected(x, d) \/ DialFails(x, d))
                        /\ WF_vars(Deadline(x))
  /\ \A l \in Listeners : /\ WF_vars(ListenerReady(l))
                          /\ WF_vars(Reserve(l) \/ ReserveFails(l))
                          /\ WF_vars(Register(l) \/ RegisterFails(l))
  /\ WF_vars(DialerStep)

Spec == Init /\ [][Next]_vars /\ Fairness

-----------------------------------------------------------------------------
(* Properties.                                                             *)

(***************************************************************************)
(* Types of the variables of the set-up.                                   *)
(***************************************************************************)
TypeOK ==
  /\ calm \in Calms /\ kind \in Kinds
  /\ phase \in [Clients -> Waiting \cup {"off", "ready", "failed", "stopped"}]
  /\ learned \subseteq Clients /\ told \subseteq Clients
  /\ \A c \in conn : c \subseteq Peers /\ Cardinality(c) = 2 /\ c \cap Clients # {}
  /\ dials \in [Clients -> SUBSET Dials]
  /\ reserving \subseteq Listeners /\ reserved \subseteq Listeners
  /\ registering \subseteq Listeners /\ registered \subseteq Listeners
  /\ discover \in {"none", "sent", "answered"}
  /\ expected \in Listeners \cup {Nobody}
  /\ faults \in 0..MaxFaults

(***************************************************************************)
(* run_dial goes on to open its tunnel only with a connection to the peer  *)
(* its target stands for: the one of the address, or one that registered   *)
(* the code, whoever else connected meanwhile (swarm.rs:75-81, 128-143,    *)
(* 162-193).                                                               *)
(***************************************************************************)
FindsItsPeer ==
  [][phase[Dialer] # "ready" /\ phase'[Dialer] = "ready" =>
       /\ {Dialer, expected'} \in conn'
       /\ expected' \in (IF kind = "code" THEN Paired \cap registered ELSE {TargetPeer})]_vars

(***************************************************************************)
(* A dialer whose listener can be found finds it without the help of its   *)
(* deadlines, though other peers connect and identify themselves while it  *)
(* waits: with every registration of the code backed by a reservation, the *)
(* target reserved at the relay, or every address of the target's mDNS     *)
(* announcement reachable.  A dialer of a circuit address must also have   *)
(* its own connection to the relay before it goes on: after a stranger's   *)
(* identify (swarm.rs:36) the circuit dial may come too early, its failure *)
(* is only logged (swarm.rs:83), and nothing dials again.  The dialer of a *)
(* code needs no such condition, for its request waits for the connection. *)
(***************************************************************************)
Findable ==
  \/ kind = "code" /\ registered \cap Paired # {} /\ registered \cap Paired \subseteq reserved
  \/ kind = "circuit" /\ TargetPeer \in reserved
  \/ kind = "mdns" /\ Runs(TargetPeer) /\ Addrs[TargetPeer] \subseteq Reachable

SetsOut ==
  /\ phase[Dialer] \in {"relay", "mdns"} /\ calm
  /\ kind = "circuit" => OnRelay(Dialer)

TargetReached == SetsOut /\ Findable ~> phase[Dialer] = "ready" \/ ~Findable

(***************************************************************************)
(* The set-up ends, with a connection or an error, also when a dial that   *)
(* failed was only logged, or a discover request found nothing.  (The wait *)
(* for an mDNS announcement has no deadline.)                              *)
(***************************************************************************)
SetupEnds ==
  \A x \in Clients :
    ~calm /\ phase[x] \in {"relay", "discover", "peer"} ~> phase[x] \in {"ready", "failed", "stopped"}

(***************************************************************************)
(* README.md:167-176: the listener prints a pairing code; dial using the   *)
(* code.  A dialer that is started after the code was printed connects.    *)
(***************************************************************************)
Printed(l) == phase[l] = "ready" /\ l \in reserving \cup reserved

PrintedCodeConnects ==
  \A l \in Paired :
    <>(phase[Dialer] = "off" /\ Printed(l)) /\ <>(phase[Dialer] # "off")
      => <>(phase[Dialer] = "ready")
=============================================================================
