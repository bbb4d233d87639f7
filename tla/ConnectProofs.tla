--------------------------- MODULE ConnectProofs ---------------------------
(***************************************************************************)
(* Connect, for any listeners, strangers, addresses and bounds: IInv is    *)
(* inductive, and a dialer gets ready only with the peer it was meant to   *)
(* find.                                                                   *)
(***************************************************************************)
EXTENDS ConnectInv, FiniteSetTheorems, TLAPS

\* Two different peers make a connection of two.
LEMMA PairOfTwo == ASSUME NEW x, NEW y, x # y PROVE Cardinality({x, y}) = 2
<1>1. Cardinality({x}) = 1 /\ IsFiniteSet({x})
  BY FS_Singleton
<1>2. Cardinality({x} \cup {y}) = 2
  BY <1>1, FS_AddElement
<1>3. {x} \cup {y} = {x, y}
  OBVIOUS
<1> QED BY <1>2, <1>3

\* What a connection is.
Link == {c \in SUBSET Peers : Cardinality(c) = 2 /\ c \cap Clients # {}}

\* A client and another peer make one.
LEMMA LinkOf ==
  ASSUME NEW x \in Clients, NEW p \in Peers, x # p
  PROVE  {x, p} \in Link
BY PairOfTwo DEF Link, Peers

\* What the clients dial and meet is somebody else.
LEMMA DialsOthers ==
  ASSUME TypeOK, ListenersDialRelay, NEW x \in Clients, NEW d \in dials[x]
  PROVE  d.peer \in Peers /\ d.peer # x
<1>1. d \in Dials
  BY DEF TypeOK
<1>2. d.peer \in Listeners \cup {Relay}
  BY <1>1 DEF Dials
<1>3. CASE x \in Listeners
  BY <1>3, ConnectAssumption DEF ListenersDialRelay, ToRelay, Peers, Clients
<1>4. CASE x = Dialer
  BY <1>2, <1>4, ConnectAssumption DEF Peers, Clients
<1> QED BY <1>3, <1>4 DEF Clients

-----------------------------------------------------------------------------
(* Types.                                                                  *)

\* What the actions that make or drop connections do to them.
LEMMA NextLinks ==
  ASSUME TypeOK, ListenersDialRelay, [Next]_vars
  PROVE  conn' \subseteq Link
<1>a. conn \subseteq Link
  BY DEF TypeOK, Link
<1>1. ASSUME NEW x \in Clients, NEW p \in Peers, x # p, Established(x, p)
      PROVE  conn' \subseteq Link
  BY <1>a, <1>1, LinkOf DEF Established
<1>2. ASSUME NEW x \in Clients, NEW d \in dials[x], Connected(x, d) PROVE conn' \subseteq Link
  BY <1>1, <1>2, DialsOthers DEF Connected
<1>3. ASSUME NEW x \in Clients, NEW s \in Strangers, StrangerConnects(x, s)
      PROVE  conn' \subseteq Link
  BY <1>1, <1>3, ConnectAssumption DEF StrangerConnects, Peers
<1>4. ASSUME NEW x \in Clients, RedialRelay(x) PROVE conn' \subseteq Link
  BY <1>a, <1>4, LinkOf, ConnectAssumption DEF RedialRelay, Clients, Peers
<1>5. ASSUME conn' \subseteq conn PROVE conn' \subseteq Link
  BY <1>a, <1>5
<1>6. ASSUME NEW x \in Clients,
             \/ Start(x) \/ IdentifyReceived(x) \/ IdentifySent(x) \/ Deadline(x)
             \/ LoseRelay(x) \/ RelayDialFails(x) \/ (\E d \in dials[x] : DialFails(x, d))
      PROVE  conn' \subseteq conn
  BY <1>6 DEF Start, IdentifyReceived, IdentifySent, Deadline, LoseRelay, RelayDialFails, DialFails,
              Exit
<1>7. ASSUME NEW l \in Listeners,
             \/ ListenerReady(l) \/ Reserve(l) \/ ReserveFails(l) \/ Register(l)
             \/ RegisterFails(l) \/ ListenerStops(l) \/ MdnsDiscovered(l)
      PROVE  conn' \subseteq conn
  BY <1>7 DEF ListenerReady, Reserve, ReserveFails, Register, RegisterFails, ListenerStops,
              MdnsDiscovered, Exit
<1>8. ASSUME DialerIdentified \/ Discovered \/ DiscoverFailed \/ UNCHANGED vars
      PROVE  conn' \subseteq conn
  BY <1>8 DEF DialerIdentified, Discovered, DiscoverFailed, Exit, vars
<1> QED
  BY <1>2, <1>3, <1>4, <1>5, <1>6, <1>7, <1>8
  DEF Next, ClientStep, ListenerStep, DialerStep

\* The dials of the code are dials.
LEMMA DialsTyped ==
  /\ ToRelay \in Dials
  /\ \A l \in Listeners : OverCircuit(l) \in Dials
  /\ \A l \in Listeners : \A a \in Addrs[l] : [way |-> "lan", peer |-> l, addr |-> a] \in Dials
BY DEF ToRelay, OverCircuit, Dials

\* Types are preserved by every step.
LEMMA NextTypeOK == TypeOK /\ ListenersDialRelay /\ [Next]_vars => TypeOK'
<1> SUFFICES ASSUME TypeOK, ListenersDialRelay, [Next]_vars PROVE TypeOK'
  OBVIOUS
<1>a. \A c \in conn' : c \subseteq Peers /\ Cardinality(c) = 2 /\ c \cap Clients # {}
  BY NextLinks DEF Link
<1>b. Listeners \subseteq Clients /\ Dialer \in Clients /\ TargetPeer \in Listeners
  BY ConnectAssumption DEF Clients
<1>1. ASSUME NEW x \in Clients, Start(x) PROVE TypeOK'
  BY <1>1, <1>a, <1>b, DialsTyped DEF TypeOK, Start, Waiting, lists
<1>2. ASSUME NEW x \in Clients, IdentifyReceived(x) \/ IdentifySent(x) PROVE TypeOK'
  BY <1>2, <1>a DEF TypeOK, IdentifyReceived, IdentifySent, lists
<1>3. ASSUME NEW x \in Clients, NEW d \in dials[x], Connected(x, d) PROVE TypeOK'
  BY <1>3, <1>a DEF TypeOK, Connected, Established, lists
<1>4. ASSUME NEW x \in Clients, NEW d \in dials[x], DialFails(x, d) PROVE TypeOK'
  BY <1>4, <1>a DEF TypeOK, DialFails, lists
<1>5. ASSUME NEW x \in Clients, Deadline(x) PROVE TypeOK'
  BY <1>5, <1>a DEF TypeOK, Deadline, Exit, lists
<1>6. ASSUME NEW x \in Clients, NEW s \in Strangers, StrangerConnects(x, s) PROVE TypeOK'
  BY <1>6, <1>a DEF TypeOK, StrangerConnects, Established, lists
<1>7. ASSUME NEW l \in Listeners, ListenerReady(l) PROVE TypeOK'
  BY <1>7, <1>a, <1>b DEF TypeOK, ListenerReady
<1>8. ASSUME NEW l \in Listeners, Reserve(l) \/ ReserveFails(l) PROVE TypeOK'
  BY <1>8, <1>a DEF TypeOK, Reserve, ReserveFails
<1>9. ASSUME NEW l \in Listeners, Register(l) \/ RegisterFails(l) PROVE TypeOK'
  BY <1>9, <1>a DEF TypeOK, Register, RegisterFails
<1>10. ASSUME NEW l \in Listeners, ListenerStops(l) PROVE TypeOK'
  <2>1. faults' \in 0..MaxFaults
    BY <1>10, ConnectAssumption DEF TypeOK, ListenerStops
  <2> QED BY <1>10, <1>a, <2>1 DEF TypeOK, ListenerStops, Exit
<1>11. ASSUME NEW x \in Clients, LoseRelay(x) \/ RelayDialFails(x) PROVE TypeOK'
  BY <1>11, <1>a, ConnectAssumption DEF TypeOK, LoseRelay, RelayDialFails, lists
<1>12. CASE DialerIdentified
  BY <1>12, <1>a, <1>b, DialsTyped DEF TypeOK, DialerIdentified, Waiting, lists
<1>13. CASE Discovered
  BY <1>13, <1>a, <1>b, DialsTyped DEF TypeOK, Discovered, Waiting, lists
<1>14. CASE DiscoverFailed
  BY <1>14, <1>a DEF TypeOK, DiscoverFailed, Exit, lists
<1>15. ASSUME NEW l \in Listeners, MdnsDiscovered(l) PROVE TypeOK'
  BY <1>15, <1>a, <1>b, DialsTyped DEF TypeOK, MdnsDiscovered, Waiting, lists
<1>16. ASSUME NEW x \in Clients, RedialRelay(x) PROVE TypeOK'
  BY <1>16, <1>a DEF TypeOK, RedialRelay, lists
<1>17. CASE UNCHANGED vars
  BY <1>17, <1>a DEF TypeOK, vars
<1> QED
  BY <1>1, <1>2, <1>3, <1>4, <1>5, <1>6, <1>7, <1>8, <1>9, <1>10, <1>11, <1>12, <1>13, <1>14,
     <1>15, <1>16, <1>17
  DEF Next, ClientStep, ListenerStep, DialerStep

-----------------------------------------------------------------------------
(* Dials and waits.                                                        *)

\* A listener adds no dial but the one to the relay.
LEMMA NextListenersDialRelay == TypeOK /\ ListenersDialRelay /\ [Next]_vars => ListenersDialRelay'
<1> SUFFICES ASSUME TypeOK, ListenersDialRelay, [Next]_vars, NEW l \in Listeners
             PROVE  dials'[l] \subseteq {ToRelay}
  BY DEF ListenersDialRelay
<1>a. /\ l # Dialer /\ l \in Clients /\ dials \in [Clients -> SUBSET Dials]
      /\ dials[l] \subseteq {ToRelay}
  BY ConnectAssumption DEF TypeOK, Clients, ListenersDialRelay
<1>1. ASSUME NEW x \in Clients,
             Start(x) \/ Deadline(x) \/ RedialRelay(x) \/ RelayDialFails(x) \/ LoseRelay(x)
      PROVE  dials'[l] \subseteq {ToRelay}
  BY <1>1, <1>a DEF Start, Deadline, Exit, RedialRelay, RelayDialFails, LoseRelay
<1>2. ASSUME NEW x \in Clients, ClientStep(x) PROVE dials'[l] \subseteq {ToRelay}
  BY <1>2, <1>a DEF ClientStep, IdentifyReceived, IdentifySent, Connected, DialFails
<1>3. ASSUME NEW x \in Clients, NEW s \in Strangers, StrangerConnects(x, s)
      PROVE  dials'[l] \subseteq {ToRelay}
  BY <1>3, <1>a DEF StrangerConnects
<1>4. ASSUME NEW k \in Listeners, ListenerStep(k) \/ ListenerStops(k)
      PROVE  dials'[l] \subseteq {ToRelay}
  BY <1>4, <1>a
  DEF ListenerStep, ListenerReady, Reserve, ReserveFails, Register, RegisterFails, ListenerStops,
      Exit
<1>5. CASE DialerStep
  BY <1>5, <1>a DEF DialerStep, DialerIdentified, Discovered, DiscoverFailed, MdnsDiscovered, Exit
<1>6. CASE UNCHANGED vars
  BY <1>6, <1>a DEF vars
<1> QED BY <1>1, <1>2, <1>3, <1>4, <1>5, <1>6 DEF Next

(***************************************************************************)
(* A step leaves the dialer where it is, or takes it further; what it may  *)
(* wait for only grows.                                                    *)
(***************************************************************************)
Stays == UNCHANGED <<expected, phase[Dialer]>>
EndsWait == /\ phase[Dialer] \in {"peer", "mdns"} /\ phase'[Dialer] = "ready"
            /\ UNCHANGED expected /\ {Dialer, expected} \in conn'

LEMMA DialerMoves ==
  ASSUME TypeOK, [Next]_vars
  PROVE  /\ kind' = kind /\ registered \subseteq registered'
         /\ \/ Stays \/ EndsWait
            \/ phase'[Dialer] \in {"relay", "failed"} /\ UNCHANGED expected
            \/ phase'[Dialer] = "mdns" /\ kind = "mdns" /\ expected' = TargetPeer
            \/ DialerIdentified \/ Discovered
            \/ \E l \in Listeners : MdnsDiscovered(l)
<1> DEFINE Goal == /\ kind' = kind /\ registered \subseteq registered'
                   /\ \/ Stays \/ EndsWait
                      \/ phase'[Dialer] \in {"relay", "failed"} /\ UNCHANGED expected
                      \/ phase'[Dialer] = "mdns" /\ kind = "mdns" /\ expected' = TargetPeer
                      \/ DialerIdentified \/ Discovered
                      \/ \E l \in Listeners : MdnsDiscovered(l)
<1>a. /\ Dialer \in Clients /\ Dialer \notin Listeners
      /\ DOMAIN phase = Clients /\ phase = [x \in Clients |-> phase[x]]
  BY ConnectAssumption DEF TypeOK, Clients
<1>1. ASSUME NEW x \in Clients, Start(x) PROVE Goal
  BY <1>1, <1>a DEF Start, Stays, lists
<1>2. ASSUME NEW x \in Clients, Deadline(x) PROVE Goal
  BY <1>2, <1>a DEF Deadline, Exit, Stays, lists
<1>3. ASSUME NEW x \in Clients, NEW p, Established(x, p), UNCHANGED <<kind, registered, expected>>
      PROVE  Goal
  BY <1>3, <1>a DEF Established, Stays, EndsWait
<1>4. ASSUME NEW x \in Clients, ClientStep(x) PROVE Goal
  <2>1. ASSUME NEW d \in dials[x], Connected(x, d) PROVE Goal
    BY <1>3, <2>1 DEF Connected, lists
  <2>2. ASSUME IdentifyReceived(x) \/ IdentifySent(x) \/ \E d \in dials[x] : DialFails(x, d)
        PROVE  Goal
    BY <2>2 DEF IdentifyReceived, IdentifySent, DialFails, Stays, lists
  <2> QED BY <1>4, <2>1, <2>2 DEF ClientStep
<1>5. ASSUME NEW x \in Clients, NEW s \in Strangers, StrangerConnects(x, s) PROVE Goal
  BY <1>3, <1>5 DEF StrangerConnects, lists
<1>6. ASSUME NEW l \in Listeners, ListenerStep(l) \/ ListenerStops(l) PROVE Goal
  BY <1>6, <1>a
  DEF ListenerStep, ListenerReady, Reserve, ReserveFails, Register, RegisterFails, ListenerStops,
      Exit, Stays
<1>7. ASSUME NEW x \in Clients, RedialRelay(x) \/ LoseRelay(x) \/ RelayDialFails(x) PROVE Goal
  BY <1>7 DEF RedialRelay, LoseRelay, RelayDialFails, Stays, lists
<1>8. CASE DialerStep
  <2>1. CASE DiscoverFailed
    BY <2>1, <1>a DEF DiscoverFailed, Exit, lists
  <2>2. CASE DialerIdentified
    BY <2>2 DEF DialerIdentified, lists
  <2>3. CASE Discovered
    BY <2>3 DEF Discovered, lists
  <2>4. ASSUME NEW l \in Listeners, MdnsDiscovered(l) PROVE Goal
    <3>1. kind' = kind /\ registered' = registered
      BY <2>4 DEF MdnsDiscovered, lists
    <3> QED BY <2>4, <3>1
  <2> QED BY <1>8, <2>1, <2>2, <2>3, <2>4 DEF DialerStep
<1>9. CASE UNCHANGED vars
  BY <1>9 DEF vars, Stays
<1> QED BY <1>1, <1>2, <1>4, <1>5, <1>6, <1>7, <1>8, <1>9 DEF Next

\* The dialer waits for a peer its target stands for, after every step.
LEMMA NextWaitsForMeant == TypeOK /\ WaitsForMeant /\ [Next]_vars => WaitsForMeant'
<1> SUFFICES ASSUME TypeOK, WaitsForMeant, [Next]_vars PROVE WaitsForMeant'
  OBVIOUS
<1>a. /\ kind' = kind /\ Meant \subseteq Meant'
      /\ kind # "code" => TargetPeer \in Meant'
      /\ kind = "code" => Paired \cap registered \subseteq Meant'
  BY DialerMoves DEF Meant
<1>b. phase \in [Clients -> Waiting \cup {"off", "ready", "failed", "stopped"}] /\ Dialer \in Clients
  BY DEF TypeOK, Clients
<1>1. CASE Stays \/ EndsWait
  BY <1>a, <1>1 DEF Stays, EndsWait, WaitsForMeant
<1>2. CASE phase'[Dialer] \in {"relay", "failed"} /\ UNCHANGED expected
  BY <1>2 DEF WaitsForMeant
<1>3. CASE phase'[Dialer] = "mdns" /\ kind = "mdns" /\ expected' = TargetPeer
  BY <1>a, <1>3 DEF WaitsForMeant
<1>4. CASE DialerIdentified
  BY <1>a, <1>b, <1>4 DEF DialerIdentified, WaitsForMeant
<1>5. CASE Discovered
  BY <1>a, <1>b, <1>5 DEF Discovered, WaitsForMeant
<1>6. ASSUME NEW l \in Listeners, MdnsDiscovered(l) PROVE WaitsForMeant'
  BY <1>a, <1>b, <1>6 DEF MdnsDiscovered, WaitsForMeant
<1> QED BY DialerMoves, <1>1, <1>2, <1>3, <1>4, <1>5, <1>6

-----------------------------------------------------------------------------
(* The theorems.                                                           *)

(***************************************************************************)
(* The inductive invariant of the set-up holds in every reachable state.   *)
(***************************************************************************)
THEOREM Inductive == Spec => []IInv
<1>1. Init => IInv
  BY ConnectAssumption DEF Init, IInv, TypeOK, WaitsForMeant, ListenersDialRelay, Waiting, Clients
<1>2. IInv /\ [Next]_vars => IInv'
  BY NextTypeOK, NextWaitsForMeant, NextListenersDialRelay DEF IInv
<1> QED BY <1>1, <1>2, PTL DEF Spec

(***************************************************************************)
(* The variables of the set-up keep their types; a connection is always of *)
(* a client and another peer.                                              *)
(***************************************************************************)
THEOREM TypeCorrect == Spec => []TypeOK
<1>1. IInv => TypeOK
  BY DEF IInv
<1> QED BY Inductive, <1>1, PTL

(***************************************************************************)
(* run_dial goes on only with a connection to a peer that its target       *)
(* stands for, whoever else connected (swarm.rs:75-81, 128-143, 162-193).  *)
(***************************************************************************)
THEOREM RightPeerFound == Spec => FindsItsPeer
<1> DEFINE Found == phase[Dialer] # "ready" /\ phase'[Dialer] = "ready" =>
                      /\ {Dialer, expected'} \in conn'
                      /\ expected' \in (IF kind = "code" THEN Paired \cap registered
                                                         ELSE {TargetPeer})
<1>1. IInv /\ [Next]_vars => Found
  <2> SUFFICES ASSUME IInv, [Next]_vars, phase[Dialer] # "ready", phase'[Dialer] = "ready"
               PROVE  EndsWait /\ expected \in Meant
    BY DEF EndsWait, Meant
  <2>1. phase \in [Clients -> Waiting \cup {"off", "ready", "failed", "stopped"}]
        /\ Dialer \in Clients
    BY DEF IInv, TypeOK, Clients
  <2>2. ~(DialerIdentified \/ Discovered \/ \E l \in Listeners : MdnsDiscovered(l))
    BY <2>1 DEF DialerIdentified, Discovered, MdnsDiscovered
  <2>3. EndsWait
    BY <2>2, DialerMoves DEF IInv, Stays
  <2> QED BY <2>3 DEF EndsWait, IInv, WaitsForMeant
<1>2. Found => [Found]_vars
  OBVIOUS
<1> QED BY Inductive, <1>1, <1>2, PTL DEF Spec, FindsItsPeer
=============================================================================
