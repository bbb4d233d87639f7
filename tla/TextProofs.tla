----------------------------- MODULE TextProofs -----------------------------
(***************************************************************************)
(* The laws of MCMultiaddr for texts of every length: the relay a dialer   *)
(* reads out of a circuit address, the way back from what a listener       *)
(* prints, and the prompts against the command line.  The bounds MaxLen    *)
(* and MaxOther play no part: all that is used of a text is that it is a   *)
(* sequence of pieces.                                                     *)
(***************************************************************************)
EXTENDS MCMultiaddr, MultiaddrProofs, FiniteSetTheorems

\* Every text is a sequence of pieces.
Text == addr \in Seq(Piece)

LEMMA TextInvariant == Spec => []Text
<1>1. Init => Text
  BY DEF Init, Text
<1>2. Text /\ [Next]_addr => Text'
  BY DEF Text, Next, Push
<1> QED BY <1>1, <1>2, PTL DEF Spec

\* A multiaddr is one whose pieces are components.
LEMMA Multiaddrs ==
  ASSUME NEW s \in Seq(Piece)
  PROVE  IsMultiaddr(s) <=> s \in Address
<1>1. DOMAIN s = 1..Len(s)
  OBVIOUS
<1>2. ASSUME IsMultiaddr(s)
      PROVE  s \in Address
  <2>1. \A i \in 1..Len(s) : s[i] \in Component
    BY <1>1, <1>2 DEF IsMultiaddr
  <2>2. Len(s) \in Nat /\ s = [i \in 1..Len(s) |-> s[i]]
    OBVIOUS
  <2> QED BY <2>1, <2>2 DEF Address
<1>3. ASSUME s \in Address
      PROVE  IsMultiaddr(s)
  BY <1>1, <1>3 DEF IsMultiaddr, Address
<1> QED BY <1>2, <1>3

\* The last component of a kind.
LEMMA LastOfProperties ==
  ASSUME NEW a \in Address, NEW proto, Has(a, proto)
  PROVE  /\ LastOf(a, proto) \in 1..Len(a)
         /\ a[LastOf(a, proto)].proto = proto
<1> DEFINE T == {k \in Nat : Len(a) - k \in 1..Len(a) /\ a[Len(a) - k].proto = proto}
<1>1. DOMAIN a = 1..Len(a) /\ Len(a) \in Nat
  BY DEF Address
<1>2. T \subseteq Nat /\ T # {}
  <2>1. PICK i \in 1..Len(a) : a[i].proto = proto
    BY <1>1 DEF Has
  <2>2. Len(a) - i \in Nat /\ Len(a) - (Len(a) - i) = i
    BY <1>1
  <2>3. Len(a) - i \in T
    BY <2>1, <2>2
  <2> QED BY <2>3
<1>3. PICK k \in T : \A y \in T : k <= y
  <2> HIDE DEF T
  <2> QED BY <1>2, LeastExists
<1>4. /\ Len(a) - k \in DOMAIN a
      /\ a[Len(a) - k].proto = proto
      /\ \A j \in (Len(a) - k + 1)..Len(a) : a[j].proto # proto
  <2>1. ASSUME NEW j \in (Len(a) - k + 1)..Len(a), a[j].proto = proto
        PROVE  FALSE
    <3>1. Len(a) - j \in Nat /\ Len(a) - (Len(a) - j) = j /\ j \in 1..Len(a)
      BY <1>1
    <3>2. Len(a) - j \in T
      BY <2>1, <3>1
    <3>3. k <= Len(a) - j /\ k \in Nat
      BY <1>3, <3>2
    <3> QED BY <1>1, <3>1, <3>3
  <2> QED BY <1>1, <2>1
<1> QED BY <1>1, <1>4 DEF LastOf

\* The first component of a kind is the only one with none before it.
LEMMA FirstOfIs ==
  ASSUME NEW a \in Address, NEW proto, NEW i \in 1..Len(a),
         a[i].proto = proto, \A j \in 1..(i - 1) : a[j].proto # proto
  PROVE  Has(a, proto) /\ FirstOf(a, proto) = i
<1>1. DOMAIN a = 1..Len(a) /\ Len(a) \in Nat
  BY DEF Address
<1>2. Has(a, proto)
  BY <1>1 DEF Has
<1>3. /\ FirstOf(a, proto) \in 1..Len(a)
      /\ a[FirstOf(a, proto)].proto = proto
      /\ \A j \in 1..(FirstOf(a, proto) - 1) : a[j].proto # proto
  BY <1>2, FirstOfProperties
<1>4. ~(FirstOf(a, proto) < i) /\ ~(i < FirstOf(a, proto))
  BY <1>1, <1>3
<1> QED BY <1>1, <1>2, <1>3, <1>4

\* Reading a part of an address that holds the first of a kind.
LEMMA PrefixKeepsFirst ==
  ASSUME NEW a \in Address, NEW k \in 1..Len(a), NEW proto, Has(SubSeq(a, 1, k - 1), proto)
  PROVE  /\ Has(a, proto)
         /\ FirstOf(a, proto) = FirstOf(SubSeq(a, 1, k - 1), proto)
         /\ a[FirstOf(a, proto)] = SubSeq(a, 1, k - 1)[FirstOf(a, proto)]
<1> DEFINE b == SubSeq(a, 1, k - 1)
<1>1. b \in Address /\ Len(b) = k - 1 /\ \A i \in 1..(k - 1) : b[i] = a[i]
  BY DEF Address
<1> HIDE DEF b
<1>2. Has(b, proto)
  BY DEF b
<1>3. /\ FirstOf(b, proto) \in 1..(k - 1)
      /\ b[FirstOf(b, proto)].proto = proto
      /\ \A j \in 1..(FirstOf(b, proto) - 1) : b[j].proto # proto
  BY <1>1, <1>2, FirstOfProperties
<1>4. Len(a) \in Nat
  BY DEF Address
<1>5. /\ FirstOf(b, proto) \in 1..Len(a)
      /\ a[FirstOf(b, proto)].proto = proto
      /\ \A j \in 1..(FirstOf(b, proto) - 1) : a[j].proto # proto
  BY <1>1, <1>3, <1>4
<1>6. Has(a, proto) /\ FirstOf(a, proto) = FirstOf(b, proto)
  BY <1>5, FirstOfIs
<1> QED BY <1>1, <1>3, <1>6 DEF b

-----------------------------------------------------------------------------
(* The relay of a circuit address.                                         *)

\* The circuit address of a relay and a listener, read.
LEMMA ParsedParts ==
  ASSUME NEW a \in Address, IsOk(RelayBaseFromCircuitAddress(a))
  PROVE  /\ RelayBaseFromCircuitAddress(a) =
              [base     |-> RelayBase(a),
               listener |-> ListenerPart(a)[LastOf(ListenerPart(a), "p2p")].peer]
         /\ Has(a, "p2p-circuit") /\ Has(ListenerPart(a), "p2p")
         /\ Has(RelayBase(a), "p2p") /\ ValidRelayAddress(RelayBase(a))
BY DEF RelayBaseFromCircuitAddress, IsOk

(***************************************************************************)
(* For addresses of every length, the base run_dial connects to            *)
(* (types.rs:122) and the whole address it then dials mean the same relay. *)
(***************************************************************************)
THEOREM BaseIsTheRelay == Spec => []ParsedBaseIsTheRelay
<1>1. Text => ParsedBaseIsTheRelay
  <2> SUFFICES ASSUME Text, IsMultiaddr(addr), IsOk(Parsed)
               PROVE  /\ ValidRelayAddress(Parsed.base)
                      /\ ~Has(Parsed.base, "p2p-circuit")
                      /\ PeerIdFromMultiaddr(addr) = PeerIdFromMultiaddr(Parsed.base)
                      /\ Parsed.listener \in Peer
    BY DEF ParsedBaseIsTheRelay
  <2>1. addr \in Address
    BY Multiaddrs DEF Text
  <2>2. /\ Parsed = [base     |-> RelayBase(addr),
                     listener |-> ListenerPart(addr)[LastOf(ListenerPart(addr), "p2p")].peer]
        /\ Has(addr, "p2p-circuit") /\ Has(ListenerPart(addr), "p2p")
        /\ Has(RelayBase(addr), "p2p") /\ ValidRelayAddress(RelayBase(addr))
    BY <2>1, ParsedParts DEF Parsed
  <2> DEFINE k == FirstOf(addr, "p2p-circuit")
  <2>3. k \in 1..Len(addr) /\ \A j \in 1..(k - 1) : addr[j].proto # "p2p-circuit"
    BY <2>1, <2>2, FirstOfProperties
  <2>4. RelayBase(addr) = SubSeq(addr, 1, k - 1) /\ ListenerPart(addr) = SubSeq(addr, k + 1, Len(addr))
    BY DEF RelayBase, ListenerPart
  <2> HIDE DEF k
  <2>5. ~Has(RelayBase(addr), "p2p-circuit")
    <3>1. /\ DOMAIN SubSeq(addr, 1, k - 1) = 1..(k - 1)
          /\ \A i \in 1..(k - 1) : SubSeq(addr, 1, k - 1)[i] = addr[i]
      BY <2>1, <2>3 DEF Address
    <3> QED BY <2>3, <2>4, <3>1 DEF Has
  <2>6. PeerIdFromMultiaddr(addr) = PeerIdFromMultiaddr(RelayBase(addr))
    <3>1. Has(SubSeq(addr, 1, k - 1), "p2p")
      BY <2>2, <2>4
    <3>2. /\ Has(addr, "p2p")
          /\ FirstOf(addr, "p2p") = FirstOf(RelayBase(addr), "p2p")
          /\ addr[FirstOf(addr, "p2p")] = RelayBase(addr)[FirstOf(addr, "p2p")]
      BY <2>1, <2>3, <2>4, <3>1, PrefixKeepsFirst
    <3> QED BY <2>2, <3>2 DEF PeerIdFromMultiaddr
  <2>7. ListenerPart(addr)[LastOf(ListenerPart(addr), "p2p")].peer \in Peer
    <3>1. ListenerPart(addr) \in Address
      BY <2>1, <2>3, <2>4 DEF Address
    <3>2. ASSUME NEW c \in Component, c.proto = "p2p"
          PROVE  c.peer \in Peer
      BY <3>2 DEF Component, Transport
    <3>3. ASSUME NEW b \in Address, NEW i \in 1..Len(b)
          PROVE  b[i] \in Component
      BY DEF Address
    <3> QED BY <2>2, <3>1, <3>2, <3>3, LastOfProperties
  <2> QED BY <2>2, <2>5, <2>6, <2>7
<1> QED BY <1>1, TextInvariant, PTL

-----------------------------------------------------------------------------
(* What a listener prints.                                                 *)

\* A multiaddr is neither a code nor an mDNS target.
LEMMA CircuitTarget ==
  ASSUME NEW a \in Address
  PROVE  ~IsPairingCode(a) /\ DialTarget(a) = [via |-> "circuit", addr |-> a]
<1>1. \A i \in 1..Len(a) : a[i] \in Component
  BY DEF Address
<1>2. \A c \in Component : c.proto # "number" /\ c.proto # "mdns"
  BY DEF Component, Transport
<1>3. DOMAIN a = 1..Len(a) /\ Len(a) \in Nat /\ (a # << >> => 1 \in 1..Len(a))
  BY DEF Address
<1>4. ~IsPairingCode(a)
  BY <1>1, <1>2, <1>3 DEF IsPairingCode
<1>5. ~(a # << >> /\ a[1].proto = "mdns")
  BY <1>1, <1>2, <1>3
<1>6. IsMultiaddr(a)
  BY <1>1, <1>3 DEF IsMultiaddr
<1> QED BY <1>4, <1>5, <1>6 DEF DialTarget

\* The target of the LAN is read as the peer it names.
LEMMA MdnsTarget ==
  ASSUME NEW p \in Peer
  PROVE  DialTarget(Mdns(p)) = [via |-> "mdns", peer |-> p]
<1>1. Len(Mdns(p)) = 1 /\ Mdns(p) # << >> /\ Mdns(p)[1].proto = "mdns" /\ Mdns(p)[1].peer = p
  BY DEF Mdns
<1>2. ~IsPairingCode(Mdns(p))
  BY <1>1 DEF IsPairingCode
<1>3. p # NoPeer
  BY NoPeerAssumption
<1> QED BY <1>1, <1>2, <1>3 DEF DialTarget

\* The address a listener prints is read as its relay and its peer.
LEMMA PrintedAddress ==
  ASSUME NEW a \in Address, ~Has(a, "p2p-circuit"), ValidRelayAddress(a), NEW me \in Peer
  PROVE  /\ DialAddress(a, me) \in Address
         /\ RelayBaseFromCircuitAddress(DialAddress(a, me)) = [base |-> a, listener |-> me]
<1> DEFINE s == DialAddress(a, me)
           n == Len(a)
<1>1. Circuit \in Component /\ P2p(me) \in Component
  BY DEF Circuit, P2p, Component
<1>2. /\ s \in Address /\ Len(s) = n + 2 /\ n \in Nat
      /\ \A i \in 1..n : s[i] = a[i]
      /\ s[n + 1] = Circuit /\ s[n + 2] = P2p(me)
  BY <1>1 DEF DialAddress, Address
<1>3. DOMAIN a = 1..n
  BY DEF Address
<1> HIDE DEF s
<1>4. Has(s, "p2p-circuit") /\ FirstOf(s, "p2p-circuit") = n + 1
  <2>1. n + 1 \in 1..Len(s) /\ s[n + 1].proto = "p2p-circuit"
    BY <1>2 DEF Circuit
  <2>2. \A j \in 1..((n + 1) - 1) : s[j].proto # "p2p-circuit"
    BY <1>2, <1>3 DEF Has
  <2> QED BY <1>2, <2>1, <2>2, FirstOfIs
<1>5. RelayBase(s) = a
  <2>1. RelayBase(s) = SubSeq(s, 1, n)
    BY <1>2, <1>4 DEF RelayBase
  <2>2. /\ SubSeq(s, 1, n) \in Seq(Component) /\ Len(SubSeq(s, 1, n)) = n
        /\ \A i \in 1..n : SubSeq(s, 1, n)[i] = s[i]
    BY <1>2 DEF Address
  <2> QED BY <1>2, <2>1, <2>2 DEF Address
<1>6. ListenerPart(s) = <<P2p(me)>>
  <2>1. ListenerPart(s) = SubSeq(s, n + 2, n + 2)
    BY <1>2, <1>4 DEF ListenerPart
  <2>2. /\ SubSeq(s, n + 2, n + 2) \in Seq(Component) /\ Len(SubSeq(s, n + 2, n + 2)) = 1
        /\ SubSeq(s, n + 2, n + 2)[1] = s[n + 2]
    BY <1>2 DEF Address
  <2>3. <<P2p(me)>> \in Seq(Component) /\ Len(<<P2p(me)>>) = 1 /\ <<P2p(me)>>[1] = P2p(me)
    BY <1>1
  <2>4. ASSUME NEW u \in Seq(Component), NEW v \in Seq(Component),
               Len(u) = 1, Len(v) = 1, u[1] = v[1]
        PROVE  u = v
    BY <2>4
  <2> QED BY <1>2, <2>1, <2>2, <2>3, <2>4
<1>7. Has(<<P2p(me)>>, "p2p")
  BY DEF Has, P2p
<1>8. LastOf(<<P2p(me)>>, "p2p") = 1
  <2>1. <<P2p(me)>> \in Address /\ Len(<<P2p(me)>>) = 1
    BY <1>1 DEF Address
  <2> QED BY <1>7, <2>1, LastOfProperties
<1>9. <<P2p(me)>>[1].peer = me
  BY DEF P2p
<1> QED BY <1>2, <1>4, <1>5, <1>6, <1>7, <1>8, <1>9
        DEF s, RelayBaseFromCircuitAddress, ValidRelayAddress

\* Dialing with no option but the target.
LEMMA PlainDial ==
  ASSUME NEW s
  PROVE  CliDial(s, {}, {}) = RunDial([target |-> DialTarget(s), relay |-> {}, flags |-> {}])
<1>1. Cardinality({}) = 0
  BY FS_EmptySet
<1> QED BY <1>1 DEF CliDial

\* A circuit address that was printed leads back.
LEMMA CircuitLeadsBack ==
  ASSUME NEW a \in Address, ~Has(a, "p2p-circuit"), ValidRelayAddress(a), NEW me \in Peer
  PROVE  LET d == CliDial(DialAddress(a, me), {}, {})
         IN  d # Error /\ d.peer = me /\ d.via = "circuit" /\ d.relay = a
<1> DEFINE s == DialAddress(a, me)
           opt == [target |-> DialTarget(s), relay |-> {}, flags |-> {}]
<1>1. s \in Address /\ RelayBaseFromCircuitAddress(s) = [base |-> a, listener |-> me]
  BY PrintedAddress
<1> HIDE DEF s
<1>2. opt.target = [via |-> "circuit", addr |-> s]
  BY <1>1, CircuitTarget
<1>3. RunDial(opt) = [via |-> "circuit", mode |-> DialMode(opt.flags), relay |-> a, peer |-> me]
  <2> HIDE DEF opt
  <2> QED BY <1>1, <1>2 DEF RunDial
<1>4. CliDial(s, {}, {}) = RunDial(opt)
  BY PlainDial
<1> HIDE DEF opt
<1>5. CliDial(s, {}, {}) = [via |-> "circuit", mode |-> DialMode(opt.flags), relay |-> a, peer |-> me]
  BY <1>3, <1>4
<1> QED BY <1>5 DEF s, Error

\* So does an mDNS target.
LEMMA MdnsLeadsBack ==
  ASSUME NEW me \in Peer
  PROVE  LET d == CliDial(Mdns(me), {}, {})
         IN  d # Error /\ d.peer = me /\ d.via = "mdns"
<1> DEFINE s == Mdns(me)
           opt == [target |-> DialTarget(s), relay |-> {}, flags |-> {}]
<1>1. DialTarget(s) = [via |-> "mdns", peer |-> me]
  BY MdnsTarget
<1>2. CliDial(s, {}, {}) = RunDial(opt)
  BY PlainDial
<1>3. RunDial(opt) = [via |-> "mdns", mode |-> DialMode(opt.flags), peer |-> me]
  <2>1. opt.target = [via |-> "mdns", peer |-> me]
    BY <1>1
  <2> HIDE DEF opt
  <2> QED BY <2>1 DEF RunDial
<1> HIDE DEF opt
<1>4. CliDial(s, {}, {}) = [via |-> "mdns", mode |-> DialMode(opt.flags), peer |-> me]
  BY <1>2, <1>3
<1> QED BY <1>4 DEF Error

\* And a code that has the form of one, to the registry of the listener.
LEMMA CodeLeadsBack ==
  ASSUME NEW a \in Address, ValidRelayAddress(a), NEW s, IsPairingCode(s)
  PROVE  LET d == CliDial(s, {a}, {})
         IN  d.via = "code" /\ d.code = s /\ d.registry = PeerIdFromMultiaddr(a)
<1> DEFINE opt == [target |-> DialTarget(s), relay |-> {a}, flags |-> {}]
<1>1. CliDial(s, {a}, {}) = RunDial(opt)
  <2>1. IsMultiaddr(a)
    BY DEF IsMultiaddr, Address
  <2>2. Cardinality({}) = 0
    BY FS_EmptySet
  <2> QED BY <2>1, <2>2 DEF CliDial
<1>2. opt.target = [via |-> "code", code |-> s] /\ opt.relay = {a}
  BY DEF DialTarget
<1>3. RunDial(opt) = [via |-> "code", mode |-> DialMode(opt.flags), relay |-> a, code |-> s,
                      registry |-> PeerIdFromMultiaddr(a)]
  <2>1. \E x \in opt.relay : Has(x, "p2p")
    BY <1>2 DEF ValidRelayAddress
  <2>2. (CHOOSE x \in opt.relay : TRUE) = a
    BY <1>2
  <2> HIDE DEF opt
  <2> QED BY <1>2, <2>1, <2>2 DEF RunDial
<1> HIDE DEF opt
<1> QED BY <1>1, <1>3

\* A listener's targets, for any relay and code.
LEMMA ListenersTargets ==
  ASSUME NEW relay, NEW code, NEW me \in Peer,
         relay = {} \/ \E a \in Address : relay = {a} /\ ~Has(a, "p2p-circuit"),
         code = {} \/ \E s : code = {s}
  PROVE  LeadsBack(relay, code, me)
<1> DEFINE l == RunListen(relay, code, me)
<1>1. ASSUME l # Error
      PROVE  /\ \A a \in relay : ValidRelayAddress(a)
             /\ l = [via      |-> "listen",
                     codes    |-> IF relay = {} THEN {} ELSE IF code = {} THEN Generate ELSE code,
                     prints   |-> {Mdns(me)} \cup {DialAddress(a, me) : a \in relay},
                     registry |-> {PeerIdFromMultiaddr(a) : a \in relay}]
  BY <1>1 DEF RunListen
<1>2. ASSUME l # Error, NEW s \in l.prints
      PROVE  LET d == CliDial(s, {}, {})
             IN  d # Error /\ d.peer = me /\ (d.via = "circuit" => d.relay \in relay)
  <2>1. s = Mdns(me) \/ \E a \in relay : s = DialAddress(a, me)
    BY <1>1, <1>2
  <2>2. CASE s = Mdns(me)
    BY <2>2, MdnsLeadsBack
  <2>3. ASSUME NEW a \in relay, s = DialAddress(a, me)
        PROVE  LET d == CliDial(s, {}, {})
               IN  d # Error /\ d.peer = me /\ (d.via = "circuit" => d.relay \in relay)
    <3>1. a \in Address /\ ~Has(a, "p2p-circuit") /\ ValidRelayAddress(a)
      BY <1>1, <1>2
    <3> QED BY <2>3, <3>1, CircuitLeadsBack
  <2> QED BY <2>1, <2>2, <2>3
<1>3. ASSUME l # Error, NEW s \in l.codes
      PROVE  LET d == CliDial(s, relay, {})
             IN  \/ s \in code /\ ~IsPairingCode(s)
                 \/ d.via = "code" /\ d.code = s /\ d.registry \in l.registry
  <2>1. l.codes = IF relay = {} THEN {} ELSE IF code = {} THEN Generate ELSE code
    BY <1>1, <1>3
  <2>2. PICK a \in Address : relay = {a}
    BY <1>3, <2>1
  <2>3. ValidRelayAddress(a) /\ PeerIdFromMultiaddr(a) \in l.registry
    BY <1>1, <1>3, <2>2
  <2>4. s \in code \/ IsPairingCode(s)
    BY <1>3, <2>1 DEF Generate, IsPairingCode, Part
  <2>5. ASSUME IsPairingCode(s)
        PROVE  LET d == CliDial(s, relay, {})
               IN  d.via = "code" /\ d.code = s /\ d.registry \in l.registry
    BY <2>2, <2>3, <2>5, CodeLeadsBack
  <2> QED BY <2>4, <2>5
<1> QED BY <1>2, <1>3 DEF LeadsBack

(***************************************************************************)
(* Whatever a listener prints leads `sape dial` back to it (listen.rs:49,  *)
(* 57-64), for a relay address of any length and a code of any text.       *)
(***************************************************************************)
THEOREM LeadBack == Spec => []TargetsLeadBack
<1>1. Text => TargetsLeadBack
  <2> SUFFICES ASSUME Text, NEW me \in Peer
               PROVE  /\ LeadsBack({}, {}, me)
                      /\ IsMultiaddr(addr) /\ ~Has(addr, "p2p-circuit") => LeadsBack({addr}, {}, me)
                      /\ addr # << >> => LeadsBack({<<Part("tcp"), P2p(me)>>}, {addr}, me)
    BY DEF TargetsLeadBack
  <2>1. LeadsBack({}, {}, me)
    BY ListenersTargets
  <2>2. ASSUME IsMultiaddr(addr), ~Has(addr, "p2p-circuit")
        PROVE  LeadsBack({addr}, {}, me)
    <3>1. addr \in Address
      BY <2>2, Multiaddrs DEF Text
    <3> QED BY <2>2, <3>1, ListenersTargets
  <2>3. LeadsBack({<<Part("tcp"), P2p(me)>>}, {addr}, me)
    <3> DEFINE a == <<Part("tcp"), P2p(me)>>
    <3>1. Part("tcp") \in Component /\ P2p(me) \in Component
      BY DEF Part, P2p, Component, Transport
    <3>2. a \in Address /\ ~Has(a, "p2p-circuit")
      BY <3>1 DEF Address, Has, Part, P2p
    <3> HIDE DEF a
    <3>3. LeadsBack({a}, {addr}, me)
      BY <3>2, ListenersTargets
    <3> QED BY <3>3 DEF a
  <2> QED BY <2>1, <2>2, <2>3
<1> QED BY <1>1, TextInvariant, PTL

-----------------------------------------------------------------------------
(* The prompts.                                                            *)

\* What a prompt asked for is what the command line would have parsed.
LEMMA PromptTarget ==
  ASSUME NEW s \in Seq(Piece), NEW relay, NEW conn \in {"circuit", "mdns", "code"},
         "target" \in DOMAIN Prompt(conn, s, relay), conn = "code" => IsPairingCode(s)
  PROVE  /\ Prompt(conn, s, relay).target = DialTarget(Typed(conn, s))
         /\ Prompt(conn, s, relay).relay = IF conn = "code" THEN {relay} ELSE {}
         /\ conn = "code" => IsMultiaddr(relay)
<1>0. "target" \notin DOMAIN Error
  BY DEF Error
<1>1. CASE conn = "circuit"
  <2>1. /\ s # << >> /\ IsMultiaddr(s)
        /\ Prompt(conn, s, relay) = [target |-> [via |-> "circuit", addr |-> s], relay |-> {}]
    BY <1>0, <1>1 DEF Prompt
  <2>2. s \in Address
    BY <2>1, Multiaddrs
  <2> QED BY <1>1, <2>1, <2>2, CircuitTarget DEF Typed
<1>2. CASE conn = "mdns"
  <2>1. /\ Len(s) = 1 /\ s[1].proto = "peer"
        /\ Prompt(conn, s, relay) = [target |-> [via |-> "mdns", peer |-> s[1].peer], relay |-> {}]
    BY <1>0, <1>2 DEF Prompt
  <2>2. s[1] \in Piece /\ s # << >>
    <3>1. Len(s) = 1
      BY <2>1
    <3> QED BY <3>1
  <2>3. s[1].peer \in Peer
    BY <2>1, <2>2 DEF Piece, Component, Transport, CodePart, PeerPart, MdnsPart
  <2>4. Typed(conn, s) = Mdns(s[1].peer)
    BY <1>2, <2>2 DEF Typed
  <2>5. DialTarget(Mdns(s[1].peer)) = [via |-> "mdns", peer |-> s[1].peer]
    BY <2>3, MdnsTarget
  <2> QED BY <1>2, <2>1, <2>4, <2>5
<1>3. CASE conn = "code"
  <2>1. /\ IsMultiaddr(relay)
        /\ Prompt(conn, s, relay) = [target |-> [via |-> "code", code |-> s], relay |-> {relay}]
    BY <1>0, <1>3 DEF Prompt
  <2>2. DialTarget(s) = [via |-> "code", code |-> s] /\ Typed(conn, s) = s
    BY <1>3 DEF DialTarget, Typed
  <2> QED BY <1>3, <2>1, <2>2
<1> QED BY <1>1, <1>2, <1>3

(***************************************************************************)
(* The prompts and the command line run the same dial for the same answers *)
(* (interactive.rs, cli.rs:59), whatever is typed.                         *)
(***************************************************************************)
THEOREM SameDial == Spec => []PromptsAgree
<1>1. Text => PromptsAgree
  <2> SUFFICES ASSUME Text, NEW mode \in {"netcat", "local", "reverse", "socks5"},
                      NEW relay \in Relays, NEW conn \in {"circuit", "mdns", "code"},
                      "target" \in DOMAIN Prompt(conn, addr, relay),
                      conn = "code" => IsPairingCode(addr)
               PROVE  PromptDial(conn, addr, relay, mode)
                        = CliDial(Typed(conn, addr), IF conn = "code" THEN {relay} ELSE {}, Flags(mode))
    BY ZenonT(40) DEF PromptsAgree
  <2> DEFINE p == Prompt(conn, addr, relay)
             r == IF conn = "code" THEN {relay} ELSE {}
             s == Typed(conn, addr)
  <2>1. p.target = DialTarget(s) /\ p.relay = r /\ \A a \in r : IsMultiaddr(a)
    BY PromptTarget DEF Text
  <2>2. Cardinality(Flags(mode)) \in {0, 1}
    <3>1. CASE mode = "netcat"
      BY <3>1, FS_EmptySet DEF Flags
    <3>2. ASSUME NEW x, Flags(mode) = {x}
          PROVE  Cardinality(Flags(mode)) = 1
      <4>1. Cardinality({x}) = 1
        BY FS_Singleton
      <4> QED BY <3>2, <4>1
    <3>3. mode # "netcat" => \E x : Flags(mode) = {x}
      BY DEF Flags
    <3> QED BY <3>1, <3>2, <3>3
  <2>3. ~(Cardinality(Flags(mode)) > 1)
    BY <2>2
  <2>4. PromptDial(conn, addr, relay, mode)
          = RunDial([target |-> p.target, relay |-> p.relay, flags |-> Flags(mode)])
    BY DEF PromptDial
  <2> HIDE DEF p, r, s
  <2>5. CliDial(s, r, Flags(mode))
          = RunDial([target |-> DialTarget(s), relay |-> r, flags |-> Flags(mode)])
    BY <2>1, <2>3 DEF CliDial
  <2> QED BY <2>1, <2>4, <2>5 DEF r, s
<1> QED BY <1>1, TextInvariant, PTL
=============================================================================
