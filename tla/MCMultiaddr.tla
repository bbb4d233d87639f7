---------------------------- MODULE MCMultiaddr ----------------------------
(***************************************************************************)
(* Every multiaddr of at most MaxLen components and every other text of at *)
(* most MaxOther pieces, written one piece at a time, and the laws that    *)
(* tie together the readers and writers of texts.                          *)
(***************************************************************************)
EXTENDS CommandLine

CONSTANTS MaxLen, MaxOther   \* bounds on the number of pieces

VARIABLE addr

Init == addr = << >>

\* Protocol::with / Multiaddr::push, as relay.rs and listen.rs build addresses.
Push(c) == /\ Len(addr) < MaxLen
           /\ addr' = Append(addr, c)
           /\ IsMultiaddr(addr') \/ Len(addr') <= MaxOther

Next == \E c \in Piece : Push(c)

Spec == Init /\ [][Next]_addr

Parsed == RelayBaseFromCircuitAddress(addr)

IsOk(r) == "base" \in DOMAIN r

(***************************************************************************)
(* run_dial connects to the base it parsed and then dials the whole        *)
(* address: both must mean the same relay.  The base is an address that    *)
(* run_listen would take, goes through no other relay, and the first peer  *)
(* of the whole address is the base's.                                     *)
(***************************************************************************)
ParsedBaseIsTheRelay ==
  IsMultiaddr(addr) /\ IsOk(Parsed) =>
    /\ ValidRelayAddress(Parsed.base)
    /\ ~Has(Parsed.base, "p2p-circuit")
    /\ PeerIdFromMultiaddr(addr) = PeerIdFromMultiaddr(Parsed.base)
    /\ Parsed.listener \in Peer

(***************************************************************************)
(* Whatever a listener prints leads `sape dial` back to it (listen.rs:49,  *)
(* 57-64, types.rs:165, dial.rs:104-125): a LAN or circuit address to its  *)
(* peer id over its relay, and a code to the registry and namespace of its *)
(* registration.  A code chosen with --code is a target only when it has   *)
(* the form of a generated one.                                            *)
(***************************************************************************)
LeadsBack(relay, code, me) ==
  LET l == RunListen(relay, code, me)
  IN  l # Error =>
        /\ \A s \in l.prints :
             LET d == CliDial(s, {}, {})
             IN  d # Error /\ d.peer = me /\ (d.via = "circuit" => d.relay \in relay)
        /\ \A s \in l.codes :
             LET d == CliDial(s, relay, {})
             IN  \/ s \in code /\ ~IsPairingCode(s)
                 \/ d.via = "code" /\ d.code = s /\ d.registry \in l.registry

TargetsLeadBack ==
  \A me \in Peer :
    /\ LeadsBack({}, {}, me)
    /\ IsMultiaddr(addr) /\ ~Has(addr, "p2p-circuit") => LeadsBack({addr}, {}, me)
    /\ addr # << >> => LeadsBack({<<Part("tcp"), P2p(me)>>}, {addr}, me)

(***************************************************************************)
(* The prompts and the command line run the same dial for the same         *)
(* answers (interactive.rs, cli.rs:59), except for a code that is not of   *)
(* the generated form, which only the prompts take for a code.             *)
(***************************************************************************)
Relays == {<<Part("tcp"), P2p(p)>> : p \in Peer} \cup {<<Part("tcp")>>}

Typed(conn, s) == IF conn = "mdns" /\ s # << >> THEN Mdns(s[1].peer) ELSE s

PromptsAgree ==
  \A mode \in {"netcat", "local", "reverse", "socks5"} : \A relay \in Relays :
    \A conn \in {"circuit", "mdns", "code"} :
      LET d == PromptDial(conn, addr, relay, mode)
      IN  \/ d = CliDial(Typed(conn, addr), IF conn = "code" THEN {relay} ELSE {}, Flags(mode))
          \/ "target" \notin DOMAIN Prompt(conn, addr, relay)
          \/ conn = "code" /\ ~IsPairingCode(addr)
=============================================================================
