---------------------------- MODULE CommandLine ----------------------------
(***************************************************************************)
(* What users type and what the program makes of it: the targets a         *)
(* listener prints, the arguments and prompts of a dialer (types.rs,       *)
(* pairing.rs, cli.rs, interactive.rs), and the checks of run_listen and   *)
(* run_dial up to their first connection.                                  *)
(*                                                                         *)
(* A text is a sequence of pieces, of which the program tells apart: the   *)
(* components of a multiaddr, the dash-separated parts of a pairing code,  *)
(* a peer id, and "/mdns/" with what follows it.  The prompts trim their   *)
(* answers, so that texts have no blanks around them.                      *)
(***************************************************************************)
EXTENDS Multiaddr, FiniteSets

\* Numbers to 99, larger ones that fit in a u8, words of the list, the rest.
CodePart == [proto : {"number", "large", "word", "noise"}, peer : {NoPeer}]
PeerPart == [proto : {"peer"}, peer : Peer]
MdnsPart == [proto : {"mdns"}, peer : Peer \cup {NoPeer}]   \* NoPeer: not a peer id
Piece == Component \cup CodePart \cup PeerPart \cup MdnsPart

Part(x) == [proto |-> x, peer |-> NoPeer]
Mdns(p) == <<[proto |-> "mdns", peer |-> p]>>

\* s.parse::<Multiaddr>() succeeds, also for the empty text.
IsMultiaddr(s) == \A i \in DOMAIN s : s[i] \in Component

\* Mutant: the number is drawn from 0..=100.
GenerateInclusive == {<<Part(n), Part("word"), Part("word")>> : n \in {"number", "large"}}

\* generate_code: number, word, word.
Generate == {<<Part("number"), Part("word"), Part("word")>>}

IsPairingCode(s) ==
  /\ Len(s) = 3
  /\ s[1].proto = "number" /\ s[2].proto = "word" /\ s[3].proto = "word"

Error == [via |-> "error"]

\* DialTarget::from_str: a code, then /mdns/, then a multiaddr.
DialTarget(s) ==
  IF IsPairingCode(s) THEN [via |-> "code", code |-> s]
  ELSE IF s # << >> /\ s[1].proto = "mdns"
    THEN IF Len(s) = 1 /\ s[1].peer # NoPeer THEN [via |-> "mdns", peer |-> s[1].peer] ELSE Error
  ELSE IF IsMultiaddr(s) THEN [via |-> "circuit", addr |-> s]
  ELSE Error

-----------------------------------------------------------------------------
(* Options are sets of at most one element.                                *)

(***************************************************************************)
(* run_listen: a relay address is validated first; then the targets it     *)
(* prints, and where and under what it registers.                          *)
(***************************************************************************)
RunListen(relay, code, me) ==
  IF \E a \in relay : ~ValidRelayAddress(a) THEN Error
  ELSE [via      |-> "listen",
        codes    |-> IF relay = {} THEN {} ELSE IF code = {} THEN Generate ELSE code,
        prints   |-> {Mdns(me)} \cup {DialAddress(a, me) : a \in relay},
        registry |-> {PeerIdFromMultiaddr(a) : a \in relay}]

\* parse_dial_mode; clap's group admits one of the flags.
DialMode(flags) ==
  IF "L" \in flags THEN "local" ELSE IF "R" \in flags THEN "reverse"
  ELSE IF "D" \in flags THEN "socks5" ELSE "netcat"

\* What run_dial, without --jump, connects to and whom it expects there.
RunDial(opt) ==
  LET t == opt.target  mode == DialMode(opt.flags)
  IN  CASE t.via = "circuit" ->
             LET parsed == RelayBaseFromCircuitAddress(t.addr)
             IN  IF "error" \in DOMAIN parsed THEN Error
                 ELSE [via |-> "circuit", mode |-> mode,
                       relay |-> parsed.base, peer |-> parsed.listener]
        [] t.via = "mdns" -> [via |-> "mdns", mode |-> mode, peer |-> t.peer]
        [] t.via = "code" /\ \E a \in opt.relay : Has(a, "p2p") ->
             LET a == CHOOSE x \in opt.relay : TRUE
             IN  [via |-> "code", mode |-> mode, relay |-> a, code |-> t.code,
                  registry |-> PeerIdFromMultiaddr(a)]
        [] OTHER -> Error

\* `sape dial s`: clap's parsers; --relay-address need not be there.
CliDial(s, relay, flags) ==
  IF Cardinality(flags) > 1 \/ \E a \in relay : ~IsMultiaddr(a) THEN Error
  ELSE RunDial([target |-> DialTarget(s), relay |-> relay, flags |-> flags])

Flags(mode) == CASE mode = "local" -> {"L"} [] mode = "reverse" -> {"R"}
                 [] mode = "socks5" -> {"D"} [] mode = "netcat" -> {}

\* Mutant: the answer to the second prompt is not passed on.
PromptNoRelay(conn, s, relay) ==
  CASE conn = "circuit" /\ s # << >> /\ IsMultiaddr(s) ->
         [target |-> [via |-> "circuit", addr |-> s], relay |-> {}]
    [] conn = "mdns" /\ Len(s) = 1 /\ s[1].proto = "peer" ->
         [target |-> [via |-> "mdns", peer |-> s[1].peer], relay |-> {}]
    [] conn = "code" /\ s # << >> /\ relay # << >> /\ IsMultiaddr(relay) ->
         [target |-> [via |-> "code", code |-> s], relay |-> {}]
    [] OTHER -> Error

(***************************************************************************)
(* The prompts for a target: validators that repeat a prompt, and what is  *)
(* built of the answers.  A code may be any text.                          *)
(***************************************************************************)
Prompt(conn, s, relay) ==
  CASE conn = "circuit" /\ s # << >> /\ IsMultiaddr(s) ->
         [target |-> [via |-> "circuit", addr |-> s], relay |-> {}]
    [] conn = "mdns" /\ Len(s) = 1 /\ s[1].proto = "peer" ->
         [target |-> [via |-> "mdns", peer |-> s[1].peer], relay |-> {}]
    [] conn = "code" /\ s # << >> /\ relay # << >> /\ IsMultiaddr(relay) ->
         [target |-> [via |-> "code", code |-> s], relay |-> {relay}]
    [] OTHER -> Error

PromptDial(conn, s, relay, mode) ==
  LET opt == Prompt(conn, s, relay)
  IN  IF "target" \in DOMAIN opt
        THEN RunDial([target |-> opt.target, relay |-> opt.relay, flags |-> Flags(mode)])
        ELSE Error
=============================================================================
