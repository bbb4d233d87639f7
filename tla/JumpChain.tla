----------------------------- MODULE JumpChain -----------------------------
(***************************************************************************)
(* One `sape dial -J r1 ... -J rN target` from its first connection to the *)
(* last byte: the dialer (client/dial.rs), the task each relay spawns for  *)
(* the jump stream it accepts (relay.rs, jump.rs), the swarm of each relay *)
(* and the listener's task for the tunnel stream (client/listen.rs,        *)
(* netcat.rs).                                                             *)
(*                                                                         *)
(* Nodes 0..N+1 are the dialer, the N relay tasks and the listener's task. *)
(* Link l is the stream between nodes l and l+1; direction "f" of a link   *)
(* runs from the dialer to the listener, "b" back.  The same stream first  *)
(* carries the control frames (chain, ok, err, req) and then the data.     *)
(***************************************************************************)
EXTENDS Multiaddr, FiniteSets

CONSTANTS
  RelayPeers,    \* the peers that run `sape relay`
  Listener,      \* the peer that runs `sape listen`
  JumpAddrs,     \* opt.jump, the -J addresses
  TargetAddr,    \* the target, a DialTarget::RelayCircuit
  AllowedPeers,  \* --allowed-peer of the listener; {} allows everyone
  Modes,         \* the dial modes considered, see `mode`
  Known,         \* Known[p]: peers relay p is connected to beforehand
  MaxAttempts,   \* attempts to open a stream (10 in the code)
  DialCap,       \* capacity of a relay's dial channel (32 in the code)
  MaxHops,       \* the hops that fit in MAX_JUMP_REQUEST_SIZE bytes
  MaxSent,       \* bound: bytes each user sends
  MaxFaults      \* bound: lost connections, crashes and exits

N == Len(JumpAddrs)
Tasks == 1..N
Nodes == 0..(N + 1)
Links == 0..N
Dir == {"f", "b"}

All == JumpAddrs \o <<TargetAddr>>

ASSUME PeersAssumption ==
  /\ RelayPeers \subseteq Peer
  /\ Listener \in Peer \ RelayPeers
  /\ AllowedPeers \subseteq Peer
  /\ Known \in [RelayPeers -> SUBSET Peer]

ASSUME AddrsAssumption ==
  /\ JumpAddrs \in Seq(Address) /\ Len(JumpAddrs) > 0
  /\ TargetAddr \in Address

ASSUME BoundsAssumption ==
  /\ MaxAttempts \in Nat \ {0} /\ DialCap \in Nat \ {0}
  /\ MaxHops \in Nat /\ MaxSent \in Nat /\ MaxFaults \in Nat
  /\ Modes \subseteq {"netcat", "forward"}

VARIABLES
  mode,     \* the dialer's mode: "netcat", or "forward" for -L, -R and -D
  pc,       \* pc[n]: where node n is
  verdict,  \* what the dialer read as the outcome: "none", "ok", "err", "eof"
  host,     \* host[n]: the peer node n > 0 runs on, NoPeer before it exists
  hops,     \* hops[n]: the chain node n < N+1 holds
  attempt,  \* attempt[t]: failed attempts of task t to open its stream
  dialq,    \* dialq[p]: commands in the dial channel of relay p
  dialing,  \* dialing[p]: peers the swarm of p is dialing
  conn,     \* conn[p]: peers the swarm of p is connected to
  chan,     \* chan[l][d]: frames written to link l and not yet read
  end,      \* end[l][d]: the end of link l that writes direction d
  cut,      \* links whose stream was lost
  sent,     \* sent[d]: bytes user d typed
  recv,     \* recv[d]: bytes of d the other user saw
  heard,    \* heard[d]: the end of d reached the process of the other user
  faults    \* faults so far

swarmVars == <<dialq, dialing, conn>>
userVars == <<sent, recv, heard>>
taskVars == <<host, hops, attempt>>
others == <<mode, swarmVars, cut, userVars, faults>>
vars == <<pc, verdict, taskVars, chan, end, others>>

Gone == {"closed", "failed"}      \* returned: after, or before, bridging

Opp(d) == IF d = "f" THEN "b" ELSE "f"

\* The nodes at the writing and at the reading side of direction d of link l,
\* and the links from and to which node n carries direction d.
Writer(l, d) == IF d = "f" THEN l ELSE l + 1
Reader(l, d) == IF d = "f" THEN l + 1 ELSE l
From(n, d) == IF d = "f" THEN n - 1 ELSE n
To(n, d) == IF d = "f" THEN n ELSE n - 1

\* The user of direction d: the node that reads their input.
User(d) == IF d = "f" THEN 0 ELSE N + 1

\* Frames
Chain(h) == [type |-> "chain", hops |-> h]
Ok == [type |-> "ok"]
Err == [type |-> "err"]
Req == [type |-> "req"]
Data(i) == [type |-> "data", n |-> i]

Frame == [type : {"chain"}, hops : Seq(Address)]
           \cup [type : {"ok", "err", "req"}]
           \cup [type : {"data"}, n : Nat]

\* The next frame node n would read in direction d of link l has this type.
Arrived(l, d, type) == chan[l][d] # << >> /\ Head(chan[l][d]).type = type

\* What a reader that has read everything sees: an end of file or an error.
AtEof(l, d) == /\ chan[l][d] = << >>
               /\ end[l][d] \in {"shut", "gone"} \/ l \in cut

\* Only an error: the stream was not closed in order.
Reset(l, d) == end[l][d] = "gone" \/ l \in cut

\* What is written now is lost, and the writer may or may not be told.
Broken(l, d) == pc[Reader(l, d)] \in Gone \/ l \in cut

After(l, d, m) ==
  IF Broken(l, d) THEN chan ELSE [chan EXCEPT ![l][d] = Append(@, m)]

Unread(l, d) == [chan EXCEPT ![l][d] = Tail(@)]

(***************************************************************************)
(* The tasks in S return, or their process ends, with c in the streams:    *)
(* both streams of each are dropped.  What they wrote stays readable, what *)
(* they had not read is lost, a half they had not shut is reset.           *)
(***************************************************************************)
Leave(S, c) ==
  /\ pc' = [n \in Nodes |-> IF n \notin S THEN pc[n]
                            ELSE IF pc[n] = "bridging" THEN "closed" ELSE "failed"]
  /\ end' = [l \in Links |-> [d \in Dir |->
               IF Writer(l, d) \in S /\ end[l][d] = "open" THEN "gone" ELSE end[l][d]]]
  /\ chan' = [l \in Links |-> [d \in Dir |->
               IF Reader(l, d) \in S THEN << >> ELSE c[l][d]]]

Return(n) == Leave({n}, chan) /\ UNCHANGED <<verdict, taskVars, others>>

Goto(n, label) == pc' = [pc EXCEPT ![n] = label]

\* Node n opens link n to a task that starts on peer p.
Open(n, p, label) ==
  /\ pc' = [pc EXCEPT ![n] = label, ![n + 1] = "reading"]
  /\ end' = [end EXCEPT ![n] = [d \in Dir |-> "open"]]
  /\ host' = [host EXCEPT ![n + 1] = p]

-----------------------------------------------------------------------------
Init ==
  /\ mode \in Modes
  /\ pc = [n \in Nodes |-> IF n = 0 THEN "connecting" ELSE "none"]
  /\ verdict = "none"
  /\ host = [n \in Nodes |-> NoPeer]
  /\ hops = [n \in Links |-> IF n = 0 THEN All ELSE << >>]
  /\ attempt = [t \in Tasks |-> 0]
  /\ dialq = [p \in RelayPeers |-> << >>]
  /\ dialing = [p \in RelayPeers |-> {}]
  /\ conn = Known
  /\ chan = [l \in Links |-> [d \in Dir |-> << >>]]
  /\ end = [l \in Links |-> [d \in Dir |-> "none"]]
  /\ cut = {}
  /\ sent = [d \in Dir |-> 0]
  /\ recv = [d \in Dir |-> << >>]
  /\ heard = [d \in Dir |-> FALSE]
  /\ faults = 0

-----------------------------------------------------------------------------
(* The dialer up to the jump stream.                                       *)

FirstPeer == PeerIdFromMultiaddr(JumpAddrs[1])

\* connect_and_identify(first_jump) succeeds.
DialerConnect ==
  /\ pc[0] = "connecting"
  /\ Goto(0, "opening")
  /\ UNCHANGED <<verdict, taskVars, chan, end, others>>

\* The single attempt to open the jump stream succeeds: the relay's accept
\* loop spawns handle_jump_request for it.
DialerOpen ==
  /\ pc[0] = "opening"
  /\ FirstPeer \in RelayPeers
  /\ Open(0, FirstPeer, "forwarding")
  /\ UNCHANGED <<verdict, hops, attempt, chan, others>>

\* No connection within 30 s, no peer id in the address, or no stream.
DialerGivesUp ==
  /\ pc[0] \in {"connecting", "opening"}
  /\ Return(0)

-----------------------------------------------------------------------------
(* A relay's task.                                                         *)

NextPeer(t) == PeerIdFromMultiaddr(hops[t][1])

Acceptable(h) == Len(h) <= MaxHops /\ PeerIdFromMultiaddr(h[1]) # NoPeer

\* read_jump_chain, and the peer id of the next hop.  The chain is never
\* empty (ChainShrinks), so the code's answer to an empty one is not here.
ReadChain(t) ==
  /\ pc[t] = "reading"
  /\ Arrived(t - 1, "f", "chain")
  /\ LET h == Head(chan[t - 1]["f"]).hops
     IN  /\ Acceptable(h)
         /\ hops' = [hops EXCEPT ![t] = h]
  /\ chan' = Unread(t - 1, "f")
  /\ Goto(t, "dialing")
  /\ UNCHANGED <<verdict, host, attempt, end, others>>

\* A chain too large to read, or a next hop without a peer id: the task
\* returns without a word to the node that asked.
RefuseChain(t) ==
  /\ pc[t] = "reading"
  /\ Arrived(t - 1, "f", "chain")
  /\ ~Acceptable(Head(chan[t - 1]["f"]).hops)
  /\ Return(t)

\* dial_tx.send(Dial(next_hop)), which waits while the channel is full.
SendDial(t) ==
  /\ pc[t] = "dialing"
  /\ Len(dialq[host[t]]) < DialCap
  /\ dialq' = [dialq EXCEPT ![host[t]] = Append(@, hops[t][1])]
  /\ Goto(t, "opening")
  /\ UNCHANGED <<mode, verdict, taskVars, dialing, conn, chan, end, cut, userVars, faults>>

\* The last relay opens a tunnel stream, which only a listener accepts; the
\* others a jump stream, which only a relay accepts.
LastHop(t) == Len(hops[t]) = 1

Serves(t, p) == IF LastHop(t) THEN p = Listener ELSE p \in RelayPeers

\* Mutant: the accepted stream counts as a bridge, whatever the hops left.
OpenStreamSkipsRest(t) ==
  /\ pc[t] = "opening"
  /\ NextPeer(t) \in conn[host[t]]
  /\ Serves(t, NextPeer(t))
  /\ Open(t, NextPeer(t), "replying")
  /\ UNCHANGED <<verdict, hops, attempt, chan, others>>

OpenStream(t) ==
  /\ pc[t] = "opening"
  /\ NextPeer(t) \in conn[host[t]]
  /\ Serves(t, NextPeer(t))
  /\ Open(t, NextPeer(t), IF LastHop(t) THEN "replying" ELSE "forwarding")
  /\ UNCHANGED <<verdict, hops, attempt, chan, others>>

\* Mutant: attempts nobody counts.
RetryUncounted(t) ==
  /\ pc[t] = "opening"
  /\ attempt[t] < MaxAttempts - 1
  /\ UNCHANGED vars

\* An attempt fails and another follows after a pause.
RetryOpen(t) ==
  /\ pc[t] = "opening"
  /\ attempt[t] < MaxAttempts - 1
  /\ attempt' = [attempt EXCEPT ![t] = @ + 1]
  /\ UNCHANGED <<pc, verdict, host, hops, chan, end, others>>

\* Write JumpResult::Error to the node that asked, and return.
FailUpstream(t) ==
  /\ Leave({t}, After(t - 1, "b", Err))
  /\ UNCHANGED <<verdict, taskVars, others>>

\* Mutant: the first failure is reported as the outcome.
OpenFailsAtOnce(t) ==
  /\ pc[t] = "opening"
  /\ FailUpstream(t)

OpenFails(t) ==
  /\ pc[t] = "opening"
  /\ attempt[t] = MaxAttempts - 1
  /\ FailUpstream(t)

\* Mutant: the chain goes on with the hop that has been done.
ForwardWholeChain(n) ==
  /\ pc[n] = "forwarding"
  /\ chan' = After(n, "f", Chain(hops[n]))
  /\ Goto(n, "awaiting")
  /\ UNCHANGED <<verdict, taskVars, end, others>>

\* Mutant: the result is answered without waiting for the one from below.
ForwardUnawaited(n) ==
  /\ pc[n] = "forwarding"
  /\ chan' = After(n, "f", Chain(Tail(hops[n])))
  /\ Goto(n, IF n = 0 THEN "awaiting" ELSE "replying")
  /\ UNCHANGED <<verdict, taskVars, end, others>>

\* write_jump_chain to the next relay, by a relay or by the dialer.
ForwardChain(n) ==
  /\ pc[n] = "forwarding"
  /\ chan' = After(n, "f", Chain(Tail(hops[n])))
  /\ Goto(n, "awaiting")
  /\ UNCHANGED <<verdict, taskVars, end, others>>

\* Mutant: the result is looked at and left in the stream.
AwaitOkPeeks(t) ==
  /\ pc[t] = "awaiting"
  /\ Arrived(t, "b", "ok")
  /\ Goto(t, "replying")
  /\ UNCHANGED <<verdict, taskVars, chan, end, others>>

\* read_jump_result, Ok and Error.
AwaitOk(t) ==
  /\ pc[t] = "awaiting"
  /\ Arrived(t, "b", "ok")
  /\ chan' = Unread(t, "b")
  /\ Goto(t, "replying")
  /\ UNCHANGED <<verdict, taskVars, end, others>>

AwaitErr(t) ==
  /\ pc[t] = "awaiting"
  /\ Arrived(t, "b", "err")
  /\ FailUpstream(t)

\* write_jump_result(Ok) to the node that asked; from here the task copies.
Reply(t) ==
  /\ pc[t] = "replying"
  /\ chan' = After(t - 1, "b", Ok)
  /\ Goto(t, "bridging")
  /\ UNCHANGED <<verdict, taskVars, end, others>>

\* A read meets the end of the stream, or a write is told it is lost: the
\* task returns at once (`?`).
TaskIoFails(t) ==
  /\ \/ pc[t] = "reading" /\ AtEof(t - 1, "f")
     \/ pc[t] = "awaiting" /\ AtEof(t, "b")
     \/ pc[t] = "forwarding" /\ Broken(t, "f")
     \/ pc[t] = "replying" /\ Broken(t - 1, "b")
  /\ Return(t)

-----------------------------------------------------------------------------
(* copy_bidirectional, in a relay's task.                                  *)

\* Whatever was read from one stream is written to the other.
CopyData(t, d) ==
  /\ pc[t] = "bridging"
  /\ end[To(t, d)][d] = "open"
  /\ chan[From(t, d)][d] # << >>
  /\ chan' = [After(To(t, d), d, Head(chan[From(t, d)][d]))
                EXCEPT ![From(t, d)][d] = Tail(@)]
  /\ UNCHANGED <<pc, verdict, taskVars, end, others>>

\* Mutant: the writer's end is passed on ahead of what it wrote.
CopyEofEarly(t, d) ==
  /\ pc[t] = "bridging"
  /\ end[To(t, d)][d] = "open"
  /\ end[From(t, d)][d] \in {"shut", "gone"} \/ From(t, d) \in cut
  /\ end' = [end EXCEPT ![To(t, d)][d] = "shut"]
  /\ UNCHANGED <<pc, verdict, taskVars, chan, others>>

\* The end of one direction is passed on by shutting the write half.
CopyEof(t, d) ==
  /\ pc[t] = "bridging"
  /\ end[To(t, d)][d] = "open"
  /\ AtEof(From(t, d), d)
  /\ end' = [end EXCEPT ![To(t, d)][d] = "shut"]
  /\ UNCHANGED <<pc, verdict, taskVars, chan, others>>

\* An error in either direction ends both: reading from a reset stream, or
\* writing to, or shutting, a lost one.
CopyError(t, d) ==
  /\ pc[t] = "bridging"
  /\ end[To(t, d)][d] = "open"
  /\ \/ AtEof(From(t, d), d) /\ Reset(From(t, d), d)
     \/ /\ AtEof(From(t, d), d) \/ chan[From(t, d)][d] # << >>
        /\ Broken(To(t, d), d)
  /\ Return(t)

\* Both directions ended: handle_jump_request returns.
CopyDone(t) ==
  /\ pc[t] = "bridging"
  /\ \A d \in Dir : end[To(t, d)][d] = "shut"
  /\ Return(t)

-----------------------------------------------------------------------------
(* The swarm loop of relay p.                                              *)

\* Of the relay's transports none dials through another relay, and a swarm
\* refuses to dial itself or a peer it has or is getting a connection to.
Dialable(p, addr) ==
  /\ ~Has(addr, "p2p-circuit")
  /\ PeerIdFromMultiaddr(addr) \notin conn[p] \cup dialing[p] \cup {p}

\* dial_rx.recv(): swarm.dial(addr), whose failure is only logged.
SwarmDial(p) ==
  /\ dialq[p] # << >>
  /\ LET addr == Head(dialq[p])
     IN  dialing' = IF Dialable(p, addr)
                    THEN [dialing EXCEPT ![p] = @ \cup {PeerIdFromMultiaddr(addr)}]
                    ELSE dialing
  /\ dialq' = [dialq EXCEPT ![p] = Tail(@)]
  /\ UNCHANGED <<mode, pc, verdict, taskVars, conn, chan, end, cut, userVars, faults>>

\* A connection serves both its ends.
Connected(p, q) ==
  [x \in RelayPeers |-> IF x = p THEN conn[x] \cup {q}
                        ELSE IF x = q THEN conn[x] \cup {p} ELSE conn[x]]

DialOutcome(p, q) ==
  /\ q \in dialing[p]
  /\ dialing' = [dialing EXCEPT ![p] = @ \ {q}]
  /\ conn' \in {conn, Connected(p, q)}
  /\ UNCHANGED <<mode, pc, verdict, taskVars, dialq, chan, end, cut, userVars, faults>>

-----------------------------------------------------------------------------
(* The dialer once its chain is written.                                   *)

DialerReadsOk ==
  /\ pc[0] = "awaiting"
  /\ Arrived(0, "b", "ok")
  /\ verdict' = "ok"
  /\ chan' = Unread(0, "b")
  /\ Goto(0, "selecting")
  /\ UNCHANGED <<taskVars, end, others>>

\* Mutant: the end of the stream is not taken for an answer.
DialerFailsOnErr ==
  /\ pc[0] = "awaiting"
  /\ Arrived(0, "b", "err") /\ verdict' = "err"
  /\ Leave({0}, chan)
  /\ UNCHANGED <<taskVars, others>>

\* JumpResult::Error, or the stream ends before a result.  No timeout.
DialerFails ==
  /\ pc[0] = "awaiting"
  /\ \/ Arrived(0, "b", "err") /\ verdict' = "err"
     \/ AtEof(0, "b") /\ verdict' = "eof"
  /\ Leave({0}, chan)
  /\ UNCHANGED <<taskVars, others>>

\* Netcat writes its request and starts copying.
StartNetcat ==
  /\ pc[0] = "selecting" /\ mode = "netcat"
  /\ chan' = After(0, "f", Req)
  /\ Goto(0, "bridging")
  /\ UNCHANGED <<verdict, taskVars, end, others>>

\* Every other mode is refused only now, the chain being up; or the write
\* of the request fails.
DialerBails ==
  /\ pc[0] = "selecting"
  /\ mode # "netcat" \/ Broken(0, "f")
  /\ Return(0)

\* write_jump_chain fails.
DialerIoFails ==
  /\ pc[0] = "forwarding" /\ Broken(0, "f")
  /\ Return(0)

-----------------------------------------------------------------------------
(* The listener's task for the tunnel stream.                              *)

Allowed(p) == AllowedPeers = {} \/ p \in AllowedPeers

\* The allowlist is asked for the peer that opened the stream, the last
\* relay.  A Netcat request starts the session.
ListenerReadsRequest ==
  /\ pc[N + 1] = "reading"
  /\ Allowed(host[N])
  /\ Arrived(N, "f", "req")
  /\ chan' = Unread(N, "f")
  /\ Goto(N + 1, "bridging")
  /\ UNCHANGED <<verdict, taskVars, end, others>>

\* The peer is not allowed, or no request comes.
ListenerRefuses ==
  /\ pc[N + 1] = "reading"
  /\ ~Allowed(host[N]) \/ AtEof(N, "f")
  /\ Return(N + 1)

-----------------------------------------------------------------------------
(* run_netcat at both ends: the user's input of direction d and the other  *)
(* user's output of it.                                                    *)

Type(d) ==
  LET n == User(d)  l == To(n, d)
  IN  /\ pc[n] = "bridging"
      /\ end[l][d] = "open"
      /\ sent[d] < MaxSent
      /\ sent' = [sent EXCEPT ![d] = @ + 1]
      /\ chan' = After(l, d, Data(sent[d] + 1))
      /\ UNCHANGED <<mode, pc, verdict, taskVars, swarmVars, end, cut, recv, heard, faults>>

StdinEof(d) ==
  LET n == User(d)  l == To(n, d)
  IN  /\ pc[n] = "bridging"
      /\ end[l][d] = "open"
      /\ end' = [end EXCEPT ![l][d] = "shut"]
      /\ UNCHANGED <<pc, verdict, taskVars, chan, others>>

Show(d) ==
  LET n == User(Opp(d))  l == From(n, d)
  IN  /\ pc[n] = "bridging"
      /\ Arrived(l, d, "data")
      /\ recv' = [recv EXCEPT ![d] = Append(@, Head(chan[l][d]).n)]
      /\ chan' = Unread(l, d)
      /\ UNCHANGED <<mode, pc, verdict, taskVars, swarmVars, end, cut, sent, heard, faults>>

\* Mutant: only a stream shut in order ends the output.
OutputCleanEof(d) ==
  LET n == User(Opp(d))  l == From(n, d)
  IN  /\ pc[n] = "bridging"
      /\ ~heard[d]
      /\ AtEof(l, d) /\ ~Reset(l, d)
      /\ heard' = [heard EXCEPT ![d] = TRUE]
      /\ UNCHANGED <<mode, pc, verdict, taskVars, swarmVars, chan, end, cut, sent, recv, faults>>

\* The copy to stdout meets its end.  The shutdown of a tokio Stdout shows
\* nothing: the process knows, its user need not notice.
OutputEof(d) ==
  LET n == User(Opp(d))  l == From(n, d)
  IN  /\ pc[n] = "bridging"
      /\ ~heard[d]
      /\ AtEof(l, d)
      /\ heard' = [heard EXCEPT ![d] = TRUE]
      /\ UNCHANGED <<mode, pc, verdict, taskVars, swarmVars, chan, end, cut, sent, recv, faults>>

\* run_netcat returns: both directions ended, or a read or write failed.
\* Until then it waits, for stdin too.
\* The session that types d is over.
NetcatDone(d) ==
  LET n == User(d)
  IN  /\ pc[n] = "bridging"
      /\ end[To(n, d)][d] = "shut" /\ heard[Opp(d)]
      /\ Return(n)

NetcatError(d) ==
  LET n == User(d)  in == From(n, Opp(d))
  IN  /\ pc[n] = "bridging"
      /\ \/ end[To(n, d)][d] = "open" /\ Broken(To(n, d), d)
         \/ ~heard[Opp(d)] /\ AtEof(in, Opp(d)) /\ Reset(in, Opp(d))
      /\ Return(n)

-----------------------------------------------------------------------------
(* What can go wrong around the program.                                   *)

Live(n) == pc[n] \notin Gone \cup {"none"}

\* The stream of link l is lost, with what was in it.
LoseStream(l) ==
  /\ faults < MaxFaults
  /\ end[l]["f"] # "none" /\ l \notin cut
  /\ Live(l) \/ Live(l + 1)
  /\ cut' = cut \cup {l}
  /\ chan' = [chan EXCEPT ![l] = [d \in Dir |-> << >>]]
  /\ faults' = faults + 1
  /\ UNCHANGED <<mode, pc, verdict, taskVars, swarmVars, end, userVars>>

\* The relay process on p ends, and may start again with nothing.
CrashRelay(p) ==
  LET S == {t \in Tasks : Live(t) /\ host[t] = p}
  IN  /\ faults < MaxFaults
      /\ S # {}
      /\ Leave(S, chan)
      /\ dialq' = [dialq EXCEPT ![p] = << >>]
      /\ dialing' = [dialing EXCEPT ![p] = {}]
      /\ conn' = [x \in RelayPeers |-> IF x = p THEN {} ELSE conn[x] \ {p}]
      /\ faults' = faults + 1
      /\ UNCHANGED <<mode, verdict, taskVars, cut, userVars>>

\* The dialer's, or the listener's, process ends.
ExitUser(d) ==
  /\ faults < MaxFaults
  /\ Live(User(d))
  /\ Leave({User(d)}, chan)
  /\ faults' = faults + 1
  /\ UNCHANGED <<mode, verdict, taskVars, swarmVars, cut, userVars>>

-----------------------------------------------------------------------------
TaskStep(t) ==
  \/ ReadChain(t) \/ RefuseChain(t) \/ SendDial(t)
  \/ OpenStream(t) \/ RetryOpen(t) \/ OpenFails(t)
  \/ ForwardChain(t) \/ AwaitOk(t) \/ AwaitErr(t) \/ Reply(t) \/ TaskIoFails(t)
  \/ CopyDone(t)
  \/ \E d \in Dir : CopyData(t, d) \/ CopyEof(t, d) \/ CopyError(t, d)

SwarmStep(p) == SwarmDial(p) \/ \E q \in Peer : DialOutcome(p, q)

DialerStep ==
  \/ DialerConnect \/ DialerOpen \/ DialerGivesUp
  \/ ForwardChain(0) \/ DialerIoFails
  \/ DialerReadsOk \/ DialerFails \/ StartNetcat \/ DialerBails

ListenerStep == ListenerReadsRequest \/ ListenerRefuses

\* The session of the user who types d, apart from what the user does.
SessionStep(d) == Show(Opp(d)) \/ OutputEof(Opp(d)) \/ NetcatDone(d)

\* A lost write is only noticed when the user types.
UserStep(d) == Type(d) \/ StdinEof(d) \/ NetcatError(d)

FaultStep == \/ \E l \in Links : LoseStream(l)
             \/ \E p \in RelayPeers : CrashRelay(p)
             \/ \E d \in Dir : ExitUser(d)

Next ==
  \/ \E t \in Tasks : TaskStep(t)
  \/ \E p \in RelayPeers : SwarmStep(p)
  \/ DialerStep \/ ListenerStep
  \/ \E d \in Dir : SessionStep(d) \/ UserStep(d)
  \/ FaultStep

(***************************************************************************)
(* Each task runs on the tokio runtime, which polls whatever can make      *)
(* progress; nothing is assumed of the users or of the faults.             *)
(***************************************************************************)
Fairness ==
  /\ \A t \in Tasks : WF_vars(TaskStep(t))
  /\ \A p \in RelayPeers : WF_vars(SwarmStep(p))
  /\ WF_vars(DialerStep) /\ WF_vars(ListenerStep)
  /\ \A d \in Dir : WF_vars(SessionStep(d))

Spec == Init /\ [][Next]_vars /\ Fairness

-----------------------------------------------------------------------------
(* Properties.                                                             *)

DialerPC == {"connecting", "opening", "forwarding", "awaiting", "selecting", "bridging"}
TaskPC == {"none", "reading", "dialing", "opening", "forwarding", "awaiting",
           "replying", "bridging"}

(***************************************************************************)
(* Types of the variables of the jump chain.                               *)
(***************************************************************************)
TypeOK ==
  /\ mode \in {"netcat", "forward"}
  /\ pc \in [Nodes -> DialerPC \cup TaskPC \cup Gone]
  /\ verdict \in {"none", "ok", "err", "eof"}
  /\ host \in [Nodes -> Peer \cup {NoPeer}]
  /\ hops \in [Links -> Seq(Address)]
  /\ attempt \in [Tasks -> 0..(MaxAttempts - 1)]
  /\ dialq \in [RelayPeers -> Seq(Address)]
  /\ dialing \in [RelayPeers -> SUBSET (Peer \cup {NoPeer})]
  /\ conn \in [RelayPeers -> SUBSET Peer]
  /\ chan \in [Links -> [Dir -> Seq(Frame)]]
  /\ end \in [Links -> [Dir -> {"none", "open", "shut", "gone"}]]
  /\ cut \subseteq Links
  /\ sent \in [Dir -> Nat]
  /\ recv \in [Dir -> Seq(Nat)]
  /\ heard \in [Dir -> BOOLEAN]
  /\ faults \in Nat

(***************************************************************************)
(* The dialer believes the chain is up only when it is: every relay of -J  *)
(* has a task that is copying, or was until something ended it, each on    *)
(* the relay the dialer named, and the last one opened its stream to the   *)
(* target (relay.rs:265 writes Ok only after its own hop and those below). *)
(***************************************************************************)
Up(t) == pc[t] \in {"bridging", "closed"}

OkMeansBridged ==
  verdict = "ok" =>
    /\ \A t \in Tasks : Up(t) /\ host[t] = PeerIdFromMultiaddr(JumpAddrs[t])
    /\ host[N + 1] = PeerIdFromMultiaddr(TargetAddr)

(***************************************************************************)
(* The dialer reports "jump chain failed" only when a relay really gave up *)
(* after its last attempt, every relay before it is no longer serving the  *)
(* request and none after it ever was asked (relay.rs:237-241, 255-258).   *)
(***************************************************************************)
ErrorIsGenuine ==
  verdict = "err" =>
    \E t \in Tasks :
      /\ \A u \in 1..t : pc[u] = "failed"
      /\ attempt[t] = MaxAttempts - 1
      /\ \A u \in (t + 1)..(N + 1) : pc[u] = "none"

(***************************************************************************)
(* What a relay reads is the rest of the path after it, never empty: each  *)
(* hop takes exactly itself off the chain, and the tunnel stream is opened *)
(* by the last one only (relay.rs:218-223, dial.rs:42-43).                 *)
(***************************************************************************)
Rest(n) == SubSeq(All, n + 1, N + 1)

ChainShrinks ==
  /\ \A n \in Links : hops[n] \in {<< >>, Rest(n)}
  /\ \A l \in Links : \A i \in 1..Len(chan[l]["f"]) :
       chan[l]["f"][i].type = "chain" => l < N /\ chan[l]["f"][i].hops = Rest(l + 1)
  /\ \A t \in Tasks : end[t]["f"] # "none" /\ LastHop(t) => t = N

(***************************************************************************)
(* The stream that carried the control frames then carries the data.  No   *)
(* task ever reads a frame meant for another moment or another task: data  *)
(* for a result, a result for data, a request for a chain.                 *)
(***************************************************************************)
Next1(l, d) == IF chan[l][d] = << >> THEN "nothing" ELSE Head(chan[l][d]).type

FramesInStep ==
  /\ \A t \in Tasks :
       /\ pc[t] = "reading" => Next1(t - 1, "f") \in {"nothing", "chain"}
       /\ pc[t] = "awaiting" => Next1(t, "b") \in {"nothing", "ok", "err"}
       /\ pc[t] = "bridging" => /\ Next1(t - 1, "f") \in {"nothing", "req", "data"}
                                /\ Next1(t, "b") \in {"nothing", "data"}
  /\ pc[0] = "awaiting" => Next1(0, "b") \in {"nothing", "ok", "err"}
  /\ pc[0] = "bridging" => Next1(0, "b") \in {"nothing", "data"}
  /\ pc[N + 1] = "reading" => Next1(N, "f") \in {"nothing", "req"}
  /\ pc[N + 1] = "bridging" => Next1(N, "f") \in {"nothing", "data"}

(***************************************************************************)
(* The chain of copies is one pipe between the two users (TunnelPipe):     *)
(* ordered, nothing made up or repeated, nothing before the listener took  *)
(* the request, and no end of file ahead of data unless something was lost.*)
(***************************************************************************)
Pipe == INSTANCE TunnelPipe WITH
  phase  <- IF Up(N + 1) THEN "attached" ELSE IF Up(0) THEN "requested" ELSE "setup",
  closed <- [d \in Dir |-> end[To(User(d), d)][d] \in {"shut", "gone"}],
  broken <- faults > 0

PipeRefinement == Pipe!Spec

(***************************************************************************)
(* A dialer that wrote its chain learns of the outcome.  run_dial sets no  *)
(* timeout on read_jump_result: it relies on every relay answering, or     *)
(* dropping the stream, on every path.                                     *)
(***************************************************************************)
DialerResolves == pc[0] = "awaiting" ~> pc[0] # "awaiting"

(***************************************************************************)
(* The end of a session reaches the dialer's process: after a relay, the   *)
(* listener or a stream on the path is lost, and also when the listener    *)
(* refuses the last relay though the chain was reported up, the copy from  *)
(* the tunnel meets its end at the dialer, or netcat is over already.  The *)
(* user is promised no more: an ended stdout shows nothing, and run_netcat *)
(* still waits for stdin (netcat.rs:11-13).                                *)
(***************************************************************************)
LossReachesDialer ==
  pc[0] = "bridging" /\ (cut # {} \/ \E n \in 1..(N + 1) : ~Live(n))
    ~> heard["b"] \/ pc[0] # "bridging"

(***************************************************************************)
(* When the dialer is gone for good and no listener keeps a session open,  *)
(* every relay lets go of its tasks and streams, wherever in the set-up or *)
(* the session the dialer left: also after a refused mode, or while a      *)
(* relay was still trying to open a stream for it.                         *)
(***************************************************************************)
ChainReleased ==
  <>[](pc[0] \in Gone /\ pc[N + 1] # "bridging")
    => <>[](\A t \in Tasks : ~Live(t))

(***************************************************************************)
(* docs/architecture.md:184: the last relay opens the tunnel stream to the *)
(* listener.                                                               *)
(***************************************************************************)
TunnelStreamReachesListener ==
  \A t \in Tasks : pc[t] = "opening" /\ LastHop(t) => NextPeer(t) = Listener
=============================================================================
