--------------------------- MODULE ReverseForward ---------------------------
(***************************************************************************)
(* Reverse forwards (`sape dial -R bind_port:target`) of one listener: the *)
(* runs of the dialers that ask for them (client/dial.rs,                  *)
(* forward/reverse.rs), the listener's request tasks and bound ports       *)
(* (client/listen.rs), and the TCP clients of those ports, each bridged by *)
(* a task of the listener and, over a stream opened back, one of a run.    *)
(*                                                                         *)
(* A run is one process, a peer the identity it uses: a dialer started     *)
(* again with the same --identity-file is another run of the same peer.    *)
(* The listener knows peers only, and never unbinds a port.                *)
(***************************************************************************)
EXTENDS Naturals, Sequences, FiniteSets

CONSTANTS
  Run,           \* the dialer processes, each started at most once
  Client,        \* the TCP clients of the listener's ports, each used once
  Peer,          \* identities
  Who,           \* Who[r]: the identity of run r
  ReverseRuns,   \* the runs in -R mode; the others hold streams of their own
  Ports, Port,   \* Port[r]: the bind_port of run r
  Targets, Target, \* Target[r]: its target
  AllowedPeers,  \* --allowed-peer of the listener; {} allows everyone
  QueueCap,      \* streams that libp2p-stream keeps for an IncomingStreams
  MaxFaults,     \* bound: connections lost
  Nobody         \* no run, no client, no target

ASSUME RunsAssumption ==
  /\ Who \in [Run -> Peer] /\ Port \in [Run -> Ports] /\ Target \in [Run -> Targets]
  /\ ReverseRuns \subseteq Run /\ AllowedPeers \subseteq Peer
  /\ Nobody \notin Run \cup Client \cup Targets

ASSUME LimitsAssumption == QueueCap \in Nat \ {0} /\ MaxFaults \in Nat

VARIABLES
  up,        \* the listener runs
  proc,      \* proc[r]: where run_dial of run r is
  linked,    \* the runs the listener has a connection to
  ask,       \* ask[r]: where the listener's task for the request of r is
  ack,       \* ack[r]: what run r finds on its request stream
  owner,     \* owner[p]: the run whose request bound port p
  tcp,       \* tcp[c]: where the listener's task for client c is
  via,       \* via[c]: the run whose bind accepted c
  far,       \* far[c]: where the stream opened back for c is
  at,        \* at[c]: the run it was opened to
  asked,     \* asked[c]: the target in the request on that stream
  reached,   \* reached[c]: the target the run connected to
  finished,  \* clients whose bridge saw both its ends finish their input
  cut,       \* clients whose stream lost its connection
  queue,     \* queue[r]: streams in the IncomingStreams of run r
  handling,  \* handling[r]: the stream whose request run r is reading
  faults

runVars == <<proc, linked, ask, ack, owner>>
streamVars == <<far, at, asked, reached, cut, queue, handling>>
clientVars == <<tcp, via, finished>>
vars == <<up, runVars, streamVars, clientVars, faults>>

Active(r) == proc[r] \in {"ready", "asking", "serving", "other"}
Live(c) == far[c] \in {"queued", "reading", "connecting", "copying", "told"}
Near(c) == tcp[c] \in {"opening", "writing", "copying", "told"}

\* The stream of c is lost, or its reader dropped it: what the listener's
\* task writes goes nowhere, what it reads is an end or an error.
Broken(c) == c \in cut \/ far[c] = "over"

Allowed(r) == AllowedPeers = {} \/ Who[r] \in AllowedPeers

Init ==
  /\ up = TRUE
  /\ proc = [r \in Run |-> "off"]
  /\ linked = {}
  /\ ask = [r \in Run |-> "none"] /\ ack = [r \in Run |-> "none"]
  /\ owner = [p \in Ports |-> Nobody]
  /\ tcp = [c \in Client |-> "off"] /\ far = [c \in Client |-> "none"]
  /\ via = [c \in Client |-> Nobody] /\ at = [c \in Client |-> Nobody]
  /\ asked = [c \in Client |-> Nobody] /\ reached = [c \in Client |-> Nobody]
  /\ finished = {} /\ cut = {}
  /\ queue = [r \in Run |-> << >>]
  /\ handling = [r \in Run |-> Nobody]
  /\ faults = 0

-----------------------------------------------------------------------------
(* The dialer's run.                                                       *)

(***************************************************************************)
(* A run connects and then registers its IncomingStreams, before its swarm *)
(* is driven on: no stream meets a run that cannot take it (dial.rs:103-   *)
(* 150).  Two runs of one identity do not run at the same time.            *)
(***************************************************************************)
StartDialer(r) ==
  /\ up /\ proc[r] = "off"
  /\ \A q \in Run : Who[q] = Who[r] => ~Active(q)
  /\ proc' = [proc EXCEPT ![r] = IF r \in ReverseRuns THEN "ready" ELSE "other"]
  /\ linked' = linked \cup {r}
  /\ UNCHANGED <<up, ask, ack, owner, streamVars, clientVars, faults>>

\* open_stream dials when there is no connection.
DialerAsks(r) ==
  /\ up /\ proc[r] = "ready"
  /\ proc' = [proc EXCEPT ![r] = "asking"]
  /\ ask' = [ask EXCEPT ![r] = "asked"]
  /\ linked' = linked \cup {r}
  /\ UNCHANGED <<up, ack, owner, streamVars, clientVars, faults>>

\* The process ends: its streams are dropped and its connections closed.
Quit(r) ==
  /\ proc' = [proc EXCEPT ![r] = "done"]
  /\ linked' = linked \ {r}
  /\ far' = [c \in Client |-> IF at[c] = r /\ Live(c) THEN "over" ELSE far[c]]
  /\ queue' = [queue EXCEPT ![r] = << >>]
  /\ handling' = [handling EXCEPT ![r] = Nobody]
  /\ UNCHANGED <<up, ask, ack, owner, at, asked, reached, cut, clientVars, faults>>

DialerGivesUp(r) == proc[r] = "ready" /\ r \notin linked /\ Quit(r)

DialerReadsOk(r) ==
  /\ proc[r] = "asking" /\ ack[r] = "ok"
  /\ proc' = [proc EXCEPT ![r] = "serving"]
  /\ UNCHANGED <<up, linked, ask, ack, owner, streamVars, clientVars, faults>>

\* A refusal, or the end of the stream: run_dial returns the error.
DialerFails(r) == proc[r] = "asking" /\ ack[r] \in {"failed", "gone"} /\ Quit(r)

DialerStops(r) == Active(r) /\ Quit(r)

\* Mutant: the handler is spawned before the ack is awaited.
TakeIncomingEarly(r) ==
  /\ proc[r] \in {"asking", "serving"} /\ handling[r] = Nobody /\ queue[r] # << >>
  /\ handling' = [handling EXCEPT ![r] = Head(queue[r])]
  /\ queue' = [queue EXCEPT ![r] = Tail(@)]
  /\ far' = [far EXCEPT ![Head(queue[r])] = "reading"]
  /\ UNCHANGED <<up, runVars, at, asked, reached, cut, clientVars, faults>>

(***************************************************************************)
(* run_incoming_reverse_handler: one request at a time is read, and each   *)
(* connection runs in a task of its own.                                   *)
(***************************************************************************)
TakeIncoming(r) ==
  /\ proc[r] = "serving" /\ handling[r] = Nobody /\ queue[r] # << >>
  /\ handling' = [handling EXCEPT ![r] = Head(queue[r])]
  /\ queue' = [queue EXCEPT ![r] = Tail(@)]
  /\ far' = [far EXCEPT ![Head(queue[r])] = "reading"]
  /\ UNCHANGED <<up, runVars, at, asked, reached, cut, clientVars, faults>>

\* Mutant: the handler awaits the connection instead of spawning it.
ReadRequestInline(r) ==
  /\ handling[r] # Nobody /\ asked[handling[r]] # Nobody
  /\ far' = [far EXCEPT ![handling[r]] = "connecting"]
  /\ UNCHANGED <<up, runVars, at, asked, reached, cut, queue, handling, clientVars, faults>>

ReadRequest(r) ==
  /\ handling[r] # Nobody /\ asked[handling[r]] # Nobody
  /\ far' = [far EXCEPT ![handling[r]] = "connecting"]
  /\ handling' = [handling EXCEPT ![r] = Nobody]
  /\ UNCHANGED <<up, runVars, at, asked, reached, cut, queue, clientVars, faults>>

ReadFails(r) ==
  /\ handling[r] # Nobody
  /\ handling[r] \in cut \/ tcp[handling[r]] = "over"
  /\ far' = [far EXCEPT ![handling[r]] = "over"]
  /\ handling' = [handling EXCEPT ![r] = Nobody]
  /\ UNCHANGED <<up, runVars, at, asked, reached, cut, queue, clientVars, faults>>

\* Mutant: the run connects to the target of its own command line.
ConnectOwnTarget(c) ==
  /\ far[c] = "connecting"
  /\ far' = [far EXCEPT ![c] = "copying"]
  /\ reached' = [reached EXCEPT ![c] = Target[at[c]]]
  /\ UNCHANGED <<up, runVars, at, asked, cut, queue, handling, clientVars, faults>>

\* handle_forward_to_target, in its own task.
ConnectTarget(c) ==
  /\ far[c] = "connecting"
  /\ far' = [far EXCEPT ![c] = "copying"]
  /\ reached' = [reached EXCEPT ![c] = asked[c]]
  /\ UNCHANGED <<up, runVars, at, asked, cut, queue, handling, clientVars, faults>>

FarOver(c) ==
  /\ far' = [far EXCEPT ![c] = "over"]
  /\ UNCHANGED <<up, runVars, at, asked, reached, cut, queue, handling, clientVars, faults>>

ConnectFails(c) == far[c] = "connecting" /\ FarOver(c)

FarEnds(c) == far[c] = "copying" /\ c \in finished /\ FarOver(c)

\* Mutant: the copy does not notice that its peer is gone.
FarHearsCut(c) ==
  /\ far[c] = "copying" /\ c \in cut
  /\ \/ FarOver(c)
     \/ /\ far' = [far EXCEPT ![c] = "told"]
        /\ UNCHANGED <<up, runVars, at, asked, reached, cut, queue, handling, clientVars, faults>>

(***************************************************************************)
(* A stream that was reset or lost reads as an error, or as its end: the   *)
(* target is then told the end, and the copy waits for the target's.       *)
(***************************************************************************)
FarHears(c) ==
  /\ far[c] = "copying" /\ (c \in cut \/ tcp[c] = "over")
  /\ \/ FarOver(c)
     \/ /\ far' = [far EXCEPT ![c] = "told"]
        /\ UNCHANGED <<up, runVars, at, asked, reached, cut, queue, handling, clientVars, faults>>

-----------------------------------------------------------------------------
(* The listener's task for the request of run r.                           *)

Answer(r, a) == ack' = [ack EXCEPT ![r] = IF @ = "none" THEN a ELSE @]

\* Mutant: the refused stream is kept open.
RefuseSilently(r) ==
  /\ ask[r] = "asked" /\ ~Allowed(r)
  /\ ask' = [ask EXCEPT ![r] = "done"]
  /\ UNCHANGED <<up, proc, linked, ack, owner, streamVars, clientVars, faults>>

ListenerRefuses(r) ==
  /\ ask[r] = "asked" /\ ~Allowed(r)
  /\ ask' = [ask EXCEPT ![r] = "done"]
  /\ Answer(r, "gone")
  /\ UNCHANGED <<up, proc, linked, owner, streamVars, clientVars, faults>>

\* The request may be lost with its stream, or have arrived before that.
RequestLost(r) ==
  /\ ask[r] = "asked"
  /\ ack[r] = "gone" \/ proc[r] = "done"
  /\ ask' = [ask EXCEPT ![r] = "done"]
  /\ Answer(r, "gone")
  /\ UNCHANGED <<up, proc, linked, owner, streamVars, clientVars, faults>>

\* start_reverse_listener; from here on the port accepts clients.
ListenerBinds(r) ==
  /\ ask[r] = "asked" /\ Allowed(r) /\ owner[Port[r]] = Nobody
  /\ owner' = [owner EXCEPT ![Port[r]] = r]
  /\ ask' = [ask EXCEPT ![r] = "bound"]
  /\ UNCHANGED <<up, proc, linked, ack, streamVars, clientVars, faults>>

\* The port is taken, or the system refuses it for a reason of its own.
BindFails(r) ==
  /\ ask[r] = "asked" /\ Allowed(r)
  /\ ask' = [ask EXCEPT ![r] = "unbound"]
  /\ UNCHANGED <<up, proc, linked, ack, owner, streamVars, clientVars, faults>>

\* Mutant: the ack does not look at the result of the bind.
AckAlways(r) ==
  /\ ask[r] \in {"bound", "unbound"}
  /\ Answer(r, "ok")
  /\ ask' = [ask EXCEPT ![r] = "done"]
  /\ UNCHANGED <<up, proc, linked, owner, streamVars, clientVars, faults>>

ListenerAcks(r) ==
  /\ ask[r] \in {"bound", "unbound"}
  /\ Answer(r, IF ask[r] = "bound" THEN "ok" ELSE "failed")
  /\ ask' = [ask EXCEPT ![r] = "done"]
  /\ UNCHANGED <<up, proc, linked, owner, streamVars, clientVars, faults>>

-----------------------------------------------------------------------------
(* The listener's task for client c.                                       *)

Tcp(c, s) == tcp' = [tcp EXCEPT ![c] = s]

ClientConnects(c, p) ==
  /\ up /\ tcp[c] = "off" /\ owner[p] # Nobody
  /\ Tcp(c, "opening")
  /\ via' = [via EXCEPT ![c] = owner[p]]
  /\ UNCHANGED <<up, runVars, streamVars, finished, faults>>

(***************************************************************************)
(* open_stream asks for the peer of the bind, whichever run that is now,   *)
(* and dials it when it is not connected.  What libp2p-stream cannot queue *)
(* for that run it drops.                                                  *)
(***************************************************************************)
OpenBack(c, r) ==
  /\ tcp[c] = "opening" /\ Active(r) /\ Who[r] = Who[via[c]]
  /\ Tcp(c, "writing")
  /\ linked' = linked \cup {r}
  /\ at' = [at EXCEPT ![c] = r]
  /\ \/ /\ Len(queue[r]) < QueueCap
        /\ queue' = [queue EXCEPT ![r] = Append(@, c)]
        /\ far' = [far EXCEPT ![c] = "queued"]
     \/ /\ Len(queue[r]) >= QueueCap
        /\ far' = [far EXCEPT ![c] = "over"]
        /\ UNCHANGED queue
  /\ UNCHANGED <<up, proc, ask, ack, owner, via, finished, asked, reached, cut, handling, faults>>

\* Mutant: a stream that cannot be opened is tried again for ever.
RetryForever(c) == tcp[c] = "opening" /\ UNCHANGED vars

\* The peer cannot be dialed, or a connection to it takes no such stream.
OpenFails(c) ==
  /\ tcp[c] = "opening"
  /\ Tcp(c, "over")
  /\ UNCHANGED <<up, runVars, streamVars, via, finished, faults>>

WriteRequest(c) ==
  /\ tcp[c] = "writing"
  /\ Tcp(c, "copying")
  /\ asked' = [asked EXCEPT ![c] = Target[via[c]]]
  /\ UNCHANGED <<up, runVars, far, at, reached, cut, queue, handling, via, finished, faults>>

NearOver(c) ==
  /\ Tcp(c, "over")
  /\ UNCHANGED <<up, runVars, streamVars, via, finished, faults>>

WriteFails(c) == tcp[c] = "writing" /\ Broken(c) /\ NearOver(c)

NearEnds(c) == tcp[c] = "copying" /\ c \in finished /\ NearOver(c)

\* As FarHears.
NearHears(c) ==
  /\ tcp[c] = "copying" /\ Broken(c)
  /\ \/ NearOver(c)
     \/ /\ Tcp(c, "told")
        /\ UNCHANGED <<up, runVars, streamVars, via, finished, faults>>

-----------------------------------------------------------------------------
(* The ends of the bridge, and what fails.                                 *)

\* A half closed bridge goes on as before: only the second end is a step.
BothEnd(c) ==
  /\ tcp[c] = "copying" /\ far[c] = "copying"
  /\ finished' = finished \cup {c}
  /\ UNCHANGED <<up, runVars, streamVars, tcp, via, faults>>

\* A client or target that was told the end ends its input, or sends to a
\* stream that is gone.
ClientLeaves(c) == tcp[c] = "told" /\ NearOver(c)
TargetLeaves(c) == far[c] = "told" /\ FarOver(c)

\* A TCP connection reset by its other end fails the copy that reads it.
ClientResets(c) == tcp[c] = "copying" /\ NearOver(c)
TargetResets(c) == far[c] = "copying" /\ FarOver(c)

\* A run that waits for its ack finds the end of its stream, unless the ack
\* had arrived.
Unlink(rs) ==
  /\ linked' = linked \ rs
  /\ cut' = cut \cup {c \in Client : at[c] \in rs /\ Live(c)}
  /\ LET waits == {r \in rs : proc[r] = "asking"}
     IN  \E lost \in SUBSET {r \in waits : ack[r] # "none"} :
           ack' = [r \in Run |-> IF r \in lost \/ (r \in waits /\ ack[r] = "none")
                                 THEN "gone" ELSE ack[r]]

LoseConnection(r) ==
  /\ r \in linked /\ faults < MaxFaults
  /\ faults' = faults + 1
  /\ Unlink({r})
  /\ UNCHANGED <<up, proc, ask, owner, far, at, asked, reached, queue, handling, clientVars>>

\* with_idle_connection_timeout: a connection of which one side has no
\* stream any more is closed.
IdleTimeout(r) ==
  /\ r \in linked /\ ask[r] \in {"none", "done"} /\ proc[r] # "asking"
  /\ \/ \A c \in Client : at[c] = r => ~Live(c)
     \/ \A c \in Client : at[c] = r => ~Near(c)
  /\ Unlink({r})
  /\ UNCHANGED <<up, proc, ask, owner, far, at, asked, reached, queue, handling, clientVars, faults>>

\* The listener's process ends, with its ports and its tasks.  The runs do
\* not notice unless they wait for the ack.
ListenerStops ==
  /\ up
  /\ up' = FALSE
  /\ owner' = [p \in Ports |-> Nobody]
  /\ ask' = [r \in Run |-> IF ask[r] = "none" THEN "none" ELSE "done"]
  /\ tcp' = [c \in Client |-> IF Near(c) THEN "over" ELSE tcp[c]]
  /\ Unlink(Run)
  /\ UNCHANGED <<proc, far, at, asked, reached, queue, handling, via, finished, faults>>

-----------------------------------------------------------------------------
RunStep(r) ==
  \/ DialerAsks(r) \/ DialerGivesUp(r) \/ DialerReadsOk(r) \/ DialerFails(r)
HandlerStep(r) == TakeIncoming(r) \/ ReadRequest(r) \/ ReadFails(r)
RequestStep(r) ==
  \/ ListenerRefuses(r) \/ RequestLost(r) \/ ListenerBinds(r) \/ BindFails(r)
  \/ ListenerAcks(r)
NearStep(c) ==
  \/ \E r \in Run : OpenBack(c, r)
  \/ OpenFails(c) \/ WriteRequest(c) \/ WriteFails(c) \/ NearEnds(c) \/ NearHears(c)
FarStep(c) == FarEnds(c) \/ FarHears(c)
UserStep ==
  \/ \E r \in Run : StartDialer(r) \/ DialerStops(r)
  \/ \E c \in Client : \E p \in Ports : ClientConnects(c, p)
  \/ \E c \in Client : BothEnd(c) \/ ClientLeaves(c) \/ TargetLeaves(c)
  \/ \E c \in Client : ConnectTarget(c) \/ ConnectFails(c)
FaultStep ==
  \/ \E c \in Client : ClientResets(c) \/ TargetResets(c)
  \/ \E r \in Run : LoseConnection(r) \/ IdleTimeout(r)
  \/ ListenerStops

Next ==
  \/ \E r \in Run : RunStep(r) \/ HandlerStep(r) \/ RequestStep(r)
  \/ \E c \in Client : NearStep(c) \/ FarStep(c)
  \/ UserStep \/ FaultStep

(***************************************************************************)
(* The runtimes poll every task that can make progress.  Nothing is        *)
(* assumed of the users, of the targets (a connect may hang) or of faults. *)
(***************************************************************************)
Fairness ==
  /\ \A r \in Run : WF_vars(RunStep(r)) /\ WF_vars(HandlerStep(r)) /\ WF_vars(RequestStep(r))
  /\ \A c \in Client : WF_vars(NearStep(c)) /\ WF_vars(FarStep(c))

Spec == Init /\ [][Next]_vars /\ Fairness

-----------------------------------------------------------------------------
(* Properties.                                                             *)

(***************************************************************************)
(* Types of the variables of the reverse forwards.                         *)
(***************************************************************************)
TypeOK ==
  /\ up \in BOOLEAN
  /\ proc \in [Run -> {"off", "ready", "asking", "serving", "other", "done"}]
  /\ linked \subseteq Run
  /\ ask \in [Run -> {"none", "asked", "bound", "unbound", "done"}]
  /\ ack \in [Run -> {"none", "ok", "failed", "gone"}]
  /\ owner \in [Ports -> Run \cup {Nobody}]
  /\ tcp \in [Client -> {"off", "opening", "writing", "copying", "told", "over"}]
  /\ far \in [Client -> {"none", "queued", "reading", "connecting", "copying", "told", "over"}]
  /\ via \in [Client -> Run \cup {Nobody}] /\ at \in [Client -> Run \cup {Nobody}]
  /\ asked \in [Client -> Targets \cup {Nobody}]
  /\ reached \in [Client -> Targets \cup {Nobody}]
  /\ finished \subseteq Client /\ cut \subseteq Client
  /\ queue \in [Run -> Seq(Client)] /\ \A r \in Run : Len(queue[r]) <= QueueCap
  /\ handling \in [Run -> Client \cup {Nobody}]
  /\ faults \in Nat

(***************************************************************************)
(* A run serves only while the port it asked for is bound, and bound by    *)
(* its own request: a run that is refused because an earlier one still     *)
(* holds the port never takes that one's clients for its own               *)
(* (listen.rs:129-143, reverse.rs:105-118).                                *)
(***************************************************************************)
AckMeansOwned ==
  up => \A r \in Run : proc[r] = "serving" => owner[Port[r]] = r

(***************************************************************************)
(* A client is bridged to the target that the bind of its port named, by a *)
(* run of the identity that bound it, whichever runs of that identity came *)
(* and went in between (reverse.rs:47-64, 133-137).                        *)
(***************************************************************************)
ReachesItsTarget ==
  \A c \in Client :
    far[c] \in {"copying", "told"} => /\ reached[c] = Target[via[c]]
                                       /\ Who[at[c]] = Who[via[c]]

(***************************************************************************)
(* Every stream a live run holds is held once: in its queue, by its        *)
(* handler or by a task; and only a run whose bind was acknowledged has    *)
(* taken any from its queue (dial.rs:168-178, reverse.rs:124-141).         *)
(***************************************************************************)
Places(r, c) == Cardinality({i \in 1..Len(queue[r]) : queue[r][i] = c})
                  + (IF handling[r] = c THEN 1 ELSE 0)

HeldOnce ==
  /\ \A r \in Run : \A c \in Client :
       Places(r, c) = IF at[c] = r /\ far[c] \in {"queued", "reading"} THEN 1 ELSE 0
  /\ \A c \in Client :
       far[c] \in {"reading", "connecting", "copying", "told"} => proc[at[c]] = "serving"

(***************************************************************************)
(* A run that asked learns the outcome: request_reverse_forward has no     *)
(* timeout on read_exact, so that a refusal, a failed bind and every loss  *)
(* must reach it as an answer or as the end of the stream.                 *)
(***************************************************************************)
AskAnswered ==
  \A r \in Run : proc[r] = "asking" ~> proc[r] \in {"serving", "done"}

(***************************************************************************)
(* A stream queued at a -R run, also one queued before the run read its    *)
(* ack, is dispatched, though other clients' targets hang (reverse.rs:124, *)
(* 136: the connection is spawned).                                        *)
(***************************************************************************)
QueuedIsServed ==
  \A c \in Client :
    far[c] = "queued" /\ at[c] \in ReverseRuns ~> far[c] \in {"connecting", "copying", "told", "over"}

(***************************************************************************)
(* A client that the listener accepted is bridged, told the end or closed, *)
(* whatever happens to the run of its bind; except while its target hangs, *)
(* or when the identity is now used by a run that is not in -R mode and    *)
(* never reads its IncomingStreams (dial.rs:139, 152).                     *)
(***************************************************************************)
Stranded(c) == far[c] = "queued" /\ at[c] \notin ReverseRuns

ClientResolved ==
  \A c \in Client :
    tcp[c] = "opening" ~>
      tcp[c] \in {"told", "over"} \/ far[c] \in {"connecting", "copying", "told"} \/ Stranded(c)

(***************************************************************************)
(* When one side of a bridge is gone, or its stream is lost, the other is  *)
(* told the end or closed: neither a client nor a target waits on a bridge *)
(* that has only one side.  (It may leave the bridge half open itself.)    *)
(***************************************************************************)
BridgeUnwinds ==
  \A c \in Client :
    /\ far[c] = "over" ~> tcp[c] \in {"told", "over"}
    /\ tcp[c] = "over" /\ far[c] = "copying" ~> far[c] \in {"told", "over"}
=============================================================================
