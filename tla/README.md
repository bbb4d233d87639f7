# A TLA+ model of sape

sape tunnels byte streams between two machines over libp2p: `sape listen` on
one side, `sape dial` on the other, `sape relay` in between.  This directory
holds TLA+ modules translated from the Rust sources (`src/*.rs`; line numbers
below are theirs), TLC configurations that check them on small instances, and
TLAPS proofs of some of the results for every value of the constants.

## The system

| part | source | state it keeps | operations |
|---|---|---|---|
| addresses | `types.rs` | none | read the relay, the listener and the first peer of a multiaddr |
| jump chain, relay | `relay.rs`, `jump.rs` | per stream: chain, attempt, two streams; shared: dial channel (32), swarm connections | accept, read chain, dial, open with 10 attempts, forward chain, relay result, copy |
| jump chain, dialer | `client/dial.rs:32` | one stream, the result | connect, open, write chain, read result, netcat |
| listener | `client/listen.rs` | allowlist, one task per tunnel stream | check peer, read request, dispatch |
| netcat | `netcat.rs`, `tunnel.rs` | process stdin and stdout | copy both ways until both ends |
| local forward | `forward/local.rs` | bound port on the dialer | accept, open, request, copy |
| reverse forward | `forward/reverse.rs`, `forward/mod.rs` | bound port on the listener, queue of incoming streams on the dialer | request, bind, ack, accept, open back, dispatch |
| proxy | `forward/socks5.rs` | bound port on the dialer | peek, SOCKS5 or CONNECT handshake, open, reply, copy |
| connection set-up | `client/swarm.rs` | swarm events, deadlines | connect and identify, wait for mDNS, wait for discovery, wait for a peer |
| relay behaviours | `relay.rs:41` | libp2p's own | circuit relay, rendezvous, autonat, identify |
| identity | `types.rs:59` | a key file, shared by all starts with its path | load or create |
| pairing codes | `pairing.rs` | none | generate, recognise |
| command line | `cli.rs`, `interactive.rs`, `types.rs:165`, `lib.rs` | none | parse, ask, dispatch |

How they meet: the dialer and each relay talk over a `/sape/jump/1.0.0`
stream, the last relay (or a direct dialer) and the listener over
`/sape/tunnel/1.0.0`.  On a jump stream a chain frame goes down, a result
frame comes back, and from then on the same stream carries user data.  Inside
a relay, a task spawned per accepted stream hands dial commands through a
bounded channel to the loop that owns the swarm, and opens streams through a
control handle of the same swarm.  The listener spawns one task per accepted
stream.  Every task is a tokio task: they interleave at every `await`.

What is hard here:

- The result travels up a chain of tasks, each of which has to answer, or to
  drop its stream, on every path; the dialer has no timeout (`dial.rs:68`).
- Control frames and data share a stream (`relay.rs:268`).
- Dialing is asynchronous to opening: ten attempts race one dial whose failure
  is only logged (`relay.rs:172`, `relay.rs:226`).
- Crashes, lost streams and exits at any point must unwind every task.
- The peer that is dialed and the peer a stream is opened to are read from the
  same address by different code.
- A proxy tells its client of success before it knows of any, and reads a
  handshake through a buffer it then drops (`socks5.rs:85`, `socks5.rs:104`).
- Sessions at one listener share its stdin, and a read of it outlives the
  session that began it (`netcat.rs:11`).
- The key file is created and written in two steps, by whoever finds none.

What makes each part correct is stated as properties below.

## Modules

| module | what it is |
|---|---|
| `Multiaddr` | addresses as sequences of components; the readers of `types.rs` |
| `CommandLine` | targets, codes, flags and prompts: from a text to the dial that is run |
| `MCMultiaddr` | every text up to a length, and the laws between those who write and read it |
| `JumpChain` | one jump chain, from the dialer's connection to the last byte |
| `TunnelPipe` | what a netcat tunnel promises its two users; `JumpChain` implements it |
| `JumpChainInv` | the inductive invariant `IInv` of `JumpChain`, and its strengthening `PipeInv` |
| `MCJumpChain` | instances of `JumpChain` for TLC |
| `ReverseForward` | `-R`: requests, bound ports, streams opened back, bridges |
| `ReverseForwardInv` | the inductive invariant `IInv` of `ReverseForward` |
| `ReverseForwardProofs` | the theorems about it |
| `MCReverseForward` | instances of `ReverseForward` |
| `Sessions` | netcat, `-L` and `-D` sessions at one listener; each implements `TunnelPipe` |
| `SessionsInv` | the inductive invariant `IInv` of `Sessions` |
| `SessionsProofs` | the theorems about it, the refinement of `TunnelPipe` among them |
| `MCSessions` | instances of `Sessions` |
| `Identity` | the key file, its inductive invariant included |
| `IdentityProofs` | the theorems about it |
| `Connect` | how a dialer finds and reaches a listener |
| `ConnectInv` | the inductive invariant `IInv` of `Connect` |
| `ConnectProofs` | the theorems about it |
| `MCConnect` | instances of `Connect` |
| `MultiaddrProofs` | lemmas about `Multiaddr` |
| `TextProofs` | the laws of `MCMultiaddr` for texts of every length |
| `JumpChainProofs` | types, the induction for `IInv`, and the theorems that follow from it |
| `JumpChainPipe` | the induction for `PipeInv`, and the theorems that follow from it, the refinement of `TunnelPipe` among them |

### Multiaddr

Of a component only the protocol and, for `/p2p`, the peer matter.
`PeerIdFromMultiaddr` is the first `/p2p`, `RelayBaseFromCircuitAddress` the
part before the first `/p2p-circuit` and the last `/p2p` after it, with the
errors in the order of the code.  `DialAddress` is what `run_listen` prints.

### CommandLine

A text is a sequence of the pieces that its parsers tell apart: components of a
multiaddr, parts of a code, a peer id, and `/mdns/` with what follows.  Each
operator is one reader or writer: `DialTarget` is `DialTarget::from_str`,
`Generate` and `IsPairingCode` are `pairing.rs`, `RunListen` is what
`run_listen` prints and where it registers, `RunDial` what `run_dial` connects
to and whom it expects, `CliDial` the way there from the command line and
`PromptDial` the way from the prompts.  Numbers and words of a code are classes
("number" to 99, "large", "word", "noise"); which words are in the list is data.

### JumpChain

Nodes `0..N+1` are the dialer, one task per hop and the listener's task; link
`l` is the stream between `l` and `l+1`, with a queue of frames and the state
of the writing end per direction.  Frames are `chain`, `ok`, `err`, `req`
(the netcat request) and `data`.

| state | code |
|---|---|
| `pc[n]` | where `run_dial`, `handle_jump_request` or the listener's task is |
| `hops`, `attempt` | locals of `handle_jump_request`; `hops[0]` is `-J` with the target |
| `host[n]` | the peer a task runs on |
| `dialq`, `dialing`, `conn` | the dial channel, the pending dials and the connections of a relay's swarm |
| `chan`, `end`, `cut` | the streams: frames in flight, ends shut or dropped, streams lost |
| `verdict` | what the dialer read as the outcome |
| `sent`, `recv`, `heard` | what the users typed and saw, and whether the end of it reached the other user's process |

| action | code |
|---|---|
| `DialerConnect`, `DialerOpen`, `DialerGivesUp` | `dial.rs:47-63`, `swarm.rs:16` |
| `ForwardChain(0)`, `DialerReadsOk`, `DialerFails`, `DialerIoFails` | `dial.rs:65-76` |
| `StartNetcat`, `DialerBails` | `dial.rs:78-98` |
| `ReadChain`, `RefuseChain` | `relay.rs:191-209`, `jump.rs:19` |
| `SendDial`, `SwarmDial`, `DialOutcome` | `relay.rs:213`, `relay.rs:169`, the swarm |
| `OpenStream`, `RetryOpen`, `OpenFails` | `relay.rs:225-245` |
| `ForwardChain`, `AwaitOk`, `AwaitErr`, `Reply` | `relay.rs:249-265` |
| `TaskIoFails` | every `?` on a stream operation |
| `CopyData`, `CopyEof`, `CopyError`, `CopyDone` | `relay.rs:268-270` |
| `ListenerReadsRequest`, `ListenerRefuses` | `listen.rs:99-119` |
| `Type`, `StdinEof`, `Show`, `OutputEof`, `NetcatDone`, `NetcatError` | `netcat.rs:10` at both ends |
| `LoseStream`, `CrashRelay`, `ExitUser` | the network, Ctrl-C or a crash |

A node that returns drops both its streams: what it wrote stays readable, what
it had not read is lost, and a half it had not shut is reset (`Leave`).  A
write to a stream that is lost or whose reader is gone may succeed or fail:
both are taken.  An attempt to open a stream may fail at any time, connected or
not, so that a lost connection, a full accept queue or an unsupported protocol
need no steps of their own.

`heard` is an end that the copy to stdout met.  The shutdown of a tokio
`Stdout` shows nothing, and `run_netcat` waits on for stdin (`netcat.rs:11-13`):
the process knows that the session is over, its user need not.

Two abstractions to know of.  The code answers an empty chain with an error
(`relay.rs:195-202`); `ChainShrinks`, which is proved, says that no chain of
this dialer is ever empty, so the branch is not an action.  And the copy loops
move one frame at a time without a buffer limit, so a writer never waits for a
slow reader.

### ReverseForward

A run is one `sape dial` process, a peer the identity it uses, a client one TCP
connection to a port the listener bound for some run.  The listener knows
peers, not runs, and its ports outlive the run that asked for them: a stream
for an old port may reach a later run of the same identity.  Two runs of one
identity are never up together (an assumption about its users).

| state | code |
|---|---|
| `proc`, `handling`, `queue` | where `run_dial` is; the request its handler reads; its `IncomingStreams` |
| `ask`, `ack` | the listener's task for a request; what the run finds on the stream |
| `owner` | which run's request bound a port (`start_reverse_listener`) |
| `tcp`, `via` | the listener's task for a client, and the bind that accepted it |
| `far`, `at`, `asked`, `reached` | the stream opened back, its run, the target it carries, the target connected |
| `linked`, `cut` | connections to the runs, streams lost with one |

| action | code |
|---|---|
| `StartDialer`, `DialerStops` | `dial.rs:103-150`, the end of the process |
| `DialerAsks`, `DialerGivesUp`, `DialerReadsOk`, `DialerFails` | `reverse.rs:91-118` |
| `TakeIncoming`, `ReadRequest`, `ReadFails` | `reverse.rs:124-145` |
| `ConnectTarget`, `ConnectFails`, `FarEnds`, `FarHears` | `local.rs:58-66` |
| `ListenerRefuses`, `RequestLost` | `listen.rs:100-111` |
| `ListenerBinds`, `BindFails`, `ListenerAcks` | `reverse.rs:25-36`, `listen.rs:127-150`, `forward/mod.rs:17` |
| `ClientConnects`, `OpenBack`, `OpenFails` | `reverse.rs:38-58`, `forward/mod.rs:35` |
| `WriteRequest`, `WriteFails`, `NearEnds`, `NearHears` | `reverse.rs:60-76` |
| `IdleTimeout` | `builder.rs:47`, by either side when it has no streams |
| `BothEnd`, `ClientLeaves`, `TargetLeaves`, `ClientResets`, `TargetResets`, `LoseConnection`, `ListenerStops` | users, targets, the network, Ctrl-C |

`libp2p-stream` keeps `QueueCap` streams of an `IncomingStreams` that nobody
reads and drops the next; it is external, and `QueueCap` is a constant.  Data
on a bridge is left out (`Sessions` is about it); `-g` only picks the
interface of the bind.  A copy whose other side is gone either fails or passes
the end on and then waits, "told", for its own peer to end too: it may wait for
ever (`FarHears`, `NearHears`).

### Sessions

A session is one connection to the port of `-L` or `-D`, or one netcat dialer.
Direction `f` runs from the application to the target, `b` back; `task.f` is
the dialer's task of the session, `task.b` the listener's.  The kinds "bind",
"copy" and "junk" are clients that a proxy must refuse.

| state | code |
|---|---|
| `task` | where the tasks are: the backlog of a port, the handshake, the copy; the listener's queue, its request, its connect |
| `sock`, `peer`, `spoke`, `said` | the TCP connections (or stdin) and what their owners sent |
| `ahead`, `lost` | the `BufReader` of `handle_http_connect` (`socks5.rs:104`) and the bytes dropped with it |
| `chan`, `shut`, `cut` | the stream and its loss |
| `sent`, `got`, `told`, `failed` | what the copies took and gave, ends passed on, abnormal ends |
| `pending`, `typed` | blocking reads of the listener's stdin, and who got each line |

| action | code |
|---|---|
| `Accept`, `Peek` | `local.rs:27`, `socks5.rs:31-56` |
| `ReadSocks`, `HandshakeFails` | `socks5.rs:58-83` |
| `Fill`, `ReadLine`, `ReadHeaders` | `socks5.rs:103-130` |
| `OpenStream`, `OpenFails`, `WriteRequest`, `WriteFails` | `forward/mod.rs:35`, `local.rs:34-47`, `dial.rs:158`, `tunnel.rs` |
| `Reply` | `socks5.rs:85`, `socks5.rs:145` |
| `Dispatch`, `ReadRequest`, `RequestLost` | `listen.rs:96-119` |
| `TargetConnects`, `TargetFails` | `local.rs:58-66` |
| `Take`, `TakeEnd`, `Give`, `GiveEnd`, `Finish`, `CopyFails` | `tunnel_copy` and netcat's copies, at both sides |
| `TypeLine`, `StdinEnds` | `netcat.rs:11`: tokio's stdin is read by a blocking thread that nothing stops |
| `AppConnects`, `AppSpeaks`, `Says`, `EndsInput`, `Resets` | applications and targets |
| `LoseConnection`, `ProcessStops` | the network, Ctrl-C, a crash, an error of `accept` |

Streams and sockets take the few bytes of an instance, so that a write does not
wait for a slow reader.  Each copy takes and gives one byte at a time.

### Identity

`file` is absent, torn (empty or half written) or a key, named by the process
that made it.  `Start` is `path.exists()`, `Load` the read and its parser,
`Create` and `Write` the two halves of `fs::write`, `CreateFails` and
`WriteFails` its errors, `Stop` a kill at any point (`types.rs:59-74`).
`rivals` is bookkeeping: processes that were making a key while another was.

### Connect

A client polls its swarm inside one loop at a time, so a step of the network is
a step of the loop that sees its event, or is lost on it.  `phase` is that
loop; `learned` and `told` are the two flags of `connect_and_identify`;
`expected` is the peer the dialer waits for; `calm`, chosen at the start, says
that nothing stops or is lost and that the deadlines are far off; `dials`, `conn` the swarm's dials
and connections; `reserving`, `registering` and their participles what the
relay was asked for and has granted.

| action | code |
|---|---|
| `Start`, `IdentifyReceived`, `IdentifySent` | `swarm.rs:16-61`, `listen.rs:36`, `dial.rs:103-115` |
| `ListenerReady` | `listen.rs:39-84` |
| `DialerIdentified` | `dial.rs:106-109`, `dial.rs:124-134` |
| `Discovered`, `DiscoverFailed` | `swarm.rs:162-209` |
| `MdnsDiscovered` | `swarm.rs:125-134` |
| `Connected`, `StrangerConnects` (through `Established`), `DialFails` | `swarm.rs:75-85`, `swarm.rs:138-145` |
| `RedialRelay` | libp2p's relay client |
| `Deadline` | `swarm.rs:13-14` and the three `timeout`s |
| `Reserve`, `ReserveFails`, `Register`, `RegisterFails` | the relay; `drive_client_swarm` goes on |
| `ListenerStops`, `LoseRelay`, `RelayDialFails` | exits, the network |

A circuit and a reservation need the client's own connection to the relay
(`OnRelay`).  With none, libp2p's relay client dials the relay itself
(`RedialRelay`), unless the client's own dial is still under way: then the
circuit or the reservation may fail, or wait for that dial.  A client gets there
with its dial under way when a stranger's identify exchange ended
`connect_and_identify` (`swarm.rs:36`).

## Properties and runs

| property | says |
|---|---|
| `TargetsLeadBack` | whatever a listener prints leads `sape dial` back to it: to its peer over its relay, or to the registry and code of its registration |
| `PromptsAgree` | the prompts run the dial that the command line runs for the same answers |
| `ParsedBaseIsTheRelay` | the base `run_dial` connects to and the whole address name the same relay |
| `OkMeansBridged` | the dialer reads Ok only when every relay it named copies, on the right peers |
| `ErrorIsGenuine` | an Error comes from a relay that used all its attempts, with nobody after it and nobody still serving before it |
| `ChainShrinks` | each hop takes itself off the path; only the last opens the tunnel stream |
| `FramesInStep` | no task reads data for a result, a result for data or a request for a chain |
| `PipeRefinement` | the chain of copies is one ordered pipe (`TunnelPipe`) |
| `DialerResolves` | a dialer that wrote its chain gets an answer |
| `LossReachesDialer` | the end of a session that lost a part, or was refused after its Ok, reaches the dialer's process |
| `ChainReleased` | relays let go of everything once the dialer is gone |
| `AckMeansOwned` | a run that serves owns the port it asked for |
| `ReachesItsTarget` | a client reaches the target named by the bind that accepted it, at the identity that bound it |
| `HeldOnce` | a stream opened back is in one place, and taken only by a run that read its ack |
| `AskAnswered` | a run that asked learns the outcome, without a timeout |
| `QueuedIsServed` | a queued stream is dispatched though other targets hang |
| `ClientResolved` | an accepted client is bridged, told the end or closed, unless its stream sits with a run that never reads |
| `BridgeUnwinds` | when one side of a bridge is gone the other is told the end or closed |
| `OnlyEarlyBytesLost` | a target gets what its application sent, in order; only an HTTP client may lose bytes, those it sent before it was told of success |
| `OnlyWholeRequests` | a stream is opened only for a request that may be served and was sent whole (or cut off within HTTP headers) |
| `TypingLost` | a line typed at the listener goes to one session; a session that ended takes at most one with it |
| `SessionsArePipes` | each session implements `TunnelPipe`, whatever the others do |
| `HandshakeResolved` | a client that sent its request gets on though others are silent in theirs |
| `EndIsHeard` | that the other side refused, failed or left is passed on to a client told of success, as the end of its connection (at a netcat end, to the process) |
| `BytesArrive` | bytes a copy took arrive, or the session fails |
| `IdentityPersists` | the identity a process ran with stays the one in the file, unless first starts overlapped |
| `RefusedOnlyTorn` | a start is refused only on account of a writer that is under way or ended halfway |
| `FindsItsPeer` | a dialer gets ready only with a connection to the peer its target stands for |
| `TargetReached` | a dialer whose listener can be found finds it, whoever else connects; for a circuit address, if it is on the relay when it goes on |
| `SetupEnds` | a set-up ends, with a connection or an error |
| `PipeInv` | every frame in the chain has its place: what went through each node, whose answer is due, which ends may follow |
| `IInv`, `TypeOK` | the inductive invariant of the proofs, and the types (which are a part of it); each component with state has its own |

| run | instance | states | shows |
|---|---|---|---|
| `addresses` | addresses of up to 5 components, other texts of up to 4 pieces, 2 peers | 86 712 | the laws between texts and dials; 5 components is a relay address with a transport, its peer, a circuit, a listener and one more |
| `chain` | 2 relays, 2 attempts, 2 bytes each way, 1 fault | 969 196 | the safety properties and the refinement |
| `chain_live` | the same with 1 byte each way | 186 000 | the three liveness properties, and `PipeInv` (the request and one byte already show order) |
| `chain_loop` | 3 hops over 2 connected relays, last relay not on the allowlist | 209 759 | the end of a chain that was reported up and is refused; one crash that takes two tasks; a task that waits for room in the dial channel |
| `chain_nameless` | a target without a peer id | 292 | the silent refusal by the last relay |
| `chain_circuit_target` | the target is a circuit address | counterexample | see Findings |
| `reverse` | 2 runs of one identity, a rival for the port, 2 clients, 1 lost connection | 3 942 642 | the safety properties of reverse forwards |
| `reverse_live` | a `-R` run, a later netcat run of its identity, a run not allowed, 2 clients | 211 361 | the liveness properties |
| `connect` | 3 kinds of target, 2 listeners with one code, a stranger, either calm or with 1 fault and deadlines | 344 696 | the right peer, an end of every set-up, and what is reached without a deadline |
| `connect_printed` | 1 listener, a code | counterexample | see Findings |
| `sessions` | each served kind alone with up to 2 bytes and 1 fault; pairs that share the proxy, the queue or stdin, without data | 200 104 | the eight properties of sessions |
| `identity` | 4 starts | 24 652 | the key file |

Bounds.  Two relays give a first, a last and a hop between two jump streams;
three hops add a relay whose both neighbours are relays.  Two attempts are one
that is retried and one that is not; the dial channel holds one command, so
that it is full whenever a command is in it, and in `chain_loop` the second
task of a relay, which is already connected where the first one goes, meets it
full.  Two bytes show order, and that
an end does not overtake data.  One fault, at any point, of any kind: with it
a chain already meets every broken neighbour.  Three runs are the least with
both a successor and a rival; two clients are one that waits behind the other,
and with a queue of one also one that is dropped.  Sessions meet each other only at
the accept loop, the queue and stdin, so pairs show what one does to another,
and what happens within one is shown alone; two bytes are one that is lost with
the reader and one that follows it.  Four starts are two that overlap, one
that was there before and one that comes after.  Four pieces hold a code with
one too many, five a circuit address.  Two listeners give a code
with a choice and an mDNS announcement that is not the target's.  `CHECK_DEADLOCK FALSE`: a chain
that is over, and one whose users do nothing, stops.

Fairness.  Weak fairness of each relay task, each swarm, the dialer, the
listener's task and each netcat session: tokio polls every task that can make
progress, and none of them waits for another while holding something shared.
Users are not fair: they may never type, end their input, or notice a write
that failed.  Faults are not fair, nor is a connect to a target, which may hang.
In `Connect` the dials, identify exchanges and the relay's answers are fair,
because the network is up unless a fault says otherwise; so are the deadlines
where `calm` is false; where it is true they never expire, and nothing may
depend on them.  In `Sessions` the dialer's and the listener's task of each
session are fair, and applications, users and targets are not: they may be
silent, never end, and never accept a connection.

## What is proved

`JumpChainProofs`, from the assumptions on the constants in `Multiaddr` and
`JumpChain` (a listener that is no relay, at least one jump address, positive
bounds) and for every number of relays, every path and every bound:

- `InductiveInvariant`: `Spec => []IInv`
- `TypeCorrect`: `Spec => []TypeOK`
- `OkIsBridged`: `Spec => []OkMeansBridged`
- `PathFollowed`: `Spec => []ChainShrinks`

`OkMeansBridged` is not inductive: an Ok in flight must already stand for a
bridge below, whoever reads it.  `IInv` says so (`OkBacked`), and adds what
keeps it true: a chain frame is alone in its stream with a reader that has not
moved (`ChainAlone`), nobody exists or is written to beyond the point the chain
has reached (`NobodyAhead`), tasks hold exactly the rest of the path
(`HopsHeld`) and run where it says (`HostsFollowPath`).  Even `TypeOK` needs
this much: that the chain a task forwards has a tail rests on `HopsHeld`, which
rests on `ChainAlone`.

The proof has three layers.  The first brings every way of returning to
one form (`Quits`) and does the types action by action.  `StepCases` then
groups the steps; `PcEffect` and `StreamEffect` say what any step does to one
node and to one stream.  Each part of `IInv` follows from these two without
looking at the actions again.

`JumpChainPipe`, from the same assumptions and for every number of relays:

- `PipeInvariant`: `Spec => []PipeInv`
- `ErrorGenuine`: `Spec => []ErrorIsGenuine`
- `InStep`: `Spec => []FramesInStep`
- `Refines`: `Spec => PipeRefinement`, the refinement of `TunnelPipe`

`IInv` says what an Ok stands for, not where a byte is.  `PipeInv`, inductive
together with it, adds for each direction a count per node, the items (request
and bytes) that went through it: counts fall along the direction, and a link
holds exactly the items between the counts of its two ends, in order, behind at
most one control frame, or nothing once it is broken (`InOrder`, `Wire`).
Whether a control frame comes first is what the reader is about to read, which
needs that a task answers once and that its answer stays until it is read or
lost (`AnswersKept`), and that whoever sets up a hop is waited for
(`AskedFor`).  From `Wire` follows `FramesInStep`.  `ErrorIsGenuine` needs that
an Error anywhere in the chain already has a task that gave up, with everyone
between failed and nobody beyond (`ErrBacked`, `NobodyBeyond`), since the task
that wrote it is gone when it is read.

For the refinement the ends matter too: they follow the nodes that write
(`EndsKept`), what a user's process heard as an end is one (`SessionsKept`), and unless
something failed an end is passed on only behind everything else and only once
it has come in (`EndBehind`, `CleanEnds`).  "Failed" is a fault or a failed
session of either user: a listener that refuses drops its stream without a
fault, and an end reaches the dialer, whose bytes are lost then, while the pipe
still is `requested`.  Each step of the chain is then one step of the pipe, or
none: `Type` sends, `Show` delivers because the head of the last link is the
next item by `Wire`, `OutputEof` takes in an end because with nothing failed the
counts at the last link equal what the user put in, `StartNetcat` and
`ListenerReadsRequest` begin a session, a fault breaks the pipe, and every other
step ends at most one user's input (`PipeUnseen`).

`TextProofs`, from the assumption on the constants in `Multiaddr`: `LeadBack`
(`Spec => []TargetsLeadBack`), `BaseIsTheRelay` (`Spec =>
[]ParsedBaseIsTheRelay`) and `SameDial` (`Spec => []PromptsAgree`).  Each
follows from the text being a sequence of pieces (`Text`) alone, so that the
bounds `MaxLen` and `MaxOther` play no part.  What they rest on is that the
first and the last component of a kind exist and that the first is unique
(`FirstOfProperties`, `FirstOfIs`, `LastOfProperties`), by way of a least
element of a set of naturals and without induction.

`IdentityProofs`, for any set of processes: `Inductive` (`Spec => []IInv`),
`TypesCorrect`, `StableIdentity` (`Spec => []IdentityPersists`) and
`RefusalsHaveAuthors` (`Spec => RefusedOnlyTorn`).  `IdentityPersists` says
nothing of a process that is about to overwrite the file.  `IInv` adds that such
a process knows only keys of rivals, so that no promise is broken when it writes
(`MakersAreRivals`), that there is nothing to know while there is no file
(`NothingYet`), and that a torn file has someone who is writing it or ended
halfway (`TornHasAuthor`), from which the action property follows.

`ReverseForwardProofs`, for any runs, identities, ports, targets and clients, an
allowlist of any peers, a queue of any positive size and any number of lost
connections:

- `Inductive`: `Spec => []IInv`; `TypeCorrect`: `Spec => []TypeOK`
- `ServesWhatItOwns`: `Spec => []AckMeansOwned`
- `TargetIsReached`: `Spec => []ReachesItsTarget`
- `StreamsHeldOnce`: `Spec => []HeldOnce`

An Ok that is written but not yet read must already be backed by a bind of that
very run (`AcksBacked`).  A client keeps the bind that accepted it, the stream
opened for it is at a run of that identity, and the target travels from the one
to the other (`TargetTravels`).  `HeldOnce` counts a stream's places; that its
place and its state agree is `QueuesHold` and `HandlersHold`, in both
directions, and that only runs which serve take streams is `TakenByServing`.
Types alone are not inductive here either: the target a stream asks for is one
only because its client kept a bind.

`ConnectProofs`, for any listeners, strangers, kinds of target and faults:
`Inductive`, `TypeCorrect` and `RightPeerFound` (`Spec => FindsItsPeer`, an
action property).  What a dialer waits for is a peer its target stands for at
every step of the wait (`WaitsForMeant`); registrations only grow, so that a
discovered peer does not become a wrong one; and listeners dial nobody but the
relay (`ListenersDialRelay`), so that links are between two peers.

`SessionsProofs`, for any finite set of clients of any kinds, any bounds on
their bytes and any number of faults:

- `Inductive`: `Spec => []IInv`; `TypeCorrect`: `Spec => []TypeOK`
- `EarlyBytes`: `Spec => []OnlyEarlyBytesLost`
- `WholeRequests`: `Spec => []OnlyWholeRequests`
- `FewLinesLost`: `Spec => []TypingLost`
- `EachIsAPipe`: `Spec => SessionsArePipes`, the refinement of `TunnelPipe`

That clients are finite (`SessionsAssumption`) is needed to count the lines of
stdin; a process has finitely many sessions.  `OnlyEarlyBytesLost` speaks of
`got` alone.  `IInv` places every byte: those in `sock` and in the `BufReader`
come right after those that were taken (`InputInOrder`), those in the stream
right after those that were given (`BytesInOrder`), with the gap of what the
`BufReader` took with it, which is fixed before the first byte is taken.  It
also says what the dialer's task has seen of the handshake (`Handshake`, from
which `OnlyWholeRequests` follows), which stages of the two tasks meet
(`Progress`), that nothing follows an end and no end is made up unless
something failed (`EndsInOrder`), and to whom a pending read of stdin belongs
(`Stdin`, the one part that relates sessions: each line that was dropped is paid
for by a session that is over and has no read left).

The proof first says what every action does to one session, as a relation
between its state before and after that names neither the other sessions nor
the action's guard on shared state (`SessionStep`).  Each part of `IInv` except
`Stdin`, and the refinement, then follow from these relations without looking
at the actions again.  The refinement goes step by step: every relation is one
step of `TunnelPipe` or leaves what is visible of it alone, and both invariants,
before and after the step, tell which.

Every invariant, every action property and both refinements that a run checks
are proved.  Only model-checked are the liveness properties, which are beyond
the prover (fairness and ENABLED): `DialerResolves`, `LossReachesDialer`,
`ChainReleased`, `AskAnswered`, `QueuedIsServed`, `ClientResolved`,
`BridgeUnwinds`, `HandshakeResolved`, `EndIsHeard`, `BytesArrive`, `SetupEnds`
and `TargetReached`.  The two runs under Findings expect a violation.

## Findings

`chain_circuit_target`: with the circuit address of the README as target of a
jumped dial, the last relay opens its tunnel stream to the relay in that
address.  `handle_jump_request` dials the whole address but takes the peer of
the stream from `peer_id_from_multiaddr`, the first `/p2p` (`relay.rs:208`,
`types.rs:147`), while `docs/architecture.md:184` has the stream go to the
listener.  The stream never reaches the listener and the dialer reads an
Error after ten attempts.  With the listener's own address as target (the other
runs) the chain works.

`connect_printed`: README.md:167-176 has the listener print a code and the
dialer use it.  `run_listen` prints it when the registration has only been
queued (`listen.rs:54-58`); a dialer whose discover request is answered before
gets an empty list and waits on without asking again (`swarm.rs:173`), until
its deadline ends it.  In the counterexample the dialer is started after the
code was printed.  `TargetReached` says when the wait does succeed.

Three behaviours no document speaks of, and so no run: a listener that loses the
relay renews neither reservation nor registration (`swarm.rs:236`); of an
mDNS target only the first announced address is dialed (`swarm.rs:130`); and a
dialer of a circuit address that a stranger's identify exchange let go on before
its relay was connected (`swarm.rs:36`) may fail its one dial, which is only
logged (`swarm.rs:83`), and wait for its deadline though the listener can be
reached.  `TargetReached` excludes that dialer, and `SetupEnds` has its end.

## Not modelled

libp2p itself (transports, Noise, yamux, identify, relay, rendezvous,
autonat, mDNS) is taken as streams and connections that work or fail, and so is
`run_relay`'s own swarm of behaviours, which it only configures and logs.
Protocol names and swarm construction are constant wiring.  Logging and layout
are left out.  Buffer limits of the copy loops are left out.

Of the command line: the texts of `-L`, `-R` and `--jump` (`ForwardSpec`,
`JumpAddress`), the prompts of a relay and a listener and the namespace check
of `lib.rs` fill in a record and keep no state; the relay's second port
(`relay.rs:99`) is one expression.  Of SOCKS5: methods, address types and host
names are data; the messages are those of `fast_socks5`.

## Plan

What is left is outside the proofs: the texts of `-L`, `-R` and `--jump`, the
prompts of a relay and a listener, and a limit on the buffers of the copy loops,
which would let a slow reader hold up a writer.
