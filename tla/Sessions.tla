------------------------------ MODULE Sessions ------------------------------
(***************************************************************************)
(* The sessions of one listener that a dialer opens: `sape dial` in        *)
(* netcat mode, with -L (forward/local.rs) and with -D (forward/socks5.rs),*)
(* each dispatched by client/listen.rs to the listener's stdin and stdout  *)
(* or to a TCP target.  Streams of -R are in ReverseForward.               *)
(*                                                                         *)
(* Of a session c, direction "f" runs from the application at the dialer   *)
(* to the target at the listener, "b" back.  task[d] is the tokio task     *)
(* that reads the peer of direction d and writes its stream: task["f"] at  *)
(* the dialer, task["b"] at the listener.                                  *)
(***************************************************************************)
EXTENDS Naturals, Sequences, FiniteSets

CONSTANTS
  Client,      \* sessions, by the application that asks for them
  Mixes,       \* what each session may be, as functions on Client
  MaxBytes,    \* MaxBytes[m][c][d]: in mix m, bound on the bytes its peer of d sends
  MaxTyped,    \* bound on the lines typed at the listener
  QueueCap,    \* streams that libp2p-stream keeps for an IncomingStreams
  MaxFaults,   \* MaxFaults[m]: bound: processes stopped, connections lost
  Forwarder,   \* the process of the -L and -D sessions
  Listener,    \* the listener's process
  Nobody

Dir == {"f", "b"}
Opp(d) == IF d = "f" THEN "b" ELSE "f"

\* What an application sends before its data.  "none" does not come; the
\* last three are refused ("copy": a line of another method with a C).
Script == [none |-> << >>, netcat |-> << >>, local |-> << >>,
           socks5 |-> <<"greeting", "connect">>, http |-> <<"line", "blank">>,
           bind |-> <<"greeting", "bind">>, copy |-> <<"copy">>, junk |-> <<"junk">>]

ASSUME SessionsAssumption ==
  /\ IsFiniteSet(Client)
  /\ Mixes \subseteq [Client -> DOMAIN Script]
  /\ MaxBytes \in [Mixes -> [Client -> [Dir -> Nat]]] /\ MaxFaults \in [Mixes -> Nat]
  /\ MaxTyped \in Nat /\ QueueCap \in Nat \ {0}
  /\ Forwarder # Listener /\ {Forwarder, Listener, Nobody} \cap Client = {}

VARIABLES
  kind,      \* kind[c]: what session c is
  allowed,   \* the listener's --allowed-peer has the dialers, or is empty
  running,   \* processes that run
  ses,       \* ses[c]: the state of session c
  typed,     \* typed[i]: the session that took line i typed at the listener
  pending,   \* sessions with a read of the listener's stdin under way
  faults

vars == <<kind, allowed, running, ses, typed, pending, faults>>

\* A netcat dialer is a process of its own.
Home(c) == IF kind[c] = "netcat" THEN c ELSE Forwarder

Mark(t) == [t |-> t, n |-> 0]
Byte(n) == [t |-> "byte", n |-> n]
AtEnd(q) == q # << >> /\ Head(q).t = "eof"
Both(x) == [d \in Dir |-> x]

Idle == [
  task |-> [f |-> "off", b |-> "none"],
  peer |-> Both("open"),   \* the application and the target: open, closed, reset
  spoke |-> 0,             \* items of its script the application sent
  said |-> Both(0),        \* bytes the peers sent
  sock |-> Both(<< >>),    \* what the tasks have not read of it
  ahead |-> << >>,         \* in the BufReader of handle_http_connect
  lost |-> 0,              \* bytes dropped with that reader
  replied |-> FALSE,       \* the application was told of success
  early |-> 0,             \* bytes it had sent by then
  phase |-> "setup",       \* then "requested", then "attached"
  chan |-> Both(<< >>),    \* the stream: what is in flight
  sent |-> Both(0),        \* bytes the copies took from the peers
  got |-> Both(<< >>),     \* bytes they gave to the other peers
  shut |-> Both(FALSE),    \* the writing half was closed in order
  told |-> Both(FALSE),    \* the reader passed the end on
  cut |-> FALSE,           \* the connection of the stream was lost
  failed |-> FALSE]        \* something else than two ends of input ended a task

Init ==
  /\ kind \in Mixes
  /\ allowed \in BOOLEAN
  /\ running = Client \cup {Forwarder, Listener}
  /\ ses = [c \in Client |-> Idle]
  /\ typed = << >> /\ pending = {}
  /\ faults = 0

-----------------------------------------------------------------------------
(* Steps of one session.                                                   *)

Put(c, s) == /\ ses' = [ses EXCEPT ![c] = s]
             /\ UNCHANGED <<kind, allowed, running, typed, pending, faults>>

\* The task that writes d returns and drops what it holds: what it wrote
\* stays readable, what it had not read is lost.
Over(s, d) == [s EXCEPT !.task[d] = "over", !.sock[d] = << >>, !.ahead = << >>,
                        !.chan[Opp(d)] = << >>]
Fail(s, d) == [Over(s, d) EXCEPT !.failed = TRUE]

\* Mutant: nothing tells that the connection was lost.
WriterGoneUnnoticed(s, d) == s.task[d] = "over"

\* The writer of d, or the reader of it, is no longer there.
WriterGone(s, d) == s.cut \/ s.task[d] = "over"
ReaderGone(s, d) == s.cut \/ s.task[Opp(d)] = "over"

\* A write that is lost may succeed all the same.
Sent(s, d, x) == IF ReaderGone(s, d) THEN s ELSE [s EXCEPT !.chan[d] = Append(@, x)]

\* The TCP connection of the application, or the start of a netcat dialer.
AppConnects(c) ==
  /\ kind[c] # "none" /\ ses[c].task.f = "off" /\ Home(c) \in running
  /\ Put(c, [ses[c] EXCEPT !.task.f = IF kind[c] = "netcat" THEN "opening" ELSE "backlog"])

\* Mutant: the accept loop serves the handshake before it accepts again.
AcceptOneByOne(c) ==
  /\ ses[c].task.f = "backlog"
  /\ \A x \in Client : ses[x].task.f \notin {"peek", "greeting", "command", "line", "headers"}
  /\ Put(c, [ses[c] EXCEPT !.task.f = IF kind[c] = "local" THEN "opening" ELSE "peek"])

\* The accept loops of run_local_forward and run_socks5.
Accept(c) ==
  /\ ses[c].task.f = "backlog"
  /\ Put(c, [ses[c] EXCEPT !.task.f = IF kind[c] = "local" THEN "opening" ELSE "peek"])

\* The first byte chooses the protocol; a connection that ended before it
\* leaves the zero of the buffer.
Peek(c) ==
  LET s == ses[c]  first == Head(s.sock.f).t
  IN  /\ s.task.f = "peek" /\ s.sock.f # << >>
      /\ \/ first = "greeting" /\ Put(c, [s EXCEPT !.task.f = "greeting"])
         \/ first \in {"line", "copy"} /\ Put(c, [s EXCEPT !.task.f = "line"])
         \/ first \notin {"greeting", "line", "copy"} /\ Put(c, Fail(s, "f"))

\* Mutant: the command is not looked at.
ReadSocksAny(c) ==
  LET s == ses[c]  item == Head(s.sock.f).t
  IN  /\ s.task.f \in {"greeting", "command"} /\ s.sock.f # << >>
      /\ \/ /\ item # "eof"
            /\ Put(c, [s EXCEPT !.sock.f = Tail(@),
                                !.task.f = IF item = "greeting" THEN "command" ELSE "opening"])
         \/ item = "eof" /\ Put(c, Fail(s, "f"))

\* handle_socks5_client reads exactly the messages of the handshake; it
\* serves no other command than CONNECT.
ReadSocks(c) ==
  LET s == ses[c]  item == Head(s.sock.f).t
  IN  /\ s.task.f \in {"greeting", "command"} /\ s.sock.f # << >>
      /\ \/ /\ item \in {"greeting", "connect"}
            /\ Put(c, [s EXCEPT !.sock.f = Tail(@),
                                !.task.f = IF item = "greeting" THEN "command" ELSE "opening"])
         \/ item \in {"bind", "eof"} /\ Put(c, Fail(s, "f"))

\* A read of the handshake meets a connection reset by the application.
HandshakeFails(c) ==
  LET s == ses[c]
  IN  /\ s.task.f \in {"peek", "greeting", "command", "line", "headers"} /\ s.peer.f = "reset"
      /\ Put(c, Fail(s, "f"))

\* Mutant: the reader outlives the headers and goes on filling its buffer.
FillOn(c) ==
  LET s == ses[c]
  IN  /\ s.task.f \in {"line", "headers", "opening", "requesting"} /\ s.ahead = << >>
      /\ \E n \in 1..Len(s.sock.f) :
           /\ s.sock.f[n].t # "eof"
           /\ Put(c, [s EXCEPT !.ahead = SubSeq(s.sock.f, 1, n),
                               !.sock.f = SubSeq(@, n + 1, Len(@))])

\* The BufReader of handle_http_connect takes what has arrived.
Fill(c) ==
  LET s == ses[c]
  IN  /\ s.task.f \in {"line", "headers"} /\ s.ahead = << >>
      /\ \E n \in 1..Len(s.sock.f) :
           /\ s.sock.f[n].t # "eof"
           /\ Put(c, [s EXCEPT !.ahead = SubSeq(s.sock.f, 1, n),
                               !.sock.f = SubSeq(@, n + 1, Len(@))])

\* The request line, or the answer 400 to anything else.
ReadLine(c) ==
  LET s == ses[c]
  IN  /\ s.task.f = "line"
      /\ \/ /\ s.ahead # << >> /\ Head(s.ahead).t = "line"
            /\ Put(c, [s EXCEPT !.task.f = "headers", !.ahead = Tail(@)])
         \/ /\ IF s.ahead = << >> THEN AtEnd(s.sock.f) ELSE Head(s.ahead).t = "copy"
            /\ Put(c, Fail(s, "f"))

\* The end of the headers, or of the connection; the reader is dropped.
ReadHeaders(c) ==
  LET s == ses[c]
  IN  /\ s.task.f = "headers"
      /\ s.ahead # << >> \/ AtEnd(s.sock.f)
      /\ Put(c, [s EXCEPT !.task.f = "opening", !.ahead = << >>,
                          !.lost = IF s.ahead = << >> THEN 0 ELSE Len(s.ahead) - 1])

\* A stream the listener's queue has no room for is dropped there.
OpenStream(c) ==
  LET s == [ses[c] EXCEPT !.task.f = "requesting"]
  IN  /\ ses[c].task.f = "opening" /\ Listener \in running
      /\ IF Cardinality({x \in Client : ses[x].task.b = "queued"}) < QueueCap
           THEN Put(c, [s EXCEPT !.task.b = "queued"])
           ELSE Put(c, Fail(s, "b"))

\* No answer goes to the application, also in SOCKS5.
OpenFails(c) == ses[c].task.f = "opening" /\ Put(c, Fail(ses[c], "f"))

WriteRequest(c) ==
  LET s == ses[c]
  IN  /\ s.task.f = "requesting"
      /\ Put(c, [Sent(s, "f", Mark("request")) EXCEPT
                   !.phase = "requested",
                   !.task.f = IF kind[c] \in {"local", "netcat"} THEN "copying" ELSE "replying"])

WriteFails(c) ==
  /\ ses[c].task.f = "requesting" /\ ReaderGone(ses[c], "f")
  /\ Put(c, Fail(ses[c], "f"))

\* SOCKS5 success or HTTP 200, whatever becomes of the request.
Reply(c) ==
  LET s == ses[c]
  IN  /\ s.task.f = "replying"
      /\ \/ Put(c, [s EXCEPT !.task.f = "copying", !.replied = TRUE, !.early = s.said.f])
         \/ s.peer.f = "reset" /\ Put(c, Fail(s, "f"))

-----------------------------------------------------------------------------
(* The listener's task.                                                    *)

\* Mutant: a refused stream is not dropped.
DispatchKeeps(c) ==
  /\ ses[c].task.b = "queued"
  /\ Put(c, [ses[c] EXCEPT !.task.b = IF allowed THEN "reading" ELSE "kept"])

\* incoming.next(), a task per stream, and the allowlist.
Dispatch(c) ==
  LET s == ses[c]
  IN  /\ s.task.b = "queued"
      /\ Put(c, IF allowed THEN [s EXCEPT !.task.b = "reading"] ELSE Fail(s, "b"))

ReadRequest(c) ==
  LET s == [ses[c] EXCEPT !.chan.f = Tail(@)]
  IN  /\ ses[c].task.b = "reading" /\ ses[c].chan.f # << >>
      /\ IF kind[c] = "netcat"
           THEN /\ ses' = [ses EXCEPT ![c] = [s EXCEPT !.task.b = "copying", !.phase = "attached"]]
                /\ pending' = pending \cup {c}
                /\ UNCHANGED <<kind, allowed, running, typed, faults>>
           ELSE Put(c, [s EXCEPT !.task.b = "connecting"])

RequestLost(c) ==
  LET s == ses[c]
  IN  /\ s.task.b = "reading" /\ s.chan.f = << >> /\ WriterGone(s, "f")
      /\ Put(c, Fail(s, "b"))

\* handle_forward_to_target
TargetConnects(c) ==
  /\ ses[c].task.b = "connecting"
  /\ Put(c, [ses[c] EXCEPT !.task.b = "copying", !.phase = "attached"])

TargetFails(c) == ses[c].task.b = "connecting" /\ Put(c, Fail(ses[c], "b"))

-----------------------------------------------------------------------------
(* copy_bidirectional at both sides: the task that writes d.               *)

Take(c, d) ==
  LET s == ses[c]
  IN  /\ s.task[d] = "copying" /\ ~s.shut[d]
      /\ s.sock[d] # << >> /\ Head(s.sock[d]).t = "byte"
      /\ Put(c, [Sent(s, d, Head(s.sock[d])) EXCEPT !.sock[d] = Tail(@), !.sent[d] = @ + 1])

TakeEnd(c, d) ==
  LET s == ses[c]
  IN  /\ s.task[d] = "copying" /\ ~s.shut[d] /\ AtEnd(s.sock[d])
      /\ Put(c, [s EXCEPT !.shut[d] = TRUE])

\* What came over the stream is given to the peer.
Give(c, d) ==
  LET s == ses[c]  in == Opp(d)
  IN  /\ s.task[d] = "copying" /\ s.chan[in] # << >>
      /\ Put(c, [s EXCEPT !.chan[in] = Tail(@), !.got[in] = Append(@, Head(s.chan[in]).n)])

\* Mutant: the end of the stream overtakes what is still in it.
GiveEndEarly(c, d) ==
  LET s == ses[c]  in == Opp(d)
  IN  /\ s.task[d] = "copying" /\ ~s.told[in]
      /\ s.shut[in] \/ WriterGone(s, in)
      /\ Put(c, [s EXCEPT !.told[in] = TRUE])

\* Its end, in order or not, closes the writing half towards the peer.
GiveEnd(c, d) ==
  LET s == ses[c]  in == Opp(d)
  IN  /\ s.task[d] = "copying" /\ ~s.told[in] /\ s.chan[in] = << >>
      /\ s.shut[in] \/ WriterGone(s, in)
      /\ Put(c, [s EXCEPT !.told[in] = TRUE])

\* Mutant: the copy returns with the first direction that ends.
FinishHalf(c, d) ==
  LET s == ses[c]
  IN  /\ s.task[d] = "copying" /\ s.shut[d]
      /\ Put(c, Over(s, d))

Finish(c, d) ==
  LET s == ses[c]
  IN  /\ s.task[d] = "copying" /\ s.shut[d] /\ s.told[Opp(d)]
      /\ Put(c, Over(s, d))

\* A reset stream may read as an error too; writing to a peer or a stream
\* that is gone is one.  Without any input, a copy that was told the end
\* of its stream notices nothing and goes on.
CopyFails(c, d) ==
  LET s == ses[c]  in == Opp(d)
  IN  /\ s.task[d] = "copying"
      /\ \/ ~s.told[in] /\ s.chan[in] = << >> /\ ~s.shut[in] /\ WriterGone(s, in)
         \/ ~s.shut[d] /\ s.sock[d] # << >> /\ ReaderGone(s, d)
         \/ s.peer[d] = "closed" /\ s.chan[in] # << >>
         \/ s.peer[d] = "reset"
      /\ Put(c, Fail(s, d))

-----------------------------------------------------------------------------
(* Applications, targets and users.                                        *)

\* A peer that can send: a connected application, or a connected TCP target.
CanSend(c, d) ==
  /\ ses[c].peer[d] = "open"
  /\ IF d = "f" THEN ses[c].task.f \notin {"off", "over"}
                ELSE kind[c] # "netcat" /\ ses[c].task.b = "copying"

AppSpeaks(c) ==
  LET s == ses[c]
  IN  /\ CanSend(c, "f") /\ s.spoke < Len(Script[kind[c]])
      /\ Put(c, [s EXCEPT !.spoke = @ + 1,
                          !.sock.f = Append(@, Mark(Script[kind[c]][s.spoke + 1]))])

\* An application may send data without waiting for the reply.
Says(c, d) ==
  LET s == ses[c]
  IN  /\ CanSend(c, d) /\ s.said[d] < MaxBytes[kind][c][d]
      /\ d = "f" => s.spoke = Len(Script[kind[c]])
      /\ Put(c, [s EXCEPT !.said[d] = @ + 1, !.sock[d] = Append(@, Byte(s.said[d] + 1))])

EndsInput(c, d) ==
  /\ CanSend(c, d)
  /\ Put(c, [ses[c] EXCEPT !.peer[d] = "closed", !.sock[d] = Append(@, Mark("eof"))])

Resets(c, d) ==
  /\ CanSend(c, d) /\ kind[c] # "netcat"
  /\ Put(c, [ses[c] EXCEPT !.peer[d] = "reset", !.sock[d] = << >>])

\* Mutant: a read whose session is over is started again.
TypeLineAgain(c) ==
  /\ c \in pending /\ Listener \in running /\ Len(typed) < MaxTyped
  /\ LET s == ses[c]
     IN  IF s.task.b = "copying"
           THEN /\ ses' = [ses EXCEPT ![c] = [s EXCEPT !.said.b = @ + 1,
                                                       !.sock.b = Append(@, Byte(s.said.b + 1))]]
                /\ typed' = Append(typed, c) /\ UNCHANGED pending
           ELSE /\ typed' = Append(typed, Nobody) /\ UNCHANGED <<ses, pending>>
  /\ UNCHANGED <<kind, allowed, running, faults>>

(***************************************************************************)
(* Every netcat session of the listener has its own tokio Stdin, whose     *)
(* blocking read goes on when the session is over: one of the reads under  *)
(* way gets the next line, and a read nobody waits for drops it.           *)
(***************************************************************************)
TypeLine(c) ==
  /\ c \in pending /\ Listener \in running /\ Len(typed) < MaxTyped
  /\ LET s == ses[c]
     IN  IF s.task.b = "copying"
           THEN /\ ses' = [ses EXCEPT ![c] = [s EXCEPT !.said.b = @ + 1,
                                                       !.sock.b = Append(@, Byte(s.said.b + 1))]]
                /\ typed' = Append(typed, c) /\ UNCHANGED pending
           ELSE /\ typed' = Append(typed, Nobody) /\ pending' = pending \ {c}
                /\ UNCHANGED ses
  /\ UNCHANGED <<kind, allowed, running, faults>>

\* The end of stdin reaches every read.
StdinEnds ==
  /\ Listener \in running
  /\ \E c \in pending : ses[c].task.b = "copying" /\ ses[c].peer.b = "open"
  /\ ses' = [c \in Client |->
               IF c \in pending /\ ses[c].task.b = "copying"
                 THEN [ses[c] EXCEPT !.peer.b = "closed", !.sock.b = Append(@, Mark("eof"))]
                 ELSE ses[c]]
  /\ pending' = {}
  /\ UNCHANGED <<kind, allowed, running, typed, faults>>

-----------------------------------------------------------------------------
(* Faults.                                                                 *)

Used(c) == ses[c].task.b # "none"
Served(c, d) == ses[c].task[d] \notin {"off", "none", "over"}

\* The connection to the listener of dialer p, with the streams in it.
LoseConnection(p) ==
  LET lost == {c \in Client : Home(c) = p /\ Used(c) /\ (Served(c, "f") \/ Served(c, "b"))}
  IN  /\ faults < MaxFaults[kind] /\ lost # {}
      /\ ses' = [c \in Client |->
                   IF c \in lost THEN [ses[c] EXCEPT !.cut = TRUE, !.failed = TRUE,
                                                     !.chan = Both(<< >>)]
                                 ELSE ses[c]]
      /\ faults' = faults + 1
      /\ UNCHANGED <<kind, allowed, running, typed, pending>>

\* Ctrl-C, a crash, or an error of accept(), which run_dial returns.
ProcessStops(p) ==
  LET d == IF p = Listener THEN "b" ELSE "f"
      mine == {c \in Client : p \in {Listener, Home(c)} /\ Served(c, d)}
  IN  /\ faults < MaxFaults[kind] /\ p \in running /\ mine # {}
      /\ running' = running \ {p}
      /\ ses' = [c \in Client |-> IF c \in mine THEN Fail(ses[c], d) ELSE ses[c]]
      /\ pending' = IF p = Listener THEN {} ELSE pending
      /\ faults' = faults + 1
      /\ UNCHANGED <<kind, allowed, typed>>

-----------------------------------------------------------------------------
CopyStep(c, d) ==
  Take(c, d) \/ TakeEnd(c, d) \/ Give(c, d) \/ GiveEnd(c, d) \/ Finish(c, d) \/ CopyFails(c, d)
DialerStep(c) ==
  \/ Accept(c) \/ Peek(c) \/ HandshakeFails(c) \/ ReadSocks(c) \/ Fill(c)
  \/ ReadLine(c) \/ ReadHeaders(c) \/ OpenStream(c) \/ OpenFails(c)
  \/ WriteRequest(c) \/ WriteFails(c) \/ Reply(c)
ListenerStep(c) == Dispatch(c) \/ ReadRequest(c) \/ RequestLost(c)
PeerStep(c) ==
  \/ AppConnects(c) \/ AppSpeaks(c) \/ TypeLine(c)
  \/ TargetConnects(c) \/ TargetFails(c)
  \/ \E d \in Dir : Says(c, d) \/ EndsInput(c, d) \/ Resets(c, d)

Next ==
  \/ \E c \in Client : DialerStep(c) \/ ListenerStep(c) \/ PeerStep(c)
  \/ \E c \in Client : \E d \in Dir : CopyStep(c, d)
  \/ StdinEnds
  \/ \E p \in Client \cup {Forwarder, Listener} : LoseConnection(p) \/ ProcessStops(p)

\* Every task is polled; nothing is assumed of applications, users, targets.
Fairness ==
  \A c \in Client :
    /\ WF_vars(DialerStep(c) \/ CopyStep(c, "f"))
    /\ WF_vars(ListenerStep(c) \/ CopyStep(c, "b"))

Spec == Init /\ [][Next]_vars /\ Fairness

-----------------------------------------------------------------------------
(* Properties.                                                             *)

DialerTask == {"off", "backlog", "peek", "greeting", "command", "line", "headers",
               "opening", "requesting", "replying", "copying", "over"}
ListenerTask == {"none", "queued", "reading", "connecting", "copying", "over"}
Item == [t : {"greeting", "connect", "bind", "line", "blank", "copy", "junk",
              "request", "byte", "eof"}, n : Nat]
Session ==
  [task : [f : DialerTask, b : ListenerTask], peer : [Dir -> {"open", "closed", "reset"}],
   spoke : Nat, said : [Dir -> Nat], sock : [Dir -> Seq(Item)], ahead : Seq(Item),
   lost : Nat, replied : BOOLEAN, early : Nat, phase : {"setup", "requested", "attached"},
   chan : [Dir -> Seq(Item)], sent : [Dir -> Nat], got : [Dir -> Seq(Nat)],
   shut : [Dir -> BOOLEAN], told : [Dir -> BOOLEAN], cut : BOOLEAN, failed : BOOLEAN]

(***************************************************************************)
(* Types of the variables of the sessions.                                 *)
(***************************************************************************)
TypeOK ==
  /\ kind \in Mixes /\ allowed \in BOOLEAN
  /\ running \subseteq Client \cup {Forwarder, Listener}
  /\ ses \in [Client -> Session]
  /\ typed \in Seq(Client \cup {Nobody}) /\ pending \subseteq Client
  /\ faults \in Nat

(***************************************************************************)
(* What a target gets is what its application sent, from some byte on, in  *)
(* order and without a gap.  Bytes are missing before that byte only for   *)
(* an HTTP client that sent them before it was told of success: they were  *)
(* in the reader that handle_http_connect drops (socks5.rs:103-129).  A    *)
(* SOCKS5 client, a -L client or a netcat user may send early and loses    *)
(* nothing.                                                                *)
(***************************************************************************)
OnlyEarlyBytesLost ==
  \A c \in Client :
    LET s == ses[c]
    IN  /\ \A i \in 1..Len(s.got.f) : s.got.f[i] = s.lost + i
        /\ s.lost > 0 => kind[c] = "http"
        /\ s.replied => s.lost <= s.early

(***************************************************************************)
(* A stream is opened only for a request that may be served and was sent   *)
(* whole: CONNECT of either protocol.  (An HTTP client that ends its input *)
(* within the headers is served as if they were complete: socks5.rs:120.)  *)
(***************************************************************************)
OnlyWholeRequests ==
  \A c \in Client :
    ses[c].task.b # "none" =>
      /\ kind[c] \notin {"bind", "copy", "junk"}
      /\ \/ ses[c].spoke = Len(Script[kind[c]])
         \/ kind[c] = "http" /\ ses[c].spoke = 1 /\ ses[c].peer.f # "open"

(***************************************************************************)
(* Netcat sessions at one listener share its stdin (listen.rs:114,         *)
(* netcat.rs:11): a line goes to one session, and each session that ended  *)
(* takes at most one line with it.                                         *)
(***************************************************************************)
TypingLost ==
  /\ Cardinality({i \in 1..Len(typed) : typed[i] = Nobody})
       <= Cardinality({c \in Client : kind[c] = "netcat" /\ ses[c].task.b = "over"})
  /\ \A c \in Client :
       kind[c] = "netcat" =>
         Len(ses[c].got.b) <= Cardinality({i \in 1..Len(typed) : typed[i] = c})

(***************************************************************************)
(* Each session is a pipe (TunnelPipe) of the bytes that its handshake     *)
(* left to it, whatever the other sessions and its application do.         *)
(***************************************************************************)
Pipe(c) == INSTANCE TunnelPipe WITH
  phase  <- ses[c].phase,
  sent   <- ses[c].sent,
  recv   <- [ses[c].got EXCEPT !.f = [i \in 1..Len(@) |-> @[i] - ses[c].lost]],
  closed <- ses[c].shut,
  heard  <- ses[c].told,
  broken <- ses[c].failed

SessionsArePipes ==
  /\ \A c \in Client : Pipe(c)!Init
  /\ [][\A c \in Client : [Pipe(c)!Next]_(Pipe(c)!vars)]_vars

(***************************************************************************)
(* An application that sent its whole request is told of success or let    *)
(* go, though other applications stay silent in the middle of theirs: the  *)
(* handshake runs in the task of the connection (socks5.rs:33).            *)
(***************************************************************************)
HandshakeResolved ==
  \A c \in Client :
    ses[c].task.f = "backlog" /\ ses[c].spoke = Len(Script[kind[c]])
      ~> ses[c].task.f \in {"copying", "over"}

(***************************************************************************)
(* Success is reported before anything is known of the allowlist or the    *)
(* target (socks5.rs:85, 145): that the other side refused, failed, left   *)
(* or was lost is passed on as the end of the connection to whoever was    *)
(* told so.  (At a netcat end it reaches the process, whose stdout shows   *)
(* no end.)                                                                *)
(***************************************************************************)
EndIsHeard ==
  \A c \in Client : \A d \in Dir :
    ses[c].task[d] = "copying" /\ (ses[c].cut \/ ses[c].task[Opp(d)] = "over")
      ~> ses[c].told[Opp(d)] \/ ses[c].task[d] = "over"

(***************************************************************************)
(* Bytes that a copy took arrive, also after their sender ended its input, *)
(* unless something failed.                                                *)
(***************************************************************************)
BytesArrive ==
  \A c \in Client : \A d \in Dir :
    ses[c].phase = "attached" /\ Len(ses[c].got[d]) < ses[c].sent[d]
      ~> Len(ses[c].got[d]) = ses[c].sent[d] \/ ses[c].failed
=============================================================================
