---------------------------- MODULE SessionsInv ----------------------------
(***************************************************************************)
(* The inductive invariant behind the theorems of SessionsProofs, in a     *)
(* module of its own so that TLC checks it too.  Its parts speak of one    *)
(* session s of kind k; only Stdin relates the sessions.                   *)
(***************************************************************************)
EXTENDS Sessions

\* The dialer's task has not read the whole request.
Early == {"off", "backlog", "peek", "greeting", "command", "line", "headers"}

\* Items of its script that the dialer's task has read, or given up on.
Read(k, s) ==
  CASE s.task.f \in {"off", "backlog", "peek", "greeting", "line"} -> 0
    [] s.task.f \in {"command", "headers"} -> 1
    [] OTHER -> Len(Script[k])

\* Of what the peer of d has waiting: items of the script, items that are in
\* the BufReader; and bytes that were dropped before the first that is left.
Lead(k, s, d) == IF d = "f" /\ Read(k, s) < s.spoke THEN s.spoke - Read(k, s) ELSE 0
Held(s, d) == IF d = "f" THEN Len(s.ahead) ELSE 0
Skipped(s, d) == IF d = "f" THEN s.lost ELSE 0

\* x is what has to be waiting in place i of direction d: the rest of the
\* script, the bytes after those that were taken, the end.
Waiting(k, s, d, x, i) ==
  IF i <= Lead(k, s, d) THEN x.t = Script[k][Read(k, s) + i]
  ELSE \/ /\ x.t = "byte" /\ x.n <= s.said[d]
          /\ x.n = Skipped(s, d) + s.sent[d] + (i - Lead(k, s, d))
       \/ /\ x.t = "eof" /\ s.peer[d] = "closed"
          /\ i = Held(s, d) + Len(s.sock[d])

\* Nothing that the peer of d sent is lost, doubled or out of order on its side.
InputOf(k, s, d) ==
  /\ Skipped(s, d) + s.sent[d] <= s.said[d]
  /\ s.task[d] # "over" =>
       /\ d = "f" => \A i \in 1..Len(s.ahead) :
                       s.ahead[i].t # "eof" /\ Waiting(k, s, d, s.ahead[i], i)
       /\ \A i \in 1..Len(s.sock[d]) : Waiting(k, s, d, s.sock[d][i], Held(s, d) + i)
       /\ s.peer[d] = "open" =>
            Held(s, d) + Len(s.sock[d]) + Skipped(s, d) + s.sent[d] = Lead(k, s, d) + s.said[d]

InputInOrder(k, s) == \A d \in Dir : InputOf(k, s, d)

\* The request was read whole, or an HTTP client ended it in its headers.
Whole(k, s) ==
  /\ k \notin {"bind", "copy", "junk"}
  /\ s.spoke = Len(Script[k]) \/ (k = "http" /\ s.spoke = 1 /\ s.peer.f # "open")

\* What the dialer's task has seen of the handshake.
Handshake(k, s) ==
  /\ s.spoke <= Len(Script[k])
  /\ s.said.f > 0 => s.spoke = Len(Script[k])
  /\ s.task.f \in {"greeting", "command"} => k \in {"socks5", "bind"}
  /\ s.task.f = "line" => k \in {"http", "copy"}
  /\ s.task.f = "headers" => k = "http"
  /\ s.task.f \in {"command", "headers"} => s.spoke > 0
  /\ s.task.f \in {"opening", "requesting", "replying", "copying"} \/ s.task.b # "none" =>
       Whole(k, s)
  /\ s.ahead # << >> => s.task.f \in {"line", "headers"}
  /\ s.lost > 0 => k = "http" /\ s.task.f \notin Early
  /\ s.replied => s.lost <= s.early /\ s.task.f \in {"copying", "over"}

\* How far the two tasks are, and what the stream may hold by then.
Progress(s) ==
  /\ s.task.f \in Early \cup {"opening"} => s.task.b = "none"
  /\ s.task.f \in Early \cup {"opening", "requesting"} => s.phase = "setup"
  /\ s.task.f \in {"replying", "copying"} => s.phase # "setup"
  /\ s.task.b = "none" => s.task.f \in Early \cup {"opening", "over"}
  /\ s.task.b = "connecting" => s.phase = "requested"
  /\ s.task.b = "copying" => s.phase = "attached"
  /\ s.phase = "attached" => s.task.b \in {"copying", "over"}
  /\ s.phase = "setup" => \A d \in Dir : s.sent[d] = 0 /\ s.chan[d] = << >>
  /\ s.phase # "attached" => s.sent.b = 0 /\ s.got.f = << >>

\* The request is still before the bytes of direction d.
Header(s, d) ==
  IF d = "f" /\ s.phase = "requested" /\ s.task.b \in {"queued", "reading"} THEN 1 ELSE 0

\* The bytes taken are those given and those in the stream, in order.
BytesOf(s, d) ==
  /\ Len(s.got[d]) <= s.sent[d]
  /\ \A i \in 1..Len(s.got[d]) : s.got[d][i] = Skipped(s, d) + i
  /\ ReaderGone(s, d) => s.chan[d] = << >>
  /\ ~ReaderGone(s, d) => Len(s.chan[d]) + Len(s.got[d]) = Header(s, d) + s.sent[d]
  /\ \A i \in 1..Len(s.chan[d]) :
       i > Header(s, d) =>
         s.chan[d][i].n = Skipped(s, d) + Len(s.got[d]) + (i - Header(s, d))

BytesInOrder(s) == \A d \in Dir : BytesOf(s, d)

\* An end is passed on when nothing is before it, and nothing comes after it;
\* without a failure it is the end that the peer of d put in.
EndsInOrder(s) ==
  /\ \A d \in Dir :
       /\ s.told[d] => s.chan[d] = << >> /\ (s.shut[d] \/ WriterGone(s, d))
       /\ s.shut[d] => s.task[d] \in {"copying", "over"}
       /\ ~s.failed => (s.task[d] = "over" => s.shut[d])
  /\ ~s.failed => ~s.cut

\* Lines typed at the listener that x took; netcat sessions that are over and
\* have no read of stdin left.
Lines(x) == {i \in 1..Len(typed) : typed[i] = x}
Gone == {c \in Client \ pending : kind[c] = "netcat" /\ ses[c].task.b = "over"}

\* A read of stdin is that of a netcat session that is open to input or over;
\* it is gone with the line it dropped.
Stdin ==
  /\ \A c \in pending :
       /\ kind[c] = "netcat" /\ ses[c].task.b \in {"copying", "over"}
       /\ ses[c].task.b = "copying" => ses[c].peer.b = "open"
  /\ \A c \in Client :
       kind[c] = "netcat" =>
         /\ ses[c].peer.b = "open" \/ ses[c].task.b \in {"copying", "over"}
         /\ ses[c].said.b = Cardinality(Lines(c))
  /\ Cardinality(Lines(Nobody)) <= Cardinality(Gone)

SessionInv(k, s) ==
  InputInOrder(k, s) /\ Handshake(k, s) /\ Progress(s) /\ BytesInOrder(s) /\ EndsInOrder(s)

IInv == /\ TypeOK /\ Stdin
        /\ \A c \in Client : SessionInv(kind[c], ses[c])
=============================================================================
