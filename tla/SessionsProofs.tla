--------------------------- MODULE SessionsProofs ---------------------------
(***************************************************************************)
(* Sessions, for any sessions, mixes of them and bounds: IInv is           *)
(* inductive, from which follow the safety properties of a listener's      *)
(* sessions, and each session implements TunnelPipe.                       *)
(*                                                                         *)
(* The first part says what each action does to one session, as a relation *)
(* between its state s before and t after; nothing later looks at the      *)
(* actions on a session again.                                             *)
(***************************************************************************)
EXTENDS SessionsInv, FiniteSetTheorems, TLAPS

SameApp(s, t) == t.peer = s.peer /\ t.spoke = s.spoke /\ t.said = s.said
SameInput(s, t) == t.sock = s.sock /\ t.ahead = s.ahead /\ t.lost = s.lost
SameReply(s, t) == t.replied = s.replied /\ t.early = s.early
SameStream(s, t) == t.phase = s.phase /\ t.chan = s.chan /\ t.sent = s.sent /\ t.got = s.got
SameEnds(s, t) == t.shut = s.shut /\ t.told = s.told /\ t.cut = s.cut /\ t.failed = s.failed
SameAll(s, t) ==
  SameApp(s, t) /\ SameInput(s, t) /\ SameReply(s, t) /\ SameStream(s, t) /\ SameEnds(s, t)

\* The tasks are at x and y.
TasksAt(t, x, y) == t.task.f = x /\ t.task.b = y

\* AppConnects, Accept and Peek.
Advances(k, s, t) ==
  /\ \/ s.task.f = "off" /\ TasksAt(t, IF k = "netcat" THEN "opening" ELSE "backlog", s.task.b)
     \/ s.task.f = "backlog" /\ TasksAt(t, IF k = "local" THEN "opening" ELSE "peek", s.task.b)
     \/ /\ s.task.f = "peek" /\ s.sock.f # << >>
        /\ \/ Head(s.sock.f).t = "greeting" /\ TasksAt(t, "greeting", s.task.b)
           \/ Head(s.sock.f).t \in {"line", "copy"} /\ TasksAt(t, "line", s.task.b)
  /\ SameAll(s, t)

\* ReadSocks.
ReadsSocks(s, t) ==
  /\ s.task.f \in {"greeting", "command"} /\ s.sock.f # << >>
  /\ \/ Head(s.sock.f).t = "greeting" /\ TasksAt(t, "command", s.task.b)
     \/ Head(s.sock.f).t = "connect" /\ TasksAt(t, "opening", s.task.b)
  /\ t.sock = [s.sock EXCEPT !["f"] = Tail(s.sock["f"])]
  /\ t.ahead = s.ahead /\ t.lost = s.lost
  /\ SameApp(s, t) /\ SameReply(s, t) /\ SameStream(s, t) /\ SameEnds(s, t)

\* Fill, of the first n items.
Fills(s, t) ==
  /\ s.task.f \in {"line", "headers"} /\ s.ahead = << >>
  /\ \E n \in 1..Len(s.sock.f) :
       /\ s.sock.f[n].t # "eof"
       /\ t.ahead = SubSeq(s.sock.f, 1, n)
       /\ t.sock = [s.sock EXCEPT !["f"] = SubSeq(s.sock["f"], n + 1, Len(s.sock["f"]))]
  /\ t.task = s.task /\ t.lost = s.lost
  /\ SameApp(s, t) /\ SameReply(s, t) /\ SameStream(s, t) /\ SameEnds(s, t)

\* ReadLine.
ReadsLine(s, t) ==
  /\ s.task.f = "line" /\ s.ahead # << >> /\ Head(s.ahead).t = "line"
  /\ TasksAt(t, "headers", s.task.b) /\ t.ahead = Tail(s.ahead)
  /\ t.sock = s.sock /\ t.lost = s.lost
  /\ SameApp(s, t) /\ SameReply(s, t) /\ SameStream(s, t) /\ SameEnds(s, t)

\* ReadHeaders.
ReadsHeaders(s, t) ==
  /\ s.task.f = "headers" /\ (s.ahead # << >> \/ AtEnd(s.sock.f))
  /\ TasksAt(t, "opening", s.task.b) /\ t.ahead = << >> /\ t.sock = s.sock
  /\ t.lost = IF s.ahead = << >> THEN 0 ELSE Len(s.ahead) - 1
  /\ SameApp(s, t) /\ SameReply(s, t) /\ SameStream(s, t) /\ SameEnds(s, t)

\* OpenStream, with a listener that has room for it.
Opens(s, t) ==
  s.task.f = "opening" /\ TasksAt(t, "requesting", "queued") /\ SameAll(s, t)

\* WriteRequest.
Requests(k, s, t) ==
  /\ s.task.f = "requesting"
  /\ TasksAt(t, IF k \in {"local", "netcat"} THEN "copying" ELSE "replying", s.task.b)
  /\ t.phase = "requested"
  /\ t.chan = IF ReaderGone(s, "f") THEN s.chan
              ELSE [s.chan EXCEPT !["f"] = Append(s.chan["f"], Mark("request"))]
  /\ t.sent = s.sent /\ t.got = s.got
  /\ SameApp(s, t) /\ SameInput(s, t) /\ SameReply(s, t) /\ SameEnds(s, t)

\* Reply.
Replies(s, t) ==
  /\ s.task.f = "replying" /\ TasksAt(t, "copying", s.task.b)
  /\ t.replied = TRUE /\ t.early = s.said.f
  /\ SameApp(s, t) /\ SameInput(s, t) /\ SameStream(s, t) /\ SameEnds(s, t)

\* Dispatch.
Starts(s, t) == s.task.b = "queued" /\ TasksAt(t, s.task.f, "reading") /\ SameAll(s, t)

\* ReadRequest.
ReadsRequest(k, s, t) ==
  /\ s.task.b = "reading" /\ s.chan.f # << >>
  /\ \/ k = "netcat" /\ TasksAt(t, s.task.f, "copying") /\ t.phase = "attached"
     \/ k # "netcat" /\ TasksAt(t, s.task.f, "connecting") /\ t.phase = s.phase
  /\ t.chan = [s.chan EXCEPT !["f"] = Tail(s.chan["f"])]
  /\ t.sent = s.sent /\ t.got = s.got
  /\ SameApp(s, t) /\ SameInput(s, t) /\ SameReply(s, t) /\ SameEnds(s, t)

\* TargetConnects.
Attaches(s, t) ==
  /\ s.task.b = "connecting" /\ TasksAt(t, s.task.f, "copying") /\ t.phase = "attached"
  /\ t.chan = s.chan /\ t.sent = s.sent /\ t.got = s.got
  /\ SameApp(s, t) /\ SameInput(s, t) /\ SameReply(s, t) /\ SameEnds(s, t)

\* Take.
Takes(s, t, d) ==
  /\ s.task[d] = "copying" /\ ~s.shut[d]
  /\ s.sock[d] # << >> /\ Head(s.sock[d]).t = "byte"
  /\ t.sock = [s.sock EXCEPT ![d] = Tail(s.sock[d])]
  /\ t.sent = [s.sent EXCEPT ![d] = s.sent[d] + 1]
  /\ t.chan = IF ReaderGone(s, d) THEN s.chan
              ELSE [s.chan EXCEPT ![d] = Append(s.chan[d], Head(s.sock[d]))]
  /\ t.task = s.task /\ t.ahead = s.ahead /\ t.lost = s.lost
  /\ t.phase = s.phase /\ t.got = s.got
  /\ SameApp(s, t) /\ SameReply(s, t) /\ SameEnds(s, t)

\* TakeEnd.
TakesEnd(s, t, d) ==
  /\ s.task[d] = "copying" /\ ~s.shut[d] /\ t.shut = [s.shut EXCEPT ![d] = TRUE]
  /\ t.task = s.task /\ t.told = s.told /\ t.cut = s.cut /\ t.failed = s.failed
  /\ SameApp(s, t) /\ SameInput(s, t) /\ SameReply(s, t) /\ SameStream(s, t)

\* Give, of what came in direction e.
Gives(s, t, e) ==
  /\ s.task[Opp(e)] = "copying" /\ s.chan[e] # << >>
  /\ t.chan = [s.chan EXCEPT ![e] = Tail(s.chan[e])]
  /\ t.got = [s.got EXCEPT ![e] = Append(s.got[e], Head(s.chan[e]).n)]
  /\ t.task = s.task /\ t.phase = s.phase /\ t.sent = s.sent
  /\ SameApp(s, t) /\ SameInput(s, t) /\ SameReply(s, t) /\ SameEnds(s, t)

\* GiveEnd, of direction e.
GivesEnd(s, t, e) ==
  /\ s.task[Opp(e)] = "copying" /\ ~s.told[e] /\ s.chan[e] = << >>
  /\ s.shut[e] \/ WriterGone(s, e)
  /\ t.told = [s.told EXCEPT ![e] = TRUE]
  /\ t.task = s.task /\ t.shut = s.shut /\ t.cut = s.cut /\ t.failed = s.failed
  /\ SameApp(s, t) /\ SameInput(s, t) /\ SameReply(s, t) /\ SameStream(s, t)

\* The task that writes d returns.
Returns(s, t, d) ==
  /\ t.task[d] = "over" /\ t.task[Opp(d)] = s.task[Opp(d)]
  /\ t.sock = [s.sock EXCEPT ![d] = << >>] /\ t.ahead = << >> /\ t.lost = s.lost
  /\ t.chan = [s.chan EXCEPT ![Opp(d)] = << >>]
  /\ t.phase = s.phase /\ t.sent = s.sent /\ t.got = s.got
  /\ t.shut = s.shut /\ t.told = s.told /\ t.cut = s.cut
  /\ SameApp(s, t) /\ SameReply(s, t)

\* Finish.
Finishes(s, t, d) ==
  s.task[d] = "copying" /\ s.shut[d] /\ Returns(s, t, d) /\ t.failed = s.failed

\* Every other return, and the end of its process; the listener has a task.
Fails(s, t, d) == (s.task.b # "none" \/ d = "f") /\ Returns(s, t, d) /\ t.failed = TRUE

\* LoseConnection.
Loses(s, t) ==
  /\ t.cut = TRUE /\ t.failed = TRUE /\ t.chan = Both(<< >>)
  /\ t.task = s.task /\ t.phase = s.phase /\ t.sent = s.sent /\ t.got = s.got
  /\ t.shut = s.shut /\ t.told = s.told
  /\ SameApp(s, t) /\ SameInput(s, t) /\ SameReply(s, t)

\* AppSpeaks.
Speaks(k, s, t) ==
  /\ s.peer.f = "open" /\ s.task.f # "over" /\ s.spoke < Len(Script[k])
  /\ t.spoke = s.spoke + 1
  /\ t.sock = [s.sock EXCEPT !["f"] = Append(s.sock["f"], Mark(Script[k][s.spoke + 1]))]
  /\ t.task = s.task /\ t.peer = s.peer /\ t.said = s.said
  /\ t.ahead = s.ahead /\ t.lost = s.lost
  /\ SameReply(s, t) /\ SameStream(s, t) /\ SameEnds(s, t)

\* Says, and TypeLine in a session that reads it.
Sends(k, s, t, d) ==
  /\ s.peer[d] = "open" /\ s.task[d] # "over" /\ (d = "f" => s.spoke = Len(Script[k]))
  /\ t.said = [s.said EXCEPT ![d] = s.said[d] + 1]
  /\ t.sock = [s.sock EXCEPT ![d] = Append(s.sock[d], Byte(s.said[d] + 1))]
  /\ t.task = s.task /\ t.peer = s.peer /\ t.spoke = s.spoke
  /\ t.ahead = s.ahead /\ t.lost = s.lost
  /\ SameReply(s, t) /\ SameStream(s, t) /\ SameEnds(s, t)

\* EndsInput, and StdinEnds in a session that reads it.
Closes(s, t, d) ==
  /\ s.peer[d] = "open" /\ s.task[d] # "over"
  /\ t.peer = [s.peer EXCEPT ![d] = "closed"]
  /\ t.sock = [s.sock EXCEPT ![d] = Append(s.sock[d], Mark("eof"))]
  /\ t.task = s.task /\ t.spoke = s.spoke /\ t.said = s.said
  /\ t.ahead = s.ahead /\ t.lost = s.lost
  /\ SameReply(s, t) /\ SameStream(s, t) /\ SameEnds(s, t)

\* Resets.
Aborts(s, t, d) ==
  /\ s.peer[d] = "open" /\ t.peer = [s.peer EXCEPT ![d] = "reset"]
  /\ t.sock = [s.sock EXCEPT ![d] = << >>]
  /\ t.task = s.task /\ t.spoke = s.spoke /\ t.said = s.said
  /\ t.ahead = s.ahead /\ t.lost = s.lost
  /\ SameReply(s, t) /\ SameStream(s, t) /\ SameEnds(s, t)

-----------------------------------------------------------------------------
(* What each action does to its session.                                   *)

LEMMA Fields ==
  ASSUME NEW s \in Session
  PROVE  /\ s.task.f \in DialerTask /\ s.task.b \in ListenerTask
         /\ s.peer \in [Dir -> {"open", "closed", "reset"}] /\ s.spoke \in Nat
         /\ s.said \in [Dir -> Nat] /\ s.sock \in [Dir -> Seq(Item)] /\ s.ahead \in Seq(Item)
         /\ s.lost \in Nat /\ s.replied \in BOOLEAN /\ s.early \in Nat
         /\ s.phase \in {"setup", "requested", "attached"}
         /\ s.chan \in [Dir -> Seq(Item)] /\ s.sent \in [Dir -> Nat]
         /\ s.got \in [Dir -> Seq(Nat)] /\ s.shut \in [Dir -> BOOLEAN]
         /\ s.told \in [Dir -> BOOLEAN] /\ s.cut \in BOOLEAN /\ s.failed \in BOOLEAN
BY DEF Session

\* The same, of session c; an action changes no other.
LEMMA PutDoes ==
  ASSUME TypeOK, NEW c \in Client, NEW t, Put(c, t)
  PROVE  /\ ses'[c] = t /\ \A x \in Client \ {c} : ses'[x] = ses[x]
         /\ ses' = [x \in Client |-> ses'[x]]
         /\ UNCHANGED <<kind, allowed, running, typed, pending, faults>>
BY DEF Put, TypeOK

LEMMA Typed == ASSUME TypeOK, NEW c \in Client PROVE ses[c] \in Session
BY DEF TypeOK

\* A task moved to another place of its own.
LEMMA DialerMoves ==
  ASSUME NEW s \in Session, NEW x \in DialerTask
  PROVE  LET t == [s EXCEPT !.task.f = x]
         IN  t \in Session /\ SameAll(s, t) /\ TasksAt(t, x, s.task.b)
<1> DEFINE t == [s EXCEPT !.task.f = x]
<1>1. t \in Session
  BY Zenon DEF Session
<1>2. SameAll(s, t)
  BY Zenon DEF Session, SameAll, SameApp, SameInput, SameReply, SameStream, SameEnds
<1>3. t.task = [s.task EXCEPT !.f = x] /\ s.task \in [f : DialerTask, b : ListenerTask]
  BY Zenon DEF Session
<1>4. TasksAt(t, x, s.task.b)
  BY <1>3, Zenon DEF TasksAt
<1> QED BY <1>1, <1>2, <1>4

LEMMA ListenerMoves ==
  ASSUME NEW s \in Session, NEW y \in ListenerTask
  PROVE  LET t == [s EXCEPT !.task.b = y]
         IN  t \in Session /\ SameAll(s, t) /\ TasksAt(t, s.task.f, y)
<1> DEFINE t == [s EXCEPT !.task.b = y]
<1>1. t \in Session
  BY Zenon DEF Session
<1>2. SameAll(s, t)
  BY Zenon DEF Session, SameAll, SameApp, SameInput, SameReply, SameStream, SameEnds
<1>3. t.task = [s.task EXCEPT !.b = y] /\ s.task \in [f : DialerTask, b : ListenerTask]
  BY Zenon DEF Session
<1>4. TasksAt(t, s.task.f, y)
  BY <1>3, Zenon DEF TasksAt
<1> QED BY <1>1, <1>2, <1>4

LEMMA OverDoes ==
  ASSUME NEW s \in Session, NEW d \in Dir
  PROVE  /\ Over(s, d) \in Session /\ Fail(s, d) \in Session
         /\ Returns(s, Over(s, d), d) /\ Over(s, d).failed = s.failed
         /\ Returns(s, Fail(s, d), d) /\ Fail(s, d).failed = TRUE
<1>1. d = "f" \/ d = "b"
  BY DEF Dir
<1>2. /\ [s.sock EXCEPT ![d] = << >>] \in [Dir -> Seq(Item)]
      /\ [s.chan EXCEPT ![Opp(d)] = << >>] \in [Dir -> Seq(Item)]
  BY Fields DEF Opp, Dir
<1>3. << >> \in Seq(Item)
  BY Fields
<1>4. Over(s, d) \in Session
  BY <1>1, <1>2, <1>3, Zenon DEF Over, Session, DialerTask, ListenerTask
<1>5. Fail(s, d) \in Session
  BY <1>4, Zenon DEF Fail, Session
<1>6. Returns(s, Over(s, d), d) /\ Over(s, d).failed = s.failed
  BY <1>1, Zenon DEF Over, Session, Returns, Opp, SameApp, SameReply
<1>7. Returns(s, Fail(s, d), d) /\ Fail(s, d).failed = TRUE
  BY <1>1, Zenon DEF Fail, Over, Session, Returns, Opp, SameApp, SameReply
<1> QED BY <1>4, <1>5, <1>6, <1>7

LEMMA FailDoes ==
  ASSUME TypeOK, NEW c \in Client, NEW d \in Dir, Put(c, Fail(ses[c], d)),
         ses[c].task.b # "none" \/ d = "f"
  PROVE  ses'[c] \in Session /\ Fails(ses[c], ses'[c], d)
<1>1. ses'[c] = Fail(ses[c], d)
  BY PutDoes
<1>2. ses[c] \in Session
  BY Typed
<1>3. /\ Fail(ses[c], d) \in Session
      /\ Returns(ses[c], Fail(ses[c], d), d) /\ Fail(ses[c], d).failed = TRUE
  BY <1>2, OverDoes
<1> QED BY <1>1, <1>3, Zenon DEF Fails

LEMMA AdvancesDoes ==
  ASSUME TypeOK, NEW c \in Client, AppConnects(c) \/ Accept(c) \/ Peek(c)
  PROVE  /\ ses'[c] \in Session
         /\ Advances(kind[c], ses[c], ses'[c]) \/ Fails(ses[c], ses'[c], "f")
<1> DEFINE s == ses[c]
<1>s. s \in Session
  BY Typed
<1>1. CASE AppConnects(c)
  <2> DEFINE x == IF kind[c] = "netcat" THEN "opening" ELSE "backlog"
  <2>1. x \in DialerTask
    BY DEF DialerTask
  <2>2. ses'[c] = [s EXCEPT !.task.f = x] /\ s.task.f = "off"
    BY <1>1, PutDoes DEF AppConnects
  <2> HIDE DEF x
  <2>3. ses'[c] \in Session /\ SameAll(s, ses'[c]) /\ TasksAt(ses'[c], x, s.task.b)
    BY <2>1, <2>2, <1>s, DialerMoves
  <2> QED BY <2>2, <2>3 DEF Advances, x
<1>2. CASE Accept(c)
  <2> DEFINE x == IF kind[c] = "local" THEN "opening" ELSE "peek"
  <2>1. x \in DialerTask
    BY DEF DialerTask
  <2>2. ses'[c] = [s EXCEPT !.task.f = x] /\ s.task.f = "backlog"
    BY <1>2, PutDoes DEF Accept
  <2> HIDE DEF x
  <2>3. ses'[c] \in Session /\ SameAll(s, ses'[c]) /\ TasksAt(ses'[c], x, s.task.b)
    BY <2>1, <2>2, <1>s, DialerMoves
  <2> QED BY <2>2, <2>3 DEF Advances, x
<1>3. CASE Peek(c)
  <2>1. s.task.f = "peek" /\ s.sock.f # << >>
    BY <1>3 DEF Peek
  <2>2. ASSUME NEW x \in {"greeting", "line"}, Put(c, [s EXCEPT !.task.f = x])
        PROVE  ses'[c] \in Session /\ SameAll(s, ses'[c]) /\ TasksAt(ses'[c], x, s.task.b)
    <3>1. ses'[c] = [s EXCEPT !.task.f = x]
      BY <2>2, PutDoes, Zenon
    <3>2. x \in DialerTask
      BY DEF DialerTask
    <3> QED BY <3>1, <3>2, <1>s, DialerMoves, Zenon
  <2>3. CASE Head(s.sock.f).t = "greeting" /\ Put(c, [s EXCEPT !.task.f = "greeting"])
    BY <2>1, <2>2, <2>3 DEF Advances
  <2>4. CASE Head(s.sock.f).t \in {"line", "copy"} /\ Put(c, [s EXCEPT !.task.f = "line"])
    BY <2>1, <2>2, <2>4 DEF Advances
  <2>5. CASE Put(c, Fail(s, "f"))
    BY <2>5, FailDoes DEF Dir
  <2> QED BY <1>3, <2>3, <2>4, <2>5 DEF Peek
<1> QED BY <1>1, <1>2, <1>3

LEMMA ReadSocksDoes ==
  ASSUME TypeOK, NEW c \in Client, ReadSocks(c)
  PROVE  /\ ses'[c] \in Session
         /\ ReadsSocks(ses[c], ses'[c]) \/ Fails(ses[c], ses'[c], "f")
<1> DEFINE s == ses[c]
           item == Head(s.sock.f).t
           x == IF item = "greeting" THEN "command" ELSE "opening"
           q == [s.sock EXCEPT !["f"] = Tail(s.sock["f"])]
<1>s. s \in Session
  BY Typed
<1>1. CASE item \in {"greeting", "connect"}
           /\ Put(c, [s EXCEPT !.sock.f = Tail(@), !.task.f = x])
  <2>1. x \in DialerTask /\ q \in [Dir -> Seq(Item)]
    <3>1. s.sock["f"] # << >> /\ s.sock \in [Dir -> Seq(Item)]
      BY <1>s, Fields DEF ReadSocks
    <3> QED BY <3>1 DEF DialerTask, Dir
  <2>2. ses'[c] = [[s EXCEPT !.sock = q] EXCEPT !.task.f = x]
    BY <1>1, <1>s, PutDoes, Zenon DEF Session
  <2> HIDE DEF q, x
  <2>3. [s EXCEPT !.sock = q] \in Session
    BY <2>1, <1>s, Zenon DEF Session
  <2>4. /\ ses'[c] \in Session /\ SameAll([s EXCEPT !.sock = q], ses'[c])
        /\ TasksAt(ses'[c], x, [s EXCEPT !.sock = q].task.b)
    BY <2>1, <2>2, <2>3, DialerMoves
  <2>5. /\ ses'[c].sock = q /\ TasksAt(ses'[c], x, s.task.b)
        /\ ses'[c].ahead = s.ahead /\ ses'[c].lost = s.lost
        /\ SameApp(s, ses'[c]) /\ SameReply(s, ses'[c]) /\ SameStream(s, ses'[c])
        /\ SameEnds(s, ses'[c])
    BY <2>4, <1>s, Zenon
       DEF Session, SameAll, SameApp, SameInput, SameReply, SameStream, SameEnds
  <2> QED BY <2>4, <2>5, <1>1 DEF ReadsSocks, q, x, ReadSocks
<1>2. CASE Put(c, Fail(s, "f"))
  BY <1>2, FailDoes DEF Dir
<1> QED BY <1>1, <1>2 DEF ReadSocks

LEMMA HandshakeFailsDoes ==
  ASSUME TypeOK, NEW c \in Client, HandshakeFails(c) \/ OpenFails(c) \/ WriteFails(c)
  PROVE  ses'[c] \in Session /\ Fails(ses[c], ses'[c], "f")
BY FailDoes DEF HandshakeFails, OpenFails, WriteFails, Dir

LEMMA FillDoes ==
  ASSUME TypeOK, NEW c \in Client, Fill(c)
  PROVE  ses'[c] \in Session /\ Fills(ses[c], ses'[c])
<1> DEFINE s == ses[c]
<1>s. s \in Session /\ s.sock \in [Dir -> Seq(Item)] /\ s.sock["f"] \in Seq(Item)
  BY Typed, Fields DEF Dir
<1>1. PICK n \in 1..Len(s.sock.f) :
        /\ s.sock.f[n].t # "eof"
        /\ Put(c, [s EXCEPT !.ahead = SubSeq(s.sock.f, 1, n),
                            !.sock.f = SubSeq(@, n + 1, Len(@))])
  BY DEF Fill
<1> DEFINE a == SubSeq(s.sock.f, 1, n)
           q == [s.sock EXCEPT !["f"] = SubSeq(s.sock["f"], n + 1, Len(s.sock["f"]))]
<1>2. a \in Seq(Item) /\ q \in [Dir -> Seq(Item)]
  BY <1>s DEF Dir
<1>3. ses'[c] = [[s EXCEPT !.ahead = a] EXCEPT !.sock = q]
  BY <1>1, <1>s, PutDoes, Zenon DEF Session
<1> HIDE DEF a, q
<1>4. ses'[c] \in Session
  BY <1>2, <1>3, <1>s, Zenon DEF Session
<1>5. /\ ses'[c].ahead = a /\ ses'[c].sock = q /\ ses'[c].task = s.task
      /\ ses'[c].lost = s.lost
      /\ SameApp(s, ses'[c]) /\ SameReply(s, ses'[c]) /\ SameStream(s, ses'[c])
      /\ SameEnds(s, ses'[c])
  BY <1>3, <1>s, Zenon DEF Session, SameApp, SameReply, SameStream, SameEnds
<1> QED BY <1>1, <1>4, <1>5 DEF Fills, Fill, a, q

LEMMA ReadLineDoes ==
  ASSUME TypeOK, NEW c \in Client, ReadLine(c)
  PROVE  /\ ses'[c] \in Session
         /\ ReadsLine(ses[c], ses'[c]) \/ Fails(ses[c], ses'[c], "f")
<1> DEFINE s == ses[c]
           t == [s EXCEPT !.task.f = "headers"]
<1>s. s \in Session /\ s.ahead \in Seq(Item)
  BY Typed, Fields
<1>1. CASE /\ s.ahead # << >> /\ Head(s.ahead).t = "line"
           /\ Put(c, [s EXCEPT !.task.f = "headers", !.ahead = Tail(@)])
  <2>1. t \in Session /\ SameAll(s, t) /\ TasksAt(t, "headers", s.task.b)
    BY <1>s, DialerMoves DEF DialerTask
  <2>2. ses'[c] = [t EXCEPT !.ahead = Tail(s.ahead)]
    BY <1>1, <1>s, PutDoes, Zenon DEF Session
  <2>3. Tail(s.ahead) \in Seq(Item)
    BY <1>s, <1>1
  <2> HIDE DEF t
  <2>4. ses'[c] \in Session
    BY <2>1, <2>2, <2>3, Zenon DEF Session
  <2>5. /\ ses'[c].ahead = Tail(s.ahead) /\ TasksAt(ses'[c], "headers", s.task.b)
        /\ ses'[c].sock = s.sock /\ ses'[c].lost = s.lost
        /\ SameApp(s, ses'[c]) /\ SameReply(s, ses'[c]) /\ SameStream(s, ses'[c])
        /\ SameEnds(s, ses'[c])
    BY <2>1, <2>2, Zenon
       DEF Session, TasksAt, SameAll, SameApp, SameInput, SameReply, SameStream, SameEnds
  <2> QED BY <1>1, <2>4, <2>5 DEF ReadsLine, ReadLine
<1>2. CASE Put(c, Fail(s, "f"))
  BY <1>2, FailDoes DEF Dir
<1> QED BY <1>1, <1>2 DEF ReadLine

LEMMA ReadHeadersDoes ==
  ASSUME TypeOK, NEW c \in Client, ReadHeaders(c)
  PROVE  ses'[c] \in Session /\ ReadsHeaders(ses[c], ses'[c])
<1> DEFINE s == ses[c]
           t == [s EXCEPT !.task.f = "opening"]
           n == IF s.ahead = << >> THEN 0 ELSE Len(s.ahead) - 1
<1>s. s \in Session /\ s.ahead \in Seq(Item) /\ << >> \in Seq(Item)
  BY Typed, Fields
<1>1. t \in Session /\ SameAll(s, t) /\ TasksAt(t, "opening", s.task.b)
  BY <1>s, DialerMoves DEF DialerTask
<1>2. n \in Nat
  BY <1>s
<1>3. ses'[c] = [[t EXCEPT !.ahead = << >>] EXCEPT !.lost = n]
  BY <1>s, PutDoes, Zenon DEF Session, ReadHeaders
<1> HIDE DEF t, n
<1>4. ses'[c] \in Session
  BY <1>1, <1>2, <1>3, <1>s, Zenon DEF Session
<1>5. /\ ses'[c].ahead = << >> /\ ses'[c].lost = n /\ TasksAt(ses'[c], "opening", s.task.b)
      /\ ses'[c].sock = s.sock
      /\ SameApp(s, ses'[c]) /\ SameReply(s, ses'[c]) /\ SameStream(s, ses'[c])
      /\ SameEnds(s, ses'[c])
  BY <1>1, <1>3, Zenon
     DEF Session, TasksAt, SameAll, SameApp, SameInput, SameReply, SameStream, SameEnds
<1> QED BY <1>4, <1>5 DEF ReadsHeaders, ReadHeaders, n

\* A full queue: the listener drops the stream that it was just given.
LEMMA OpenStreamDoes ==
  ASSUME TypeOK, NEW c \in Client, OpenStream(c)
  PROVE  /\ ses'[c] \in Session
         /\ \/ Opens(ses[c], ses'[c])
            \/ \E u \in Session : Opens(ses[c], u) /\ Fails(u, ses'[c], "b")
<1> DEFINE s == ses[c]
           r == [s EXCEPT !.task.f = "requesting"]
           u == [r EXCEPT !.task.b = "queued"]
<1>s. s \in Session /\ s.task.f = "opening"
  BY Typed DEF OpenStream
<1>1. r \in Session /\ SameAll(s, r) /\ TasksAt(r, "requesting", s.task.b)
  BY <1>s, DialerMoves DEF DialerTask
<1> HIDE DEF r
<1>2. u \in Session /\ SameAll(r, u) /\ TasksAt(u, r.task.f, "queued")
  BY <1>1, ListenerMoves DEF ListenerTask
<1>3. Fail(r, "b") \in Session /\ Fail(r, "b").failed = TRUE /\ Returns(r, Fail(r, "b"), "b")
  BY <1>1, OverDoes DEF Dir
<1> HIDE DEF u
<1>4. Opens(s, u)
  BY <1>s, <1>1, <1>2
     DEF Opens, TasksAt, SameAll, SameApp, SameInput, SameReply, SameStream, SameEnds
<1>5. Fails(u, Fail(r, "b"), "b")
  BY <1>1, <1>2, <1>3
     DEF Fails, Returns, Opp, TasksAt, SameAll, SameApp, SameInput, SameReply, SameStream,
         SameEnds
<1>6. ses'[c] = u \/ ses'[c] = Fail(r, "b")
  BY PutDoes DEF OpenStream, r, u
<1> QED BY <1>2, <1>3, <1>4, <1>5, <1>6

LEMMA WriteRequestDoes ==
  ASSUME TypeOK, NEW c \in Client, WriteRequest(c)
  PROVE  ses'[c] \in Session /\ Requests(kind[c], ses[c], ses'[c])
<1> DEFINE s == ses[c]
           x == IF kind[c] \in {"local", "netcat"} THEN "copying" ELSE "replying"
           q == [s.chan EXCEPT !["f"] = Append(s.chan["f"], Mark("request"))]
           r == IF ReaderGone(s, "f") THEN s ELSE [s EXCEPT !.chan = q]
           p == [r EXCEPT !.phase = "requested"]
<1>s. s \in Session /\ s.task.f = "requesting" /\ s.chan \in [Dir -> Seq(Item)]
  BY Typed, Fields DEF WriteRequest
<1>1. x \in DialerTask /\ q \in [Dir -> Seq(Item)]
  <2>1. Mark("request") \in Item
    BY DEF Mark, Item
  <2> QED BY <2>1, <1>s DEF DialerTask, Dir
<1>2. ses'[c] = [[Sent(s, "f", Mark("request")) EXCEPT !.phase = "requested"]
                   EXCEPT !.task.f = x]
  BY PutDoes, Zenon DEF WriteRequest
<1>3. Sent(s, "f", Mark("request")) = r
  BY Zenon DEF Sent
<1> HIDE DEF q, x
<1>4. /\ r \in Session /\ r.task = s.task
      /\ r.chan = IF ReaderGone(s, "f") THEN s.chan ELSE q
      /\ r.phase = s.phase /\ r.sent = s.sent /\ r.got = s.got
      /\ SameApp(s, r) /\ SameInput(s, r) /\ SameReply(s, r) /\ SameEnds(s, r)
  <2>1. CASE ReaderGone(s, "f")
    BY <1>s, <2>1, Zenon DEF SameApp, SameInput, SameReply, SameEnds
  <2>2. CASE ~ReaderGone(s, "f")
    BY <1>s, <1>1, <2>2, Zenon DEF Session, SameApp, SameInput, SameReply, SameEnds
  <2> QED BY <2>1, <2>2
<1> HIDE DEF r
<1>5. /\ p \in Session /\ p.task = s.task /\ p.chan = r.chan /\ p.phase = "requested"
      /\ p.sent = s.sent /\ p.got = s.got
      /\ SameApp(s, p) /\ SameInput(s, p) /\ SameReply(s, p) /\ SameEnds(s, p)
  BY <1>4, Zenon DEF Session, SameApp, SameInput, SameReply, SameEnds
<1> HIDE DEF p
<1>6. ses'[c] = [p EXCEPT !.task.f = x]
  BY <1>2, <1>3, Zenon DEF p
<1>7. ses'[c] \in Session /\ SameAll(p, ses'[c]) /\ TasksAt(ses'[c], x, p.task.b)
  BY <1>1, <1>5, <1>6, DialerMoves
<1> QED BY <1>s, <1>4, <1>5, <1>7
        DEF Requests, SameAll, SameApp, SameInput, SameReply, SameStream, SameEnds, x, q

LEMMA ReplyDoes ==
  ASSUME TypeOK, NEW c \in Client, Reply(c)
  PROVE  /\ ses'[c] \in Session
         /\ Replies(ses[c], ses'[c]) \/ Fails(ses[c], ses'[c], "f")
<1> DEFINE s == ses[c]
           t == [s EXCEPT !.task.f = "copying"]
<1>s. s \in Session /\ s.said.f \in Nat
  BY Typed, Fields DEF Dir
<1>1. CASE Put(c, [s EXCEPT !.task.f = "copying", !.replied = TRUE, !.early = s.said.f])
  <2>1. t \in Session /\ SameAll(s, t) /\ TasksAt(t, "copying", s.task.b)
    BY <1>s, DialerMoves DEF DialerTask
  <2>2. ses'[c] = [[t EXCEPT !.replied = TRUE] EXCEPT !.early = s.said.f]
    BY <1>1, PutDoes, Zenon
  <2> HIDE DEF t
  <2>3. ses'[c] \in Session
    BY <2>1, <2>2, <1>s, Zenon DEF Session
  <2>4. /\ ses'[c].replied = TRUE /\ ses'[c].early = s.said.f
        /\ TasksAt(ses'[c], "copying", s.task.b)
        /\ SameApp(s, ses'[c]) /\ SameInput(s, ses'[c]) /\ SameStream(s, ses'[c])
        /\ SameEnds(s, ses'[c])
    BY <2>1, <2>2, Zenon
       DEF Session, TasksAt, SameAll, SameApp, SameInput, SameReply, SameStream, SameEnds
  <2> QED BY <2>3, <2>4 DEF Replies, Reply
<1>2. CASE Put(c, Fail(s, "f"))
  BY <1>2, FailDoes DEF Dir
<1> QED BY <1>1, <1>2 DEF Reply

LEMMA DispatchDoes ==
  ASSUME TypeOK, NEW c \in Client, Dispatch(c)
  PROVE  /\ ses'[c] \in Session
         /\ Starts(ses[c], ses'[c]) \/ Fails(ses[c], ses'[c], "b")
<1> DEFINE s == ses[c]
<1>s. s \in Session /\ s.task.b = "queued"
  BY Typed DEF Dispatch
<1>1. CASE allowed
  <2>1. ses'[c] = [s EXCEPT !.task.b = "reading"]
    BY <1>1, PutDoes, Zenon DEF Dispatch
  <2>2. /\ ses'[c] \in Session /\ SameAll(s, ses'[c])
        /\ TasksAt(ses'[c], s.task.f, "reading")
    BY <2>1, <1>s, ListenerMoves DEF ListenerTask
  <2> QED BY <2>2, <1>s DEF Starts
<1>2. CASE ~allowed
  BY <1>2, <1>s, FailDoes DEF Dispatch, Dir
<1> QED BY <1>1, <1>2

LEMMA ReadRequestDoes ==
  ASSUME TypeOK, NEW c \in Client, ReadRequest(c)
  PROVE  ses'[c] \in Session /\ ReadsRequest(kind[c], ses[c], ses'[c])
<1> DEFINE s == ses[c]
           q == [s.chan EXCEPT !["f"] = Tail(s.chan["f"])]
           r == [s EXCEPT !.chan = q]
           x == IF kind[c] = "netcat" THEN "copying" ELSE "connecting"
           y == IF kind[c] = "netcat" THEN "attached" ELSE s.phase
           u == [r EXCEPT !.task.b = x]
<1>s. /\ s \in Session /\ s.task.b = "reading" /\ s.chan.f # << >>
      /\ s.chan \in [Dir -> Seq(Item)] /\ s.phase \in {"setup", "requested", "attached"}
  BY Typed, Fields DEF ReadRequest
<1>1. /\ q \in [Dir -> Seq(Item)] /\ x \in ListenerTask
      /\ y \in {"setup", "requested", "attached"}
  BY <1>s DEF ListenerTask, Dir
<1>2. /\ kind[c] = "netcat" => ses'[c] = [u EXCEPT !.phase = "attached"]
      /\ kind[c] # "netcat" => ses'[c] = u
  <2>1. s.chan.f = s.chan["f"] /\ [s EXCEPT !.chan.f = Tail(@)] = r
    BY <1>s, Zenon DEF Session
  <2>2. ASSUME kind[c] = "netcat" PROVE ses'[c] = [u EXCEPT !.phase = "attached"]
    BY <2>1, <2>2, Zenon DEF ReadRequest, TypeOK
  <2>3. ASSUME kind[c] # "netcat" PROVE ses'[c] = u
    BY <2>1, <2>3, PutDoes, Zenon DEF ReadRequest
  <2> QED BY <2>2, <2>3
<1>3. /\ r \in Session /\ r.task = s.task /\ r.chan = q /\ r.phase = s.phase
      /\ r.sent = s.sent /\ r.got = s.got
      /\ SameApp(s, r) /\ SameInput(s, r) /\ SameReply(s, r) /\ SameEnds(s, r)
  <2> HIDE DEF q
  <2> QED BY <1>s, <1>1, Zenon DEF Session, SameApp, SameInput, SameReply, SameEnds
<1> HIDE DEF q, r, x
<1>4. u \in Session /\ SameAll(r, u) /\ TasksAt(u, s.task.f, x)
  BY <1>1, <1>3, ListenerMoves
<1> HIDE DEF u
<1>5. /\ ses'[c] \in Session /\ TasksAt(ses'[c], s.task.f, x) /\ ses'[c].chan = q
      /\ ses'[c].phase = y /\ ses'[c].sent = s.sent /\ ses'[c].got = s.got
      /\ SameApp(s, ses'[c]) /\ SameInput(s, ses'[c]) /\ SameReply(s, ses'[c])
      /\ SameEnds(s, ses'[c])
  <2>1. CASE kind[c] = "netcat"
    <3>1. ses'[c] = [u EXCEPT !.phase = "attached"] /\ y = "attached"
      BY <1>2, <2>1
    <3>2. ses'[c] \in Session
      BY <1>4, <3>1, Zenon DEF Session
    <3>3. /\ TasksAt(ses'[c], s.task.f, x) /\ ses'[c].phase = "attached"
          /\ ses'[c].chan = r.chan /\ ses'[c].sent = r.sent /\ ses'[c].got = r.got
          /\ SameApp(r, ses'[c]) /\ SameInput(r, ses'[c]) /\ SameReply(r, ses'[c])
          /\ SameEnds(r, ses'[c])
      BY <1>4, <3>1, Zenon
         DEF Session, TasksAt, SameAll, SameApp, SameInput, SameReply, SameStream, SameEnds
    <3> QED BY <1>3, <3>1, <3>2, <3>3, Zenon DEF SameApp, SameInput, SameReply, SameEnds
  <2>2. CASE kind[c] # "netcat"
    BY <1>2, <1>3, <1>4, <2>2, Zenon
       DEF TasksAt, SameAll, SameApp, SameInput, SameReply, SameStream, SameEnds
  <2> QED BY <2>1, <2>2
<1> QED BY <1>s, <1>5 DEF ReadsRequest, q, x

LEMMA TargetDoes ==
  ASSUME TypeOK, NEW c \in Client, TargetConnects(c) \/ TargetFails(c) \/ RequestLost(c)
  PROVE  /\ ses'[c] \in Session
         /\ Attaches(ses[c], ses'[c]) \/ Fails(ses[c], ses'[c], "b")
<1> DEFINE s == ses[c]
           u == [s EXCEPT !.task.b = "copying"]
<1>s. s \in Session
  BY Typed
<1>1. CASE TargetConnects(c)
  <2>1. u \in Session /\ SameAll(s, u) /\ TasksAt(u, s.task.f, "copying")
    <3>1. "copying" \in ListenerTask
      BY DEF ListenerTask
    <3> QED BY <3>1, <1>s, ListenerMoves, Zenon
  <2>2. ses'[c] = [u EXCEPT !.phase = "attached"] /\ s.task.b = "connecting"
    BY <1>1, PutDoes, Zenon DEF TargetConnects
  <2> HIDE DEF u
  <2>3. ses'[c] \in Session
    BY <2>1, <2>2, Zenon DEF Session
  <2>4. /\ TasksAt(ses'[c], s.task.f, "copying") /\ ses'[c].phase = "attached"
        /\ ses'[c].chan = s.chan /\ ses'[c].sent = s.sent /\ ses'[c].got = s.got
        /\ SameApp(s, ses'[c]) /\ SameInput(s, ses'[c]) /\ SameReply(s, ses'[c])
        /\ SameEnds(s, ses'[c])
    BY <2>1, <2>2, Zenon
       DEF Session, TasksAt, SameAll, SameApp, SameInput, SameReply, SameStream, SameEnds
  <2> QED BY <2>2, <2>3, <2>4 DEF Attaches
<1>2. CASE TargetFails(c) \/ RequestLost(c)
  BY <1>2, FailDoes DEF TargetFails, RequestLost, Dir
<1> QED BY <1>1, <1>2

LEMMA TakeDoes ==
  ASSUME TypeOK, NEW c \in Client, NEW d \in Dir, Take(c, d)
  PROVE  ses'[c] \in Session /\ Takes(ses[c], ses'[c], d)
<1> DEFINE s == ses[c]
           q == [s.chan EXCEPT ![d] = Append(s.chan[d], Head(s.sock[d]))]
           r == IF ReaderGone(s, d) THEN s ELSE [s EXCEPT !.chan = q]
<1>s. /\ s \in Session /\ s.sock \in [Dir -> Seq(Item)] /\ s.sent \in [Dir -> Nat]
      /\ s.chan \in [Dir -> Seq(Item)]
  BY Typed, Fields
<1>1. /\ s.task[d] = "copying" /\ ~s.shut[d]
      /\ s.sock[d] # << >> /\ Head(s.sock[d]).t = "byte"
  BY DEF Take
<1>2. ses'[c] = [r EXCEPT !.sock[d] = Tail(@), !.sent[d] = @ + 1]
  BY PutDoes, Zenon DEF Take, Sent
<1>3. /\ [s.sock EXCEPT ![d] = Tail(s.sock[d])] \in [Dir -> Seq(Item)]
      /\ [s.sent EXCEPT ![d] = s.sent[d] + 1] \in [Dir -> Nat]
      /\ q \in [Dir -> Seq(Item)]
  BY <1>s, <1>1
<1>4. CASE ReaderGone(s, d)
  <2>1. ses'[c] = [s EXCEPT !.sock[d] = Tail(@), !.sent[d] = @ + 1]
    BY <1>2, <1>4
  <2>2. ses'[c] \in Session
    BY <2>1, <1>s, <1>3, Zenon DEF Session
  <2>3. Takes(s, ses'[c], d)
    BY <2>1, <1>s, <1>1, <1>4, Zenon DEF Session, Takes, SameApp, SameReply, SameEnds
  <2> QED BY <2>2, <2>3
<1>5. CASE ~ReaderGone(s, d)
  <2>1. ses'[c] = [[s EXCEPT !.chan = q] EXCEPT !.sock[d] = Tail(@), !.sent[d] = @ + 1]
    BY <1>2, <1>5
  <2>2. ses'[c] \in Session
    BY <2>1, <1>s, <1>3, Zenon DEF Session
  <2>3. Takes(s, ses'[c], d)
    BY <2>1, <1>s, <1>1, <1>5, Zenon DEF Session, Takes, SameApp, SameReply, SameEnds
  <2> QED BY <2>2, <2>3
<1> QED BY <1>4, <1>5

LEMMA TakeEndDoes ==
  ASSUME TypeOK, NEW c \in Client, NEW d \in Dir, TakeEnd(c, d)
  PROVE  ses'[c] \in Session /\ TakesEnd(ses[c], ses'[c], d)
<1> DEFINE s == ses[c]
<1>s. s \in Session /\ s.shut \in [Dir -> BOOLEAN] /\ s.task[d] = "copying" /\ ~s.shut[d]
  BY Typed, Fields DEF TakeEnd
<1>1. ses'[c] = [s EXCEPT !.shut[d] = TRUE]
  BY PutDoes, Zenon DEF TakeEnd
<1>2. [s.shut EXCEPT ![d] = TRUE] \in [Dir -> BOOLEAN]
  BY <1>s
<1>3. ses'[c] \in Session
  BY <1>s, <1>1, <1>2, Zenon DEF Session
<1>4. TakesEnd(s, ses'[c], d)
  BY <1>s, <1>1, Zenon DEF Session, TakesEnd, SameApp, SameInput, SameReply, SameStream
<1> QED BY <1>3, <1>4

\* The other direction than d.
LEMMA Opposite == ASSUME NEW d \in Dir PROVE Opp(d) \in Dir /\ Opp(d) # d /\ Opp(Opp(d)) = d
BY DEF Opp, Dir

LEMMA GiveDoes ==
  ASSUME TypeOK, NEW c \in Client, NEW d \in Dir, Give(c, d)
  PROVE  ses'[c] \in Session /\ Gives(ses[c], ses'[c], Opp(d))
<1> DEFINE s == ses[c]
<1> DEFINE e == Opp(d)
           q == [s.chan EXCEPT ![e] = Tail(s.chan[e])]
           g == [s.got EXCEPT ![e] = Append(s.got[e], Head(s.chan[e]).n)]
<1>e. e \in Dir /\ Opp(e) = d
  BY Opposite
<1>s. /\ s \in Session /\ s.chan \in [Dir -> Seq(Item)] /\ s.got \in [Dir -> Seq(Nat)]
      /\ s.task[d] = "copying" /\ s.chan[e] # << >>
  BY Typed, Fields DEF Give
<1>1. ses'[c] = [s EXCEPT !.chan[e] = Tail(@), !.got[e] = Append(@, Head(s.chan[e]).n)]
  BY PutDoes, Zenon DEF Give
<1> HIDE DEF e
<1>2. q \in [Dir -> Seq(Item)] /\ g \in [Dir -> Seq(Nat)]
  <2>1. s.chan[e] \in Seq(Item) /\ Head(s.chan[e]) \in Item
    BY <1>s, <1>e
  <2>2. Head(s.chan[e]).n \in Nat
    BY <2>1 DEF Item
  <2> QED BY <1>s, <1>e, <2>1, <2>2
<1>3. ses'[c] = [[s EXCEPT !.chan = q] EXCEPT !.got = g]
  BY <1>s, <1>1, Zenon DEF Session
<1>4. ses'[c].chan = q /\ ses'[c].got = g
  BY <1>s, <1>3, Zenon DEF Session
<1>5. ses'[c] \in Session
  BY <1>s, <1>2, <1>3, Zenon DEF Session
<1>6. Gives(s, ses'[c], e)
  BY <1>s, <1>e, <1>3, <1>4, Zenon
     DEF Session, Gives, SameApp, SameInput, SameReply, SameEnds
<1> QED BY <1>5, <1>6 DEF e

LEMMA GiveEndDoes ==
  ASSUME TypeOK, NEW c \in Client, NEW d \in Dir, GiveEnd(c, d)
  PROVE  ses'[c] \in Session /\ GivesEnd(ses[c], ses'[c], Opp(d))
<1> DEFINE s == ses[c]
<1> DEFINE e == Opp(d)
<1>e. e \in Dir /\ Opp(e) = d
  BY Opposite
<1>s. /\ s \in Session /\ s.told \in [Dir -> BOOLEAN] /\ s.task[d] = "copying" /\ ~s.told[e]
      /\ s.chan[e] = << >> /\ (s.shut[e] \/ WriterGone(s, e))
  BY Typed, Fields DEF GiveEnd
<1>1. ses'[c] = [s EXCEPT !.told[e] = TRUE]
  BY PutDoes, Zenon DEF GiveEnd
<1> HIDE DEF e
<1>2. [s.told EXCEPT ![e] = TRUE] \in [Dir -> BOOLEAN]
  BY <1>s, <1>e
<1>3. ses'[c] \in Session
  BY <1>s, <1>1, <1>2, Zenon DEF Session
<1>4. GivesEnd(s, ses'[c], e)
  BY <1>s, <1>e, <1>1, Zenon
     DEF Session, GivesEnd, SameApp, SameInput, SameReply, SameStream
<1> QED BY <1>3, <1>4 DEF e

LEMMA EndDoes ==
  ASSUME TypeOK, NEW c \in Client, NEW d \in Dir, Finish(c, d) \/ CopyFails(c, d)
  PROVE  /\ ses'[c] \in Session
         /\ Finishes(ses[c], ses'[c], d) \/ Fails(ses[c], ses'[c], d)
<1> DEFINE s == ses[c]
<1>s. s \in Session /\ s.task[d] = "copying"
  BY Typed DEF Finish, CopyFails
<1>1. CASE Finish(c, d)
  <2>1. s.shut[d]
    BY <1>1, Zenon DEF Finish
  <2>2. ses'[c] = Over(s, d)
    BY <1>1, PutDoes, Zenon DEF Finish
  <2> QED BY <1>s, <2>1, <2>2, OverDoes, Zenon DEF Finishes
<1>2. CASE CopyFails(c, d)
  <2>1. s.task.b # "none" \/ d = "f"
    BY <1>s DEF Dir
  <2>2. Put(c, Fail(s, d))
    BY <1>2, Zenon DEF CopyFails
  <2> QED BY <2>1, <2>2, FailDoes
<1> QED BY <1>1, <1>2

LEMMA AppSpeaksDoes ==
  ASSUME TypeOK, NEW c \in Client, AppSpeaks(c)
  PROVE  ses'[c] \in Session /\ Speaks(kind[c], ses[c], ses'[c])
<1> DEFINE s == ses[c]
           x == Mark(Script[kind[c]][s.spoke + 1])
           q == [s.sock EXCEPT !["f"] = Append(s.sock["f"], x)]
<1>s. /\ s \in Session /\ s.sock \in [Dir -> Seq(Item)] /\ s.spoke \in Nat
      /\ s.peer.f = "open" /\ s.task.f # "over" /\ s.spoke < Len(Script[kind[c]])
  BY Typed, Fields DEF AppSpeaks, CanSend
<1>1. ses'[c] = [[s EXCEPT !.spoke = s.spoke + 1] EXCEPT !.sock = q]
  <2>1. s.sock.f = s.sock["f"]
    BY <1>s, Zenon DEF Session
  <2> QED BY <1>s, <2>1, PutDoes, Zenon DEF AppSpeaks, Session
<1>2. q \in [Dir -> Seq(Item)] /\ s.spoke + 1 \in Nat
  <2>1. kind[c] \in DOMAIN Script
    BY SessionsAssumption DEF TypeOK
  <2>2. x \in Item
    BY <1>s, <2>1 DEF Script, Mark, Item
  <2> QED BY <1>s, <2>2 DEF Dir
<1> HIDE DEF q
<1>3. ses'[c] \in Session
  BY <1>s, <1>1, <1>2, Zenon DEF Session
<1>4. /\ ses'[c].spoke = s.spoke + 1 /\ ses'[c].sock = q /\ ses'[c].task = s.task
      /\ ses'[c].peer = s.peer /\ ses'[c].said = s.said
      /\ ses'[c].ahead = s.ahead /\ ses'[c].lost = s.lost
      /\ SameReply(s, ses'[c]) /\ SameStream(s, ses'[c]) /\ SameEnds(s, ses'[c])
  BY <1>s, <1>1, Zenon DEF Session, SameReply, SameStream, SameEnds
<1> QED BY <1>s, <1>3, <1>4 DEF Speaks, q

\* What a byte of the peer of d does, typed or not.
OneMore(s, d) == [s EXCEPT !.said[d] = @ + 1, !.sock[d] = Append(@, Byte(s.said[d] + 1))]

LEMMA ByteDoes ==
  ASSUME NEW s \in Session, NEW d \in Dir, NEW t, t = OneMore(s, d)
  PROVE  /\ t \in Session /\ t.said = [s.said EXCEPT ![d] = s.said[d] + 1]
         /\ t.sock = [s.sock EXCEPT ![d] = Append(s.sock[d], Byte(s.said[d] + 1))]
         /\ t.task = s.task /\ t.peer = s.peer /\ t.spoke = s.spoke
         /\ t.ahead = s.ahead /\ t.lost = s.lost
         /\ SameReply(s, t) /\ SameStream(s, t) /\ SameEnds(s, t)
<1> DEFINE n == [s.said EXCEPT ![d] = s.said[d] + 1]
           q == [s.sock EXCEPT ![d] = Append(s.sock[d], Byte(s.said[d] + 1))]
<1>1. n \in [Dir -> Nat] /\ q \in [Dir -> Seq(Item)]
  <2>1. s.said \in [Dir -> Nat] /\ s.sock \in [Dir -> Seq(Item)]
    BY Fields
  <2>2. Byte(s.said[d] + 1) \in Item
    BY <2>1 DEF Byte, Item
  <2> QED BY <2>1, <2>2
<1>2. t = [[s EXCEPT !.said = n] EXCEPT !.sock = q]
  BY Zenon DEF Session, OneMore
<1> HIDE DEF n, q
<1>3. t \in Session
  BY <1>1, <1>2, Zenon DEF Session
<1>4. /\ t.said = n /\ t.sock = q /\ t.task = s.task /\ t.peer = s.peer
      /\ t.spoke = s.spoke /\ t.ahead = s.ahead /\ t.lost = s.lost
      /\ SameReply(s, t) /\ SameStream(s, t) /\ SameEnds(s, t)
  BY <1>2, Zenon DEF Session, SameReply, SameStream, SameEnds
<1> QED BY <1>3, <1>4 DEF n, q

LEMMA SaysDoes ==
  ASSUME TypeOK, NEW c \in Client, NEW d \in Dir, Says(c, d)
  PROVE  ses'[c] \in Session /\ Sends(kind[c], ses[c], ses'[c], d)
<1> DEFINE s == ses[c]
<1>s. /\ s \in Session /\ s.peer[d] = "open" /\ s.task[d] # "over"
      /\ d = "f" => s.spoke = Len(Script[kind[c]])
  BY Typed DEF Says, CanSend, Dir
<1>1. ses'[c] = OneMore(s, d)
  BY PutDoes, Zenon DEF Says, OneMore
<1> DEFINE t == ses'[c]
<1> HIDE DEF s, t
<1>2. /\ t \in Session /\ t.said = [s.said EXCEPT ![d] = s.said[d] + 1]
      /\ t.sock = [s.sock EXCEPT ![d] = Append(s.sock[d], Byte(s.said[d] + 1))]
      /\ t.task = s.task /\ t.peer = s.peer /\ t.spoke = s.spoke
      /\ t.ahead = s.ahead /\ t.lost = s.lost
      /\ SameReply(s, t) /\ SameStream(s, t) /\ SameEnds(s, t)
  BY <1>s, <1>1, ByteDoes DEF t
<1> QED BY <1>s, <1>2, Zenon DEF Sends, s, t

\* What the end of the input of the peer of d does, and its reset.
Ended == {"closed", "reset"}
Stopped(s, d, x, q) == [s EXCEPT !.peer[d] = x, !.sock[d] = q]

LEMMA EofDoes ==
  ASSUME NEW s \in Session, NEW d \in Dir, NEW x \in Ended, NEW q \in Seq(Item),
         NEW t, t = Stopped(s, d, x, q)
  PROVE  /\ t \in Session /\ t.peer = [s.peer EXCEPT ![d] = x]
         /\ t.sock = [s.sock EXCEPT ![d] = q]
         /\ t.task = s.task /\ t.spoke = s.spoke /\ t.said = s.said
         /\ t.ahead = s.ahead /\ t.lost = s.lost
         /\ SameReply(s, t) /\ SameStream(s, t) /\ SameEnds(s, t)
<1> DEFINE p == [s.peer EXCEPT ![d] = x]
           r == [s.sock EXCEPT ![d] = q]
<1>1. p \in [Dir -> {"open", "closed", "reset"}] /\ r \in [Dir -> Seq(Item)]
  BY Fields DEF Ended
<1>2. t = [[s EXCEPT !.peer = p] EXCEPT !.sock = r]
  BY Zenon DEF Session, Stopped
<1> HIDE DEF p, r
<1>3. t \in Session
  BY <1>1, <1>2, Zenon DEF Session
<1>4. /\ t.peer = p /\ t.sock = r /\ t.task = s.task /\ t.spoke = s.spoke
      /\ t.said = s.said /\ t.ahead = s.ahead /\ t.lost = s.lost
      /\ SameReply(s, t) /\ SameStream(s, t) /\ SameEnds(s, t)
  BY <1>2, Zenon DEF Session, SameReply, SameStream, SameEnds
<1> QED BY <1>3, <1>4 DEF p, r

LEMMA EndsInputDoes ==
  ASSUME TypeOK, NEW c \in Client, NEW d \in Dir, EndsInput(c, d) \/ Resets(c, d)
  PROVE  /\ ses'[c] \in Session
         /\ Closes(ses[c], ses'[c], d) \/ Aborts(ses[c], ses'[c], d)
<1> DEFINE s == ses[c]
           t == ses'[c]
           q == Append(s.sock[d], Mark("eof"))
<1>s. s \in Session /\ s.peer[d] = "open" /\ s.task[d] # "over"
  BY Typed DEF EndsInput, Resets, CanSend, Dir
<1>0. /\ q \in Seq(Item) /\ << >> \in Seq(Item)
      /\ "closed" \in Ended /\ "reset" \in Ended
  BY <1>s, Fields DEF Mark, Item, Ended
<1>1. CASE EndsInput(c, d)
  <2>1. t = Stopped(s, d, "closed", q)
    <3>1. t = [s EXCEPT !.peer[d] = "closed", !.sock[d] = Append(@, Mark("eof"))]
      BY <1>1, PutDoes, Zenon DEF EndsInput
    <3> QED BY <3>1, <1>s, Zenon DEF Session, Stopped
  <2> HIDE DEF q, s, t
  <2>2. /\ t \in Session /\ t.peer = [s.peer EXCEPT ![d] = "closed"]
        /\ t.sock = [s.sock EXCEPT ![d] = q]
        /\ t.task = s.task /\ t.spoke = s.spoke /\ t.said = s.said
        /\ t.ahead = s.ahead /\ t.lost = s.lost
        /\ SameReply(s, t) /\ SameStream(s, t) /\ SameEnds(s, t)
    BY <1>s, <1>0, <2>1, EofDoes
  <2> QED BY <1>s, <2>2, Zenon DEF Closes, q, s, t
<1>2. CASE Resets(c, d)
  <2> DEFINE z == << >>
  <2>1. t = Stopped(s, d, "reset", z) /\ z \in Seq(Item)
    BY <1>0, <1>2, PutDoes, Zenon DEF Resets, Stopped
  <2> HIDE DEF q, s, t, z
  <2>2. /\ t \in Session /\ t.peer = [s.peer EXCEPT ![d] = "reset"]
        /\ t.sock = [s.sock EXCEPT ![d] = z]
        /\ t.task = s.task /\ t.spoke = s.spoke /\ t.said = s.said
        /\ t.ahead = s.ahead /\ t.lost = s.lost
        /\ SameReply(s, t) /\ SameStream(s, t) /\ SameEnds(s, t)
    BY <1>s, <1>0, <2>1, EofDoes
  <2> QED BY <1>s, <2>2, Zenon DEF Aborts, s, t, z
<1> QED BY <1>1, <1>2

-----------------------------------------------------------------------------
(* What any step does to any session.                                      *)

TaskStep(k, s, t) ==
  \/ Advances(k, s, t) \/ ReadsSocks(s, t) \/ Fills(s, t) \/ ReadsLine(s, t)
  \/ ReadsHeaders(s, t) \/ Opens(s, t) \/ Requests(k, s, t) \/ Replies(s, t)
  \/ Starts(s, t) \/ ReadsRequest(k, s, t) \/ Attaches(s, t)
CopyingStep(s, t) ==
  \E d \in Dir :
    \/ Takes(s, t, d) \/ TakesEnd(s, t, d) \/ Gives(s, t, d) \/ GivesEnd(s, t, d)
    \/ Finishes(s, t, d)
PeersStep(k, s, t) ==
  Speaks(k, s, t) \/ \E d \in Dir : Sends(k, s, t, d) \/ Closes(s, t, d) \/ Aborts(s, t, d)
LossStep(s, t) == Loses(s, t) \/ \E d \in Dir : Fails(s, t, d)

PlainStep(k, s, t) ==
  TaskStep(k, s, t) \/ CopyingStep(s, t) \/ PeersStep(k, s, t) \/ LossStep(s, t)
SessionStep(k, s, t) ==
  \/ PlainStep(k, s, t)
  \/ \E u \in Session : Opens(s, u) /\ Fails(u, t, "b")

\* The actions of one session that leave the listener's stdin alone.
Quiet(c) ==
  \/ DialerStep(c) \/ Dispatch(c) \/ RequestLost(c) \/ TargetConnects(c) \/ TargetFails(c)
  \/ AppConnects(c) \/ AppSpeaks(c)
  \/ \E d \in Dir : Says(c, d) \/ EndsInput(c, d) \/ Resets(c, d) \/ CopyStep(c, d)

LEMMA QuietPuts ==
  ASSUME TypeOK, NEW c \in Client, Quiet(c)
  PROVE  /\ \A x \in Client \ {c} : ses'[x] = ses[x]
         /\ ses' = [x \in Client |-> ses'[x]]
         /\ UNCHANGED <<kind, allowed, running, typed, pending, faults>>
<1>1. \E t : Put(c, t)
  <2>1. CASE DialerStep(c)
    <3>1. CASE Accept(c) \/ Peek(c) \/ HandshakeFails(c) \/ ReadSocks(c)
      BY <3>1, Zenon DEF Accept, Peek, HandshakeFails, ReadSocks
    <3>2. CASE Fill(c) \/ ReadLine(c) \/ ReadHeaders(c) \/ OpenStream(c)
      BY <3>2, Zenon DEF Fill, ReadLine, ReadHeaders, OpenStream
    <3>3. CASE OpenFails(c) \/ WriteRequest(c) \/ WriteFails(c) \/ Reply(c)
      BY <3>3, Zenon DEF OpenFails, WriteRequest, WriteFails, Reply
    <3> QED BY <2>1, <3>1, <3>2, <3>3 DEF DialerStep
  <2>2. CASE Dispatch(c) \/ RequestLost(c) \/ TargetConnects(c) \/ TargetFails(c)
    BY <2>2, Zenon DEF Dispatch, RequestLost, TargetConnects, TargetFails
  <2>3. CASE AppConnects(c) \/ AppSpeaks(c)
    BY <2>3, Zenon DEF AppConnects, AppSpeaks
  <2>4. ASSUME NEW d \in Dir, Says(c, d) \/ EndsInput(c, d) \/ Resets(c, d)
        PROVE  \E t : Put(c, t)
    BY <2>4, Zenon DEF Says, EndsInput, Resets
  <2>5. ASSUME NEW d \in Dir, CopyStep(c, d) PROVE \E t : Put(c, t)
    BY <2>5, Zenon DEF CopyStep, Take, TakeEnd, Give, GiveEnd, Finish, CopyFails
  <2> QED BY <2>1, <2>2, <2>3, <2>4, <2>5 DEF Quiet
<1> QED BY <1>1, PutDoes

\* What the reads of the listener's stdin depend on.
SameStdin(s, t) == t.said["b"] = s.said["b"] /\ t.peer["b"] = s.peer["b"]

LEMMA TasksKeepStdin ==
  ASSUME NEW k, NEW s, NEW t,
         TaskStep(k, s, t) \/ CopyingStep(s, t) \/ \E d \in Dir : Fails(s, t, d)
  PROVE  SameStdin(s, t)
<1>1. CASE TaskStep(k, s, t)
  BY <1>1 DEF TaskStep, Advances, ReadsSocks, Fills, ReadsLine, ReadsHeaders, Opens, Requests,
              Replies, Starts, ReadsRequest, Attaches, SameAll, SameApp, SameStdin
<1>2. CASE CopyingStep(s, t) \/ \E d \in Dir : Fails(s, t, d)
  BY <1>2 DEF CopyingStep, Takes, TakesEnd, Gives, GivesEnd, Finishes, Fails, Returns,
              SameApp, SameStdin
<1> QED BY <1>1, <1>2

LEMMA QuietDoes ==
  ASSUME TypeOK, NEW c \in Client, Quiet(c)
  PROVE  /\ ses'[c] \in Session /\ SessionStep(kind[c], ses[c], ses'[c])
         /\ kind[c] = "netcat" => SameStdin(ses[c], ses'[c])
<1> DEFINE s == ses[c]
           t == ses'[c]
           Goal == /\ t \in Session /\ SessionStep(kind[c], s, t)
                   /\ kind[c] = "netcat" => SameStdin(s, t)
<1>s. s \in Session /\ s.said \in [Dir -> Nat] /\ DOMAIN s.peer = Dir
  BY Typed, Fields
<1>1. ASSUME t \in Session, TaskStep(kind[c], s, t) \/ \E d \in Dir : Fails(s, t, d) PROVE Goal
  BY <1>1, TasksKeepStdin DEF SessionStep, PlainStep, LossStep
<1>2. ASSUME t \in Session, CopyingStep(s, t) \/ \E d \in Dir : Fails(s, t, d) PROVE Goal
  BY <1>2, TasksKeepStdin DEF SessionStep, PlainStep, LossStep
<1>3. "f" \in Dir /\ "b" \in Dir
  BY DEF Dir
<1> SUFFICES Goal
  OBVIOUS
<1> HIDE DEF Goal
<1>4. CASE DialerStep(c)
  <2>1. CASE AppConnects(c) \/ Accept(c) \/ Peek(c)
    BY <1>1, <1>3, <2>1, AdvancesDoes DEF TaskStep
  <2>2. CASE ReadSocks(c)
    BY <1>1, <1>3, <2>2, ReadSocksDoes DEF TaskStep
  <2>3. CASE HandshakeFails(c) \/ OpenFails(c) \/ WriteFails(c)
    BY <1>1, <1>3, <2>3, HandshakeFailsDoes
  <2>4. CASE Fill(c)
    BY <1>1, <2>4, FillDoes DEF TaskStep
  <2>5. CASE ReadLine(c)
    BY <1>1, <1>3, <2>5, ReadLineDoes DEF TaskStep
  <2>6. CASE ReadHeaders(c)
    BY <1>1, <2>6, ReadHeadersDoes DEF TaskStep
  <2>7. CASE OpenStream(c)
    <3>1. CASE Opens(s, t)
      BY <1>1, <2>7, <3>1, OpenStreamDoes DEF TaskStep
    <3>2. CASE \E u \in Session : Opens(s, u) /\ Fails(u, t, "b")
      <4>1. t \in Session /\ SessionStep(kind[c], s, t)
        BY <2>7, <3>2, OpenStreamDoes DEF SessionStep
      <4>2. SameStdin(s, t)
        BY <3>2 DEF Opens, Fails, Returns, SameAll, SameApp, SameStdin
      <4> QED BY <4>1, <4>2 DEF Goal
    <3> QED BY <2>7, <3>1, <3>2, OpenStreamDoes
  <2>8. CASE WriteRequest(c)
    BY <1>1, <2>8, WriteRequestDoes DEF TaskStep
  <2>9. CASE Reply(c)
    BY <1>1, <1>3, <2>9, ReplyDoes DEF TaskStep
  <2> QED BY <1>4, <2>1, <2>2, <2>3, <2>4, <2>5, <2>6, <2>7, <2>8, <2>9 DEF DialerStep
<1>5. CASE AppConnects(c)
  BY <1>1, <1>3, <1>5, AdvancesDoes DEF TaskStep
<1>6. CASE Dispatch(c)
  BY <1>1, <1>3, <1>6, DispatchDoes DEF TaskStep
<1>7. CASE RequestLost(c) \/ TargetConnects(c) \/ TargetFails(c)
  BY <1>1, <1>3, <1>7, TargetDoes DEF TaskStep
<1>8. CASE AppSpeaks(c)
  <2>1. t \in Session /\ Speaks(kind[c], s, t)
    BY <1>8, AppSpeaksDoes
  <2>2. SessionStep(kind[c], s, t)
    BY <2>1 DEF SessionStep, PlainStep, PeersStep
  <2>3. SameStdin(s, t)
    BY <2>1 DEF Speaks, SameStdin
  <2> QED BY <2>1, <2>2, <2>3 DEF Goal
<1>9. ASSUME NEW d \in Dir, Says(c, d) PROVE Goal
  <2>1. t \in Session /\ Sends(kind[c], s, t, d)
    BY <1>9, SaysDoes
  <2>2. SessionStep(kind[c], s, t)
    BY <2>1 DEF SessionStep, PlainStep, PeersStep
  <2>3. kind[c] # "netcat" \/ d # "b"
    BY <1>9 DEF Says, CanSend
  <2>4. kind[c] = "netcat" => SameStdin(s, t)
    BY <1>s, <2>1, <2>3 DEF Sends, SameStdin, Dir
  <2> QED BY <2>1, <2>2, <2>4 DEF Goal
<1>10. ASSUME NEW d \in Dir, EndsInput(c, d) \/ Resets(c, d) PROVE Goal
  <2>1. t \in Session /\ (Closes(s, t, d) \/ Aborts(s, t, d))
    BY <1>10, EndsInputDoes
  <2>2. SessionStep(kind[c], s, t)
    BY <2>1 DEF SessionStep, PlainStep, PeersStep
  <2>3. kind[c] # "netcat" \/ d # "b"
    BY <1>10 DEF EndsInput, Resets, CanSend
  <2>4. kind[c] = "netcat" => SameStdin(s, t)
    BY <1>s, <2>1, <2>3 DEF Closes, Aborts, SameStdin, Dir
  <2> QED BY <2>1, <2>2, <2>4 DEF Goal
<1>11. ASSUME NEW d \in Dir, CopyStep(c, d) PROVE Goal
  <2>1. CASE Take(c, d)
    BY <1>2, <2>1, TakeDoes DEF CopyingStep
  <2>2. CASE TakeEnd(c, d)
    BY <1>2, <2>2, TakeEndDoes DEF CopyingStep
  <2>3. CASE Give(c, d)
    BY <1>2, <2>3, GiveDoes, Opposite DEF CopyingStep
  <2>4. CASE GiveEnd(c, d)
    BY <1>2, <2>4, GiveEndDoes, Opposite DEF CopyingStep
  <2>5. CASE Finish(c, d) \/ CopyFails(c, d)
    BY <1>2, <2>5, EndDoes DEF CopyingStep
  <2> QED BY <1>11, <2>1, <2>2, <2>3, <2>4, <2>5 DEF CopyStep
<1> QED BY <1>4, <1>5, <1>6, <1>7, <1>8, <1>9, <1>10, <1>11 DEF Quiet

\* The actions that involve the listener's stdin, or several sessions.
LEMMA ReadRequestPuts ==
  ASSUME TypeOK, NEW c \in Client, ReadRequest(c)
  PROVE  /\ \A x \in Client \ {c} : ses'[x] = ses[x]
         /\ UNCHANGED <<kind, typed>>
         /\ pending' = IF kind[c] = "netcat" THEN pending \cup {c} ELSE pending
<1>1. CASE kind[c] = "netcat"
  <2>1. PICK t : ses' = [ses EXCEPT ![c] = t]
    BY <1>1, Zenon DEF ReadRequest
  <2>2. UNCHANGED <<kind, typed>> /\ pending' = pending \cup {c}
    BY <1>1, Zenon DEF ReadRequest
  <2> QED BY <1>1, <2>1, <2>2 DEF TypeOK
<1>2. CASE kind[c] # "netcat"
  <2>1. PICK t : Put(c, t)
    BY <1>2, Zenon DEF ReadRequest
  <2> QED BY <1>2, <2>1, PutDoes
<1> QED BY <1>1, <1>2

\* A line that a session takes, and one that nobody takes.
LEMMA TypeLineDoes ==
  ASSUME TypeOK, NEW c \in Client, TypeLine(c)
  PROVE  /\ UNCHANGED kind /\ c \in pending
         /\ \A x \in Client \ {c} : ses'[x] = ses[x]
         /\ \/ /\ ses[c].task.b = "copying" /\ ses'[c] = OneMore(ses[c], "b")
               /\ typed' = Append(typed, c) /\ pending' = pending
            \/ /\ ses[c].task.b # "copying" /\ ses'[c] = ses[c]
               /\ typed' = Append(typed, Nobody) /\ pending' = pending \ {c}
<1>1. CASE ses[c].task.b = "copying"
  <2>1. /\ ses' = [ses EXCEPT ![c] = OneMore(ses[c], "b")]
        /\ typed' = Append(typed, c) /\ pending' = pending
        /\ UNCHANGED kind /\ c \in pending
    <3>1. ses[c].said.b = ses[c].said["b"]
      BY Typed, Zenon DEF Session
    <3> QED BY <1>1, <3>1, Zenon DEF TypeLine, OneMore
  <2> QED BY <1>1, <2>1 DEF TypeOK
<1>2. CASE ses[c].task.b # "copying"
  <2>1. /\ UNCHANGED ses /\ typed' = Append(typed, Nobody) /\ pending' = pending \ {c}
        /\ UNCHANGED kind /\ c \in pending
    BY <1>2, Zenon DEF TypeLine
  <2> QED BY <1>2, <2>1
<1> QED BY <1>1, <1>2

Reads(x) == x \in pending /\ ses[x].task.b = "copying"

LEMMA StdinEndsDoes ==
  ASSUME TypeOK, StdinEnds, NEW x \in Client
  PROVE  /\ UNCHANGED <<kind, typed>> /\ pending' = {}
         /\ ~Reads(x) => ses'[x] = ses[x]
         /\ Reads(x) => ses'[x] = Stopped(ses[x], "b", "closed", Append(ses[x].sock.b, Mark("eof")))
<1>1. UNCHANGED <<kind, typed>> /\ pending' = {}
  BY Zenon DEF StdinEnds
<1>2. ses'[x] = IF x \in pending /\ ses[x].task.b = "copying"
                 THEN [ses[x] EXCEPT !.peer.b = "closed", !.sock.b = Append(@, Mark("eof"))]
                 ELSE ses[x]
  BY Zenon DEF StdinEnds
<1>3. [ses[x] EXCEPT !.peer.b = "closed", !.sock.b = Append(@, Mark("eof"))]
        = Stopped(ses[x], "b", "closed", Append(ses[x].sock.b, Mark("eof")))
  BY Typed, Zenon DEF Session, Stopped
<1> QED BY <1>1, <1>2, <1>3, Zenon DEF Reads

LEMMA LoseDoes ==
  ASSUME TypeOK, NEW p, LoseConnection(p), NEW x \in Client
  PROVE  /\ UNCHANGED <<kind, typed, pending>> /\ ses'[x] \in Session
         /\ ses'[x] = ses[x] \/ Loses(ses[x], ses'[x])
<1> DEFINE s == ses[x]
           t == [s EXCEPT !.cut = TRUE, !.failed = TRUE, !.chan = Both(<< >>)]
<1>1. UNCHANGED <<kind, typed, pending>>
  BY Zenon DEF LoseConnection
<1>2. ses'[x] = t \/ ses'[x] = s
  BY Zenon DEF LoseConnection
<1>3. s \in Session
  BY Typed
<1>4. Both(<< >>) \in [Dir -> Seq(Item)]
  BY DEF Both
<1>5. t \in Session
  BY <1>3, <1>4, Zenon DEF Session
<1>6. Loses(s, t)
  BY <1>3, Zenon DEF Session, Loses, SameApp, SameInput, SameReply
<1> QED BY <1>1, <1>2, <1>3, <1>5, <1>6, Zenon

LEMMA StopDoes ==
  ASSUME TypeOK, NEW p, ProcessStops(p), NEW x \in Client
  PROVE  /\ UNCHANGED <<kind, typed>> /\ ses'[x] \in Session
         /\ pending' = pending \/ pending' = {}
         /\ ses'[x] = ses[x] \/ \E d \in Dir : Fails(ses[x], ses'[x], d)
<1> DEFINE d == IF p = Listener THEN "b" ELSE "f"
           s == ses[x]
<1>1. /\ UNCHANGED <<kind, typed>>
      /\ pending' = pending \/ pending' = {}
  BY Zenon DEF ProcessStops
<1>2. ses'[x] = s \/ (Served(x, d) /\ ses'[x] = Fail(s, d))
  BY Zenon DEF ProcessStops
<1>3. s \in Session /\ d \in Dir
  BY Typed DEF Dir
<1>4. Served(x, d) => (s.task.b # "none" \/ d = "f")
  BY <1>3 DEF Served
<1> HIDE DEF d
<1>5. Fail(s, d) \in Session /\ Returns(s, Fail(s, d), d) /\ Fail(s, d).failed = TRUE
  BY <1>3, OverDoes
<1>6. Served(x, d) => Fails(s, Fail(s, d), d)
  BY <1>4, <1>5, Zenon DEF Fails
<1> QED BY <1>1, <1>2, <1>3, <1>5, <1>6, Zenon

LEMMA Steps ==
  ASSUME TypeOK, Stdin, [Next]_vars, NEW x \in Client
  PROVE  /\ kind' = kind /\ ses'[x] \in Session
         /\ ses'[x] = ses[x] \/ SessionStep(kind[x], ses[x], ses'[x])
<1>x. ses[x] \in Session
  BY Typed
<1>1. ASSUME NEW c \in Client, Quiet(c)
      PROVE  /\ kind' = kind /\ ses'[x] \in Session
             /\ ses'[x] = ses[x] \/ SessionStep(kind[x], ses[x], ses'[x])
  BY <1>x, <1>1, QuietPuts, QuietDoes
<1>2. ASSUME NEW c \in Client, ReadRequest(c)
      PROVE  /\ kind' = kind /\ ses'[x] \in Session
             /\ ses'[x] = ses[x] \/ SessionStep(kind[x], ses[x], ses'[x])
  <2>1. CASE x = c
    BY <1>2, <2>1, ReadRequestPuts, ReadRequestDoes DEF SessionStep, PlainStep, TaskStep
  <2>2. CASE x # c
    BY <1>x, <1>2, <2>2, ReadRequestPuts
  <2> QED BY <2>1, <2>2
<1>3. ASSUME NEW c \in Client, TypeLine(c)
      PROVE  /\ kind' = kind /\ ses'[x] \in Session
             /\ ses'[x] = ses[x] \/ SessionStep(kind[x], ses[x], ses'[x])
  <2>1. CASE x = c /\ ses[c].task.b = "copying"
    <3>1. ses'[x] = OneMore(ses[x], "b") /\ kind' = kind /\ x \in pending
      BY <1>3, <2>1, TypeLineDoes
    <3>2. "b" \in Dir /\ ses[x].peer["b"] = "open" /\ ses[x].task["b"] # "over"
      BY <2>1, <3>1 DEF Dir, Stdin
    <3> DEFINE s == ses[x]
               t == ses'[x]
    <3> HIDE DEF s, t
    <3>3. /\ t \in Session /\ t.said = [s.said EXCEPT !["b"] = s.said["b"] + 1]
          /\ t.sock = [s.sock EXCEPT !["b"] = Append(s.sock["b"], Byte(s.said["b"] + 1))]
          /\ t.task = s.task /\ t.peer = s.peer /\ t.spoke = s.spoke
          /\ t.ahead = s.ahead /\ t.lost = s.lost
          /\ SameReply(s, t) /\ SameStream(s, t) /\ SameEnds(s, t)
      BY <1>x, <3>1, <3>2, ByteDoes DEF s, t
    <3>4. Sends(kind[x], s, t, "b")
      BY <3>2, <3>3, Zenon DEF Sends, s
    <3> QED BY <3>1, <3>2, <3>3, <3>4 DEF SessionStep, PlainStep, PeersStep, s, t
  <2>2. CASE x # c \/ ses[c].task.b # "copying"
    BY <1>x, <1>3, <2>2, TypeLineDoes
  <2> QED BY <2>1, <2>2
<1>4. CASE StdinEnds
  <2>1. CASE Reads(x)
    <3> DEFINE s == ses[x]
               t == ses'[x]
               q == Append(ses[x].sock.b, Mark("eof"))
    <3>1. t = Stopped(s, "b", "closed", q) /\ kind' = kind
      BY <1>4, <2>1, StdinEndsDoes
    <3>2. /\ "b" \in Dir /\ s.peer["b"] = "open" /\ s.task["b"] # "over"
          /\ s.sock["b"] = s.sock.b
      BY <2>1 DEF Dir, Stdin, Reads
    <3>3. q \in Seq(Item) /\ "closed" \in Ended
      BY <1>x, <3>2, Fields DEF Mark, Item, Ended
    <3> HIDE DEF s, t, q
    <3>4. /\ t \in Session /\ t.peer = [s.peer EXCEPT !["b"] = "closed"]
          /\ t.sock = [s.sock EXCEPT !["b"] = q]
          /\ t.task = s.task /\ t.spoke = s.spoke /\ t.said = s.said
          /\ t.ahead = s.ahead /\ t.lost = s.lost
          /\ SameReply(s, t) /\ SameStream(s, t) /\ SameEnds(s, t)
      BY <1>x, <3>1, <3>2, <3>3, EofDoes DEF s
    <3>5. Closes(s, t, "b")
      BY <3>2, <3>4, Zenon DEF Closes, q, s
    <3> QED BY <3>1, <3>2, <3>4, <3>5 DEF SessionStep, PlainStep, PeersStep, s, t
  <2>2. CASE ~Reads(x)
    BY <1>x, <1>4, <2>2, StdinEndsDoes
  <2> QED BY <2>1, <2>2
<1>5. ASSUME NEW p, LoseConnection(p)
      PROVE  /\ kind' = kind /\ ses'[x] \in Session
             /\ ses'[x] = ses[x] \/ SessionStep(kind[x], ses[x], ses'[x])
  BY <1>5, LoseDoes DEF SessionStep, PlainStep, LossStep
<1>6. ASSUME NEW p, ProcessStops(p)
      PROVE  /\ kind' = kind /\ ses'[x] \in Session
             /\ ses'[x] = ses[x] \/ SessionStep(kind[x], ses[x], ses'[x])
  BY <1>6, StopDoes DEF SessionStep, PlainStep, LossStep
<1>7. CASE UNCHANGED vars
  BY <1>x, <1>7 DEF vars
<1> QED
  BY <1>1, <1>2, <1>3, <1>4, <1>5, <1>6, <1>7 DEF Next, Quiet, ListenerStep, PeerStep

-----------------------------------------------------------------------------
(* How far the tasks are, and the two ends of the stream.                  *)

LEMMA ProgressKept ==
  ASSUME NEW k \in DOMAIN Script, NEW s \in Session, NEW t \in Session,
         Progress(s), BytesInOrder(s), PlainStep(k, s, t)
  PROVE  Progress(t)
<1> USE DEF SameAll, SameApp, SameInput, SameReply, SameStream, SameEnds, TasksAt, Dir, Opp,
            Progress, Early
<1>s. /\ s.task.f \in DialerTask /\ s.task.b \in ListenerTask
      /\ s.phase \in {"setup", "requested", "attached"}
      /\ s.chan \in [Dir -> Seq(Item)] /\ s.sent \in [Dir -> Nat] /\ s.got \in [Dir -> Seq(Nat)]
  BY Fields DEF DialerTask, ListenerTask
<1>t. /\ t.task.f \in DialerTask /\ t.task.b \in ListenerTask
      /\ t.phase \in {"setup", "requested", "attached"}
      /\ t.chan \in [Dir -> Seq(Item)] /\ t.sent \in [Dir -> Nat] /\ t.got \in [Dir -> Seq(Nat)]
  BY Fields DEF DialerTask, ListenerTask
<1>1. CASE Advances(k, s, t)
  BY <1>s, <1>t, <1>1 DEF Advances
<1>2. CASE ReadsSocks(s, t) \/ Fills(s, t) \/ ReadsLine(s, t) \/ ReadsHeaders(s, t)
  BY <1>s, <1>t, <1>2 DEF ReadsSocks, Fills, ReadsLine, ReadsHeaders
<1>3. CASE Opens(s, t) \/ Replies(s, t) \/ Starts(s, t) \/ Attaches(s, t)
  BY <1>s, <1>t, <1>3 DEF Opens, Replies, Starts, Attaches
<1>4. CASE Requests(k, s, t)
  BY <1>s, <1>t, <1>4 DEF Requests
<1>5. CASE ReadsRequest(k, s, t)
  BY <1>s, <1>t, <1>5 DEF ReadsRequest
<1>6. ASSUME NEW d \in Dir, Takes(s, t, d) PROVE Progress(t)
  BY <1>s, <1>t, <1>6 DEF Takes
<1>7. ASSUME NEW d \in Dir, TakesEnd(s, t, d) \/ GivesEnd(s, t, d) PROVE Progress(t)
  BY <1>s, <1>t, <1>7 DEF TakesEnd, GivesEnd
<1>8. ASSUME NEW d \in Dir, Gives(s, t, d) PROVE Progress(t)
  BY <1>s, <1>t, <1>8 DEF Gives, BytesInOrder, BytesOf
<1>9. ASSUME NEW d \in Dir, Returns(s, t, d), s.task.b # "none" \/ d = "f"
      PROVE  Progress(t)
  BY <1>s, <1>t, <1>9 DEF Returns
<1>10. CASE PeersStep(k, s, t)
  <2>1. SameStream(s, t) /\ t.task = s.task
    BY <1>10 DEF PeersStep, Speaks, Sends, Closes, Aborts
  <2> QED BY <2>1
<1>11. CASE Loses(s, t)
  BY <1>s, <1>t, <1>11 DEF Loses, Both
<1>12. ASSUME NEW d \in Dir, Finishes(s, t, d)
       PROVE  Returns(s, t, d) /\ (s.task.b # "none" \/ d = "f")
  BY <1>s, <1>12 DEF Finishes
<1> QED
  BY <1>1, <1>2, <1>3, <1>4, <1>5, <1>6, <1>7, <1>8, <1>9, <1>10, <1>11, <1>12
     DEF PlainStep, TaskStep, CopyingStep, LossStep, Fails

LEMMA EndsKept ==
  ASSUME NEW k \in DOMAIN Script, NEW s \in Session, NEW t \in Session,
         Progress(s), EndsInOrder(s), PlainStep(k, s, t)
  PROVE  EndsInOrder(t)
<1> USE DEF SameAll, SameApp, SameInput, SameReply, SameStream, SameEnds, TasksAt, Dir, Opp,
            EndsInOrder, WriterGone, ReaderGone
<1>s. /\ s.task.f \in DialerTask /\ s.task.b \in ListenerTask
      /\ s.chan \in [Dir -> Seq(Item)] /\ s.shut \in [Dir -> BOOLEAN]
      /\ s.told \in [Dir -> BOOLEAN] /\ s.cut \in BOOLEAN /\ s.failed \in BOOLEAN
  BY Fields DEF DialerTask, ListenerTask
<1>t. /\ t.task.f \in DialerTask /\ t.task.b \in ListenerTask
      /\ t.chan \in [Dir -> Seq(Item)] /\ t.shut \in [Dir -> BOOLEAN]
      /\ t.told \in [Dir -> BOOLEAN] /\ t.cut \in BOOLEAN /\ t.failed \in BOOLEAN
  BY Fields DEF DialerTask, ListenerTask
<1>1. CASE Advances(k, s, t)
  BY <1>s, <1>t, <1>1 DEF Advances
<1>2. CASE ReadsSocks(s, t) \/ Fills(s, t) \/ ReadsLine(s, t) \/ ReadsHeaders(s, t)
  BY <1>s, <1>t, <1>2 DEF ReadsSocks, Fills, ReadsLine, ReadsHeaders
<1>3. CASE Opens(s, t) \/ Replies(s, t) \/ Starts(s, t) \/ Attaches(s, t)
  <2>1. CASE Opens(s, t) \/ Replies(s, t)
    BY <1>s, <1>t, <2>1 DEF Opens, Replies, Progress, Early
  <2>2. CASE Starts(s, t) \/ Attaches(s, t)
    BY <1>s, <1>t, <2>2 DEF Starts, Attaches
  <2> QED BY <1>3, <2>1, <2>2
<1>4. CASE Requests(k, s, t)
  BY <1>s, <1>t, <1>4 DEF Requests, Progress, Early
<1>5. CASE ReadsRequest(k, s, t)
  BY <1>s, <1>t, <1>5 DEF ReadsRequest
<1>6. ASSUME NEW d \in Dir, Takes(s, t, d) PROVE EndsInOrder(t)
  BY <1>s, <1>t, <1>6 DEF Takes
<1>7. ASSUME NEW d \in Dir, TakesEnd(s, t, d) \/ GivesEnd(s, t, d) PROVE EndsInOrder(t)
  BY <1>s, <1>t, <1>7 DEF TakesEnd, GivesEnd
<1>8. ASSUME NEW d \in Dir, Gives(s, t, d) PROVE EndsInOrder(t)
  BY <1>s, <1>t, <1>8 DEF Gives
<1>9. ASSUME NEW d \in Dir, Finishes(s, t, d) \/ Fails(s, t, d) PROVE EndsInOrder(t)
  BY <1>s, <1>t, <1>9 DEF Finishes, Fails, Returns
<1>10. CASE PeersStep(k, s, t)
  BY <1>s, <1>t, <1>10 DEF PeersStep, Speaks, Sends, Closes, Aborts
<1>11. CASE Loses(s, t)
  BY <1>s, <1>t, <1>11 DEF Loses, Both
<1> QED
  BY <1>1, <1>2, <1>3, <1>4, <1>5, <1>6, <1>7, <1>8, <1>9, <1>10, <1>11
     DEF PlainStep, TaskStep, CopyingStep, LossStep

-----------------------------------------------------------------------------
(* The bytes of the stream.                                                *)

\* Append, Head and Tail, spelled out for the provers.
LEMMA AppendFacts ==
  ASSUME NEW S, NEW q \in Seq(S), NEW x \in S
  PROVE  /\ Append(q, x) \in Seq(S) /\ Len(Append(q, x)) = Len(q) + 1 /\ Len(q) \in Nat
         /\ \A i \in 1..Len(q) : Append(q, x)[i] = q[i]
         /\ Append(q, x)[Len(q) + 1] = x
OBVIOUS

LEMMA TailFacts ==
  ASSUME NEW S, NEW q \in Seq(S), q # << >>
  PROVE  /\ Head(q) \in S /\ Head(q) = q[1] /\ 1 \in 1..Len(q)
         /\ Tail(q) \in Seq(S) /\ Len(Tail(q)) = Len(q) - 1 /\ Len(q) \in Nat
         /\ \A i \in 1..Len(Tail(q)) : Tail(q)[i] = q[i + 1] /\ i + 1 \in 1..Len(q)
OBVIOUS

\* Of a direction whose reader is there: q is in the stream, after h items of
\* the request; g was given; n bytes were taken, after j that were dropped.
InTransit(q, g, n, h, j) ==
  /\ Len(q) + Len(g) = h + n /\ Len(g) <= n
  /\ \A i \in 1..Len(g) : g[i] = j + i
  /\ \A i \in 1..Len(q) : i > h => q[i].n = j + Len(g) + (i - h)

\* The next byte is written.
LEMMA ByteWritten ==
  ASSUME NEW q \in Seq(Item), NEW g \in Seq(Nat), NEW n \in Nat, NEW h \in Nat, NEW j \in Nat,
         NEW x \in Item, x.n = j + n + 1, InTransit(q, g, n, h, j)
  PROVE  InTransit(Append(q, x), g, n + 1, h, j)
<1> DEFINE p == Append(q, x)
<1>1. /\ Len(p) = Len(q) + 1 /\ Len(q) \in Nat /\ p[Len(q) + 1] = x
      /\ \A i \in 1..Len(q) : p[i] = q[i]
  BY AppendFacts
<1>2. Len(g) \in Nat
  OBVIOUS
<1> HIDE DEF p
<1>0. Len(q) + Len(g) = h + n /\ Len(g) <= n
  BY Zenon DEF InTransit
<1>3. Len(p) + Len(g) = h + (n + 1) /\ Len(g) <= n + 1
  BY <1>0, <1>1, <1>2
<1>4. ASSUME NEW i \in 1..Len(p), i > h PROVE p[i].n = j + Len(g) + (i - h)
  <2>1. CASE i \in 1..Len(q)
    BY <1>1, <1>4, <2>1 DEF InTransit
  <2>2. CASE i = Len(q) + 1
    <3>1. p[i].n = j + n + 1
      BY <1>1, <2>2
    <3>2. j + n + 1 = j + Len(g) + (i - h)
      BY <1>0, <1>2, <2>2
    <3> QED BY <3>1, <3>2
  <2> QED BY <1>1, <2>1, <2>2
<1>5. \A i \in 1..Len(g) : g[i] = j + i
  BY DEF InTransit
<1> QED BY <1>3, <1>4, <1>5 DEF InTransit, p

\* The request is written before any byte.
LEMMA RequestWritten ==
  ASSUME NEW q \in Seq(Item), NEW g \in Seq(Nat), NEW n \in Nat, NEW j \in Nat,
         NEW x \in Item, q = << >>, InTransit(q, g, n, 0, j)
  PROVE  InTransit(Append(q, x), g, n, 1, j)
<1> DEFINE p == Append(q, x)
<1>1. Len(p) = 1 /\ Len(q) = 0 /\ Len(g) \in Nat
  OBVIOUS
<1> HIDE DEF p
<1> QED BY <1>1 DEF InTransit, p

\* The request is read, and leaves the bytes behind it.
LEMMA RequestRead ==
  ASSUME NEW q \in Seq(Item), NEW g \in Seq(Nat), NEW n \in Nat, NEW j \in Nat,
         q # << >>, InTransit(q, g, n, 1, j)
  PROVE  InTransit(Tail(q), g, n, 0, j)
<1> DEFINE p == Tail(q)
<1>1. /\ Len(p) = Len(q) - 1 /\ Len(q) \in Nat
      /\ \A i \in 1..Len(p) : p[i] = q[i + 1] /\ i + 1 \in 1..Len(q)
  BY TailFacts
<1>2. Len(g) \in Nat
  OBVIOUS
<1> HIDE DEF p
<1>3. ASSUME NEW i \in 1..Len(p) PROVE p[i].n = j + Len(g) + (i - 0)
  <2>1. q[i + 1].n = j + Len(g) + ((i + 1) - 1)
    BY <1>1 DEF InTransit
  <2> QED BY <1>1, <2>1
<1>4. Len(p) + Len(g) = 0 + n /\ Len(g) <= n /\ \A i \in 1..Len(g) : g[i] = j + i
  BY <1>1, <1>2 DEF InTransit
<1> QED BY <1>3, <1>4 DEF InTransit, p

\* The first byte of the stream is given.
LEMMA ByteGiven ==
  ASSUME NEW q \in Seq(Item), NEW g \in Seq(Nat), NEW n \in Nat, NEW j \in Nat,
         q # << >>, InTransit(q, g, n, 0, j)
  PROVE  InTransit(Tail(q), Append(g, Head(q).n), n, 0, j)
<1> DEFINE p == Tail(q)
           r == Append(g, Head(q).n)
<1>1. /\ Len(p) = Len(q) - 1 /\ Len(q) \in Nat /\ 1 \in 1..Len(q)
      /\ Head(q) \in Item /\ Head(q) = q[1]
      /\ \A i \in 1..Len(p) : p[i] = q[i + 1] /\ i + 1 \in 1..Len(q)
  BY TailFacts
<1>2. Head(q).n \in Nat
  BY <1>1 DEF Item
<1>3. /\ Len(r) = Len(g) + 1 /\ Len(g) \in Nat /\ r[Len(g) + 1] = Head(q).n
      /\ \A i \in 1..Len(g) : r[i] = g[i]
  BY <1>2, AppendFacts
<1> HIDE DEF p, r
<1>4. Head(q).n = j + Len(g) + 1
  BY <1>1, <1>3 DEF InTransit
<1>5. ASSUME NEW i \in 1..Len(p) PROVE p[i].n = j + Len(r) + (i - 0)
  <2>1. q[i + 1].n = j + Len(g) + ((i + 1) - 0)
    BY <1>1 DEF InTransit
  <2> QED BY <1>1, <1>3, <2>1
<1>6. ASSUME NEW i \in 1..Len(r) PROVE r[i] = j + i
  <2>1. CASE i \in 1..Len(g)
    BY <1>3, <2>1 DEF InTransit
  <2>2. CASE i = Len(g) + 1
    BY <1>3, <1>4, <2>2
  <2> QED BY <1>3, <2>1, <2>2
<1>0. Len(q) + Len(g) = 0 + n
  BY Zenon DEF InTransit
<1>7. /\ Len(p) = Len(q) - 1 /\ Len(r) = Len(g) + 1 /\ 1 \in 1..Len(q)
      /\ Len(q) \in Nat /\ Len(g) \in Nat
  BY <1>1, <1>3
<1>8. Len(p) + Len(r) = 0 + n /\ Len(r) <= n
  BY <1>0, <1>7
<1> QED BY <1>5, <1>6, <1>8 DEF InTransit, p, r

\* Types of what BytesOf speaks of.
LEMMA StreamTypes ==
  ASSUME NEW s \in Session, NEW d \in Dir
  PROVE  /\ s.chan[d] \in Seq(Item) /\ Len(s.chan[d]) \in Nat
         /\ s.got[d] \in Seq(Nat) /\ Len(s.got[d]) \in Nat
         /\ s.sent[d] \in Nat /\ Skipped(s, d) \in Nat /\ Header(s, d) \in {0, 1}
BY Fields DEF Skipped, Header

Transit(s, d) == InTransit(s.chan[d], s.got[d], s.sent[d], Header(s, d), Skipped(s, d))

LEMMA BytesAreInTransit ==
  ASSUME NEW s, NEW d
  PROVE  /\ BytesOf(s, d) /\ ~ReaderGone(s, d) => Transit(s, d)
         /\ Transit(s, d) /\ ~ReaderGone(s, d) => BytesOf(s, d)
BY Zenon DEF BytesOf, InTransit, Transit

\* The reader of d is gone, or goes.
LEMMA BytesDropped ==
  ASSUME NEW s \in Session, NEW t \in Session, NEW d \in Dir, BytesOf(s, d),
         t.chan[d] = << >>, ReaderGone(t, d), t.got[d] = s.got[d],
         t.sent[d] = s.sent[d] \/ t.sent[d] = s.sent[d] + 1,
         Skipped(t, d) = Skipped(s, d)
  PROVE  BytesOf(t, d)
<1>1. Len(t.chan[d]) = 0
  OBVIOUS
<1>2. Len(t.got[d]) <= t.sent[d] /\ \A i \in 1..Len(t.got[d]) : t.got[d][i] = Skipped(t, d) + i
  BY StreamTypes DEF BytesOf
<1>3. \A i \in 1..Len(t.chan[d]) :
        i > Header(t, d) => t.chan[d][i].n = Skipped(t, d) + Len(t.got[d]) + (i - Header(t, d))
  BY <1>1
<1> QED BY <1>2, <1>3, Zenon DEF BytesOf

-----------------------------------------------------------------------------
(* What waits on the side of the peers.                                    *)

LEMMA InputTypes ==
  ASSUME NEW k \in DOMAIN Script, NEW s \in Session, NEW d \in Dir
  PROVE  /\ s.sock[d] \in Seq(Item) /\ s.ahead \in Seq(Item) /\ Len(s.sock[d]) \in Nat
         /\ s.sent[d] \in Nat /\ Skipped(s, d) \in Nat /\ Held(s, d) \in Nat
         /\ s.said[d] \in Nat /\ s.spoke \in Nat /\ Len(Script[k]) \in Nat
         /\ Read(k, s) \in Nat /\ Lead(k, s, d) \in Nat
<1>1. Len(Script[k]) \in Nat
  BY DEF Script
<1>2. Read(k, s) \in Nat
  BY <1>1 DEF Read
<1>3. s.spoke \in Nat /\ s.lost \in Nat /\ s.ahead \in Seq(Item)
  BY Fields
<1> QED BY <1>1, <1>2, <1>3, Fields DEF Skipped, Held, Lead

\* The request lies before the first byte, which is the next to be taken.
LEMMA NextIsNext ==
  ASSUME NEW k \in DOMAIN Script, NEW s \in Session, NEW d \in Dir,
         InputOf(k, s, d), Handshake(k, s), Progress(s), s.task[d] = "copying",
         s.sock[d] # << >>, Head(s.sock[d]).t = "byte"
  PROVE  /\ Head(s.sock[d]) \in Item
         /\ Head(s.sock[d]).n = Skipped(s, d) + s.sent[d] + 1
         /\ Head(s.sock[d]).n <= s.said[d]
         /\ Lead(k, s, d) = 0 /\ Held(s, d) = 0
<1>1. Held(s, d) = 0
  BY DEF Held, Handshake, Dir
<1>2. Lead(k, s, d) = 0
  <2>1. s.spoke <= Len(Script[k])
    BY DEF Handshake
  <2>2. d = "f" => Read(k, s) = Len(Script[k])
    BY DEF Read
  <2> QED BY <2>1, <2>2, InputTypes DEF Lead
<1>3. Head(s.sock[d]) \in Item /\ Head(s.sock[d]) = s.sock[d][1] /\ 1 \in 1..Len(s.sock[d])
  BY InputTypes, TailFacts
<1>4. Waiting(k, s, d, s.sock[d][1], Held(s, d) + 1)
  BY <1>3 DEF InputOf
<1> HIDE DEF Waiting
<1>5. Head(s.sock[d]).n = Skipped(s, d) + s.sent[d] + (1 - 0) /\ Head(s.sock[d]).n <= s.said[d]
  BY <1>1, <1>2, <1>3, <1>4 DEF Waiting
<1> QED BY <1>1, <1>2, <1>3, <1>5, InputTypes

\* Nothing moves in direction d.
LEMMA BytesStay ==
  ASSUME NEW s \in Session, NEW t \in Session, NEW d \in Dir, BytesOf(s, d),
         t.chan[d] = s.chan[d], t.got[d] = s.got[d], t.sent[d] = s.sent[d],
         Header(t, d) = Header(s, d), ReaderGone(t, d) <=> ReaderGone(s, d),
         Skipped(t, d) = Skipped(s, d) \/ (s.chan[d] = << >> /\ s.got[d] = << >>)
  PROVE  BytesOf(t, d)
<1>1. CASE Skipped(t, d) = Skipped(s, d)
  BY <1>1, Zenon DEF BytesOf
<1>2. CASE s.chan[d] = << >> /\ s.got[d] = << >>
  <2>1. /\ \A i \in 1..Len(t.got[d]) : t.got[d][i] = Skipped(t, d) + i
        /\ \A i \in 1..Len(t.chan[d]) :
             i > Header(t, d) =>
               t.chan[d][i].n = Skipped(t, d) + Len(t.got[d]) + (i - Header(t, d))
    BY <1>2
  <2> QED BY <2>1, Zenon DEF BytesOf
<1> QED BY <1>1, <1>2

\* A byte is taken, the request is written: from BytesOf(s, d) to BytesOf(t, d).
LEMMA BytesTaken ==
  ASSUME NEW s \in Session, NEW t \in Session, NEW d \in Dir, BytesOf(s, d), NEW x \in Item,
         t.chan[d] = (IF ReaderGone(s, d) THEN s.chan[d] ELSE Append(s.chan[d], x)),
         ReaderGone(t, d) <=> ReaderGone(s, d), t.got[d] = s.got[d],
         Skipped(t, d) = Skipped(s, d),
         t.sent[d] = s.sent[d] + 1, Header(t, d) = Header(s, d),
         x.n = Skipped(s, d) + s.sent[d] + 1
  PROVE  BytesOf(t, d)
<1>s. /\ s.chan[d] \in Seq(Item) /\ s.got[d] \in Seq(Nat) /\ s.sent[d] \in Nat
      /\ Skipped(s, d) \in Nat /\ Header(s, d) \in Nat
  BY StreamTypes
<1>1. CASE ReaderGone(s, d)
  <2>1. t.chan[d] = << >>
    BY <1>1, Zenon DEF BytesOf
  <2> QED BY <1>1, <2>1, BytesDropped
<1>2. CASE ~ReaderGone(s, d)
  <2>1. Transit(s, d)
    BY <1>2, BytesAreInTransit
  <2>2. InTransit(Append(s.chan[d], x), s.got[d], s.sent[d] + 1, Header(s, d), Skipped(s, d))
    BY <1>s, <2>1, ByteWritten DEF Transit
  <2>3. Transit(t, d)
    BY <1>2, <2>2, Zenon DEF Transit
  <2> QED BY <1>2, <2>3, BytesAreInTransit
<1> QED BY <1>1, <1>2

LEMMA BytesRequested ==
  ASSUME NEW s \in Session, NEW t \in Session, NEW d \in Dir, BytesOf(s, d), NEW x \in Item,
         t.chan[d] = (IF ReaderGone(s, d) THEN s.chan[d] ELSE Append(s.chan[d], x)),
         ReaderGone(t, d) <=> ReaderGone(s, d), t.got[d] = s.got[d],
         Skipped(t, d) = Skipped(s, d), t.sent[d] = s.sent[d],
         s.chan[d] = << >>, Header(s, d) = 0, ReaderGone(s, d) \/ Header(t, d) = 1
  PROVE  BytesOf(t, d)
<1>s. /\ s.chan[d] \in Seq(Item) /\ s.got[d] \in Seq(Nat) /\ s.sent[d] \in Nat
      /\ Skipped(s, d) \in Nat
  BY StreamTypes
<1>1. CASE ReaderGone(s, d)
  BY <1>1, BytesDropped
<1>2. CASE ~ReaderGone(s, d)
  <2>1. InTransit(s.chan[d], s.got[d], s.sent[d], 0, Skipped(s, d))
    BY <1>2, BytesAreInTransit DEF Transit
  <2>2. InTransit(Append(s.chan[d], x), s.got[d], s.sent[d], 1, Skipped(s, d))
    BY <1>s, <2>1, RequestWritten
  <2>3. Transit(t, d)
    BY <1>2, <2>2, Zenon DEF Transit
  <2> QED BY <1>2, <2>3, BytesAreInTransit
<1> QED BY <1>1, <1>2

\* The request is read; a byte is given.
LEMMA BytesRead ==
  ASSUME NEW s \in Session, NEW t \in Session, NEW d \in Dir, BytesOf(s, d),
         s.chan[d] # << >>, t.chan[d] = Tail(s.chan[d]), t.sent[d] = s.sent[d],
         ReaderGone(t, d) <=> ReaderGone(s, d), Skipped(t, d) = Skipped(s, d),
         Header(t, d) = 0,
         \/ Header(s, d) = 1 /\ t.got[d] = s.got[d]
         \/ Header(s, d) = 0 /\ t.got[d] = Append(s.got[d], Head(s.chan[d]).n)
  PROVE  BytesOf(t, d)
<1>s. /\ s.chan[d] \in Seq(Item) /\ s.got[d] \in Seq(Nat) /\ s.sent[d] \in Nat
      /\ Skipped(s, d) \in Nat
  BY StreamTypes
<1>1. ~ReaderGone(s, d)
  BY Zenon DEF BytesOf
<1>2. Transit(s, d)
  BY <1>1, BytesAreInTransit
<1>3. Transit(t, d)
  <2>1. CASE Header(s, d) = 1 /\ t.got[d] = s.got[d]
    BY <1>s, <1>2, <2>1, RequestRead DEF Transit
  <2>2. CASE Header(s, d) = 0 /\ t.got[d] = Append(s.got[d], Head(s.chan[d]).n)
    BY <1>s, <1>2, <2>2, ByteGiven DEF Transit
  <2> QED BY <2>1, <2>2
<1> QED BY <1>1, <1>3, BytesAreInTransit

\* Which step does what to direction e.
LEMMA BytesKept ==
  ASSUME NEW k \in DOMAIN Script, NEW s \in Session, NEW t \in Session,
         SessionInv(k, s), PlainStep(k, s, t)
  PROVE  BytesInOrder(t)
<1> SUFFICES ASSUME NEW e \in Dir PROVE BytesOf(t, e)
  BY DEF BytesInOrder
<1> USE DEF SameAll, SameApp, SameInput, SameReply, SameStream, SameEnds, TasksAt, Dir, Opp
<1>s. /\ s.task.f \in DialerTask /\ s.task.b \in ListenerTask /\ BytesOf(s, e)
      /\ s.phase \in {"setup", "requested", "attached"}
      /\ s.chan \in [Dir -> Seq(Item)] /\ s.sent \in [Dir -> Nat] /\ s.got \in [Dir -> Seq(Nat)]
  BY Fields DEF SessionInv, BytesInOrder
<1>p. Progress(s)
  BY DEF SessionInv
<1>1. CASE Advances(k, s, t) \/ Opens(s, t) \/ Starts(s, t) \/ Replies(s, t)
  <2>1. /\ t.chan[e] = s.chan[e] /\ t.got[e] = s.got[e] /\ t.sent[e] = s.sent[e]
        /\ Skipped(t, e) = Skipped(s, e)
        /\ Header(t, e) = Header(s, e) /\ (ReaderGone(t, e) <=> ReaderGone(s, e))
    BY <1>p, <1>1 DEF Skipped, Advances, Opens, Starts, Replies, Header, ReaderGone, Progress, Early
  <2> QED BY <1>s, <2>1, BytesStay, Zenon
<1>2. CASE ReadsSocks(s, t) \/ Fills(s, t) \/ ReadsLine(s, t) \/ Attaches(s, t)
  <2>1. /\ t.chan[e] = s.chan[e] /\ t.got[e] = s.got[e] /\ t.sent[e] = s.sent[e]
        /\ Skipped(t, e) = Skipped(s, e)
        /\ Header(t, e) = Header(s, e) /\ (ReaderGone(t, e) <=> ReaderGone(s, e))
    BY <1>2 DEF Skipped, ReadsSocks, Fills, ReadsLine, Attaches, Header, ReaderGone
  <2> QED BY <1>s, <2>1, BytesStay, Zenon
<1>3. CASE ReadsHeaders(s, t)
  <2>1. /\ t.chan[e] = s.chan[e] /\ t.got[e] = s.got[e] /\ t.sent[e] = s.sent[e]
        /\ Header(t, e) = Header(s, e) /\ (ReaderGone(t, e) <=> ReaderGone(s, e))
    BY <1>3 DEF Skipped, ReadsHeaders, Header, ReaderGone
  <2>2. s.chan[e] = << >> /\ s.sent[e] = 0
    BY <1>p, <1>3 DEF ReadsHeaders, Progress, Early
  <2>3. s.got[e] = << >>
    BY <1>s, <2>2 DEF BytesOf
  <2> QED BY <1>s, <2>1, <2>2, <2>3, BytesStay, Zenon
<1>4. ASSUME NEW d \in Dir, TakesEnd(s, t, d) \/ GivesEnd(s, t, d) PROVE BytesOf(t, e)
  <2>1. /\ t.chan[e] = s.chan[e] /\ t.got[e] = s.got[e] /\ t.sent[e] = s.sent[e]
        /\ Skipped(t, e) = Skipped(s, e)
        /\ Header(t, e) = Header(s, e) /\ (ReaderGone(t, e) <=> ReaderGone(s, e))
    BY <1>4 DEF Skipped, TakesEnd, GivesEnd, Header, ReaderGone
  <2> QED BY <1>s, <2>1, BytesStay, Zenon
<1>5. CASE PeersStep(k, s, t)
  <2>1. /\ t.chan[e] = s.chan[e] /\ t.got[e] = s.got[e] /\ t.sent[e] = s.sent[e]
        /\ Skipped(t, e) = Skipped(s, e)
        /\ Header(t, e) = Header(s, e) /\ (ReaderGone(t, e) <=> ReaderGone(s, e))
    BY <1>5 DEF Skipped, PeersStep, Speaks, Sends, Closes, Aborts, Header, ReaderGone
  <2> QED BY <1>s, <2>1, BytesStay, Zenon
<1>6. CASE Requests(k, s, t)
  <2>1. /\ t.got[e] = s.got[e] /\ t.sent[e] = s.sent[e] /\ Skipped(t, e) = Skipped(s, e)
        /\ (ReaderGone(t, e) <=> ReaderGone(s, e)) /\ Header(s, e) = 0
    BY <1>p, <1>6 DEF Skipped, Requests, ReaderGone, Header, Progress, Early
  <2>2. CASE e = "f"
    <3>0. s.task.b \in {"queued", "reading"} \/ ReaderGone(s, e)
      BY <1>s, <1>p, <1>6, <2>2 DEF Requests, Progress, ListenerTask, ReaderGone, Early
    <3>1. ReaderGone(s, e) \/ Header(t, e) = 1
      BY <1>6, <2>2, <3>0 DEF Requests, Header
    <3>2. t.chan[e] = (IF ReaderGone(s, e) THEN s.chan[e]
                       ELSE Append(s.chan[e], Mark("request")))
      BY <1>s, <1>6, <2>2 DEF Requests
    <3>3. Mark("request") \in Item /\ s.chan[e] = << >>
      BY <1>p, <1>6 DEF Mark, Item, Requests, Progress
    <3> QED BY <1>s, <2>1, <3>1, <3>2, <3>3, BytesRequested, Zenon
  <2>3. CASE e = "b"
    <3>1. t.chan[e] = s.chan[e] /\ Header(t, e) = Header(s, e)
      BY <1>s, <1>6, <2>3 DEF Requests, Header
    <3> QED BY <1>s, <2>1, <3>1, BytesStay, Zenon
  <2> QED BY <2>2, <2>3
<1>7. CASE ReadsRequest(k, s, t)
  <2>1. /\ t.got[e] = s.got[e] /\ t.sent[e] = s.sent[e] /\ Skipped(t, e) = Skipped(s, e)
        /\ (ReaderGone(t, e) <=> ReaderGone(s, e)) /\ Header(t, e) = 0
    BY <1>7 DEF Skipped, ReadsRequest, ReaderGone, Header
  <2>2. CASE e = "f"
    <3>1. s.chan[e] # << >> /\ t.chan[e] = Tail(s.chan[e]) /\ s.task.b = "reading"
      BY <1>s, <1>7, <2>2 DEF ReadsRequest
    <3>2. s.phase # "setup" /\ s.phase # "attached"
      BY <1>p, <2>2, <3>1 DEF Progress
    <3>3. Header(s, e) = 1
      BY <1>s, <2>2, <3>1, <3>2 DEF Header
    <3>4. BytesOf(s, e) /\ Header(t, e) = 0 /\ (ReaderGone(t, e) <=> ReaderGone(s, e))
      BY <1>s, <2>1
    <3>5. t.got[e] = s.got[e] /\ t.sent[e] = s.sent[e] /\ Skipped(t, e) = Skipped(s, e)
      BY <2>1
    <3> QED BY <3>1, <3>3, <3>4, <3>5, BytesRead
  <2>3. CASE e = "b"
    <3>1. t.chan[e] = s.chan[e] /\ Header(t, e) = Header(s, e)
      BY <1>s, <1>7, <2>3 DEF ReadsRequest, Header
    <3> QED BY <1>s, <2>1, <3>1, BytesStay, Zenon
  <2> QED BY <2>2, <2>3
<1>8. ASSUME NEW d \in Dir, Takes(s, t, d) PROVE BytesOf(t, e)
  <2>1. /\ t.got[e] = s.got[e] /\ Skipped(t, e) = Skipped(s, e)
        /\ (ReaderGone(t, e) <=> ReaderGone(s, e)) /\ Header(t, e) = Header(s, e)
    BY <1>8 DEF Skipped, Takes, ReaderGone, Header
  <2>2. CASE e = d
    <3>1. /\ t.chan[e] = (IF ReaderGone(s, e) THEN s.chan[e]
                          ELSE Append(s.chan[e], Head(s.sock[e])))
          /\ t.sent[e] = s.sent[e] + 1
      BY <1>s, <1>8, <2>2 DEF Takes
    <3>2. Head(s.sock[e]) \in Item /\ Head(s.sock[e]).n = Skipped(s, e) + s.sent[e] + 1
      BY <1>8, <2>2, NextIsNext DEF Takes, SessionInv, InputInOrder
    <3> QED BY <1>s, <2>1, <3>1, <3>2, BytesTaken, Zenon
  <2>3. CASE e # d
    <3>1. t.chan[e] = s.chan[e] /\ t.sent[e] = s.sent[e]
      BY <1>s, <1>8, <2>3 DEF Takes
    <3> QED BY <1>s, <2>1, <3>1, BytesStay, Zenon
  <2> QED BY <2>2, <2>3
<1>9. ASSUME NEW d \in Dir, Gives(s, t, d) PROVE BytesOf(t, e)
  <2>1. /\ t.sent[e] = s.sent[e] /\ Skipped(t, e) = Skipped(s, e)
        /\ (ReaderGone(t, e) <=> ReaderGone(s, e)) /\ Header(t, e) = Header(s, e)
    BY <1>9 DEF Skipped, Gives, ReaderGone, Header
  <2>2. CASE e = d
    <3>1. /\ s.chan[e] # << >> /\ t.chan[e] = Tail(s.chan[e])
          /\ t.got[e] = Append(s.got[e], Head(s.chan[e]).n)
      BY <1>s, <1>9, <2>2 DEF Gives
    <3>2. Header(s, e) = 0 /\ Header(t, e) = 0
      BY <1>9, <2>2 DEF Gives, Header
    <3> HIDE DEF Dir
    <3> QED BY <1>s, <2>1, <3>1, <3>2, BytesRead
  <2>3. CASE e # d
    <3>1. t.chan[e] = s.chan[e] /\ t.got[e] = s.got[e]
      BY <1>s, <1>9, <2>3 DEF Gives
    <3> QED BY <1>s, <2>1, <3>1, BytesStay, Zenon
  <2> QED BY <2>2, <2>3
<1>10. ASSUME NEW d \in Dir, Returns(s, t, d) PROVE BytesOf(t, e)
  <2>1. t.got[e] = s.got[e] /\ t.sent[e] = s.sent[e] /\ Skipped(t, e) = Skipped(s, e)
    BY <1>10 DEF Skipped, Returns
  <2>2. CASE e = Opp(d)
    <3>1. t.chan[e] = << >> /\ ReaderGone(t, e)
      BY <1>s, <1>10, <2>2 DEF Returns, ReaderGone
    <3> QED BY <1>s, <2>1, <3>1, BytesDropped, ZenonT(30)
  <2>3. CASE e # Opp(d)
    <3>1. /\ t.chan[e] = s.chan[e] /\ (ReaderGone(t, e) <=> ReaderGone(s, e))
          /\ Header(t, e) = Header(s, e)
      BY <1>s, <1>10, <2>3 DEF Returns, ReaderGone, Header
    <3> QED BY <1>s, <2>1, <3>1, BytesStay, Zenon
  <2> QED BY <2>2, <2>3
<1>11. CASE Loses(s, t)
  <2>1. /\ t.got[e] = s.got[e] /\ t.sent[e] = s.sent[e] /\ Skipped(t, e) = Skipped(s, e)
        /\ t.chan[e] = << >> /\ ReaderGone(t, e)
    BY <1>11 DEF Skipped, Loses, Both, ReaderGone
  <2> QED BY <1>s, <2>1, BytesDropped, Zenon
<1> QED
  BY <1>1, <1>2, <1>3, <1>4, <1>5, <1>6, <1>7, <1>8, <1>9, <1>10, <1>11
     DEF PlainStep, TaskStep, CopyingStep, LossStep, Finishes, Fails

\* The items waiting are those of the BufReader, then those of the socket.
Total(s, d) == Held(s, d) + Len(s.sock[d])
Base(s, d) == Skipped(s, d) + s.sent[d]
At(s, d, i) == IF i <= Held(s, d) THEN s.ahead[i] ELSE s.sock[d][i - Held(s, d)]

AllWaiting(k, s, d) == \A i \in 1..Total(s, d) : Waiting(k, s, d, At(s, d, i), i)
NoEndAhead(s, d) == d = "f" => \A i \in 1..Len(s.ahead) : s.ahead[i].t # "eof"
Complete(k, s, d) ==
  s.peer[d] = "open" => Total(s, d) + Base(s, d) = Lead(k, s, d) + s.said[d]

LEMMA InputSizes ==
  ASSUME NEW k \in DOMAIN Script, NEW s \in Session, NEW d \in Dir
  PROVE  /\ Total(s, d) \in Nat /\ Base(s, d) \in Nat /\ Lead(k, s, d) \in Nat
         /\ Read(k, s) \in Nat /\ s.said[d] \in Nat
<1> DEFINE h == Held(s, d)
           n == Len(s.sock[d])
           j == Skipped(s, d)
           m == s.sent[d]
<1>1. h \in Nat /\ n \in Nat /\ j \in Nat /\ m \in Nat
  BY InputTypes
<1> HIDE DEF h, n, j, m
<1>2. h + n \in Nat /\ j + m \in Nat
  BY <1>1
<1>3. Total(s, d) \in Nat /\ Base(s, d) \in Nat
  BY <1>2, Zenon DEF Total, Base, h, n, j, m
<1> QED BY <1>3, InputTypes, Zenon

LEMMA InputAsOne ==
  ASSUME NEW k \in DOMAIN Script, NEW s \in Session, NEW d \in Dir
  PROVE  InputOf(k, s, d) <=>
           /\ Base(s, d) <= s.said[d]
           /\ s.task[d] # "over" =>
                NoEndAhead(s, d) /\ AllWaiting(k, s, d) /\ Complete(k, s, d)
<1> DEFINE h == Held(s, d)
           n == Len(s.sock[d])
           InAhead == \A i \in 1..h : Waiting(k, s, d, s.ahead[i], i)
           InSock == \A i \in 1..n : Waiting(k, s, d, s.sock[d][i], h + i)
<1>s. h \in Nat /\ n \in Nat
  BY InputTypes
<1>h. h = IF d = "f" THEN Len(s.ahead) ELSE 0
  BY DEF Held
<1>1. ASSUME InAhead, InSock PROVE AllWaiting(k, s, d)
  <2>1. ASSUME NEW i \in 1..Total(s, d) PROVE Waiting(k, s, d, At(s, d, i), i)
    <3>1. CASE i <= h
      <4>1. i \in 1..h
        BY <1>s, <3>1
      <4> QED BY <1>1, <3>1, <4>1, Zenon DEF At
    <3>2. CASE ~(i <= h)
      <4>1. i - h \in 1..n /\ h + (i - h) = i
        BY <1>s, <3>2 DEF Total
      <4>2. Waiting(k, s, d, s.sock[d][i - h], h + (i - h))
        BY <1>1, <4>1, Zenon
      <4> QED BY <3>2, <4>1, <4>2, Zenon DEF At
    <3> QED BY <3>1, <3>2
  <2> QED BY <2>1 DEF AllWaiting
<1>2. ASSUME AllWaiting(k, s, d) PROVE InAhead /\ InSock
  <2>1. ASSUME NEW i \in 1..h PROVE Waiting(k, s, d, s.ahead[i], i)
    <3>1. i \in 1..Total(s, d) /\ i <= h
      BY <1>s DEF Total
    <3> QED BY <1>2, <3>1, Zenon DEF AllWaiting, At
  <2>2. ASSUME NEW i \in 1..n PROVE Waiting(k, s, d, s.sock[d][i], h + i)
    <3>1. h + i \in 1..Total(s, d) /\ ~(h + i <= h) /\ (h + i) - h = i
      BY <1>s DEF Total
    <3>2. At(s, d, h + i) = s.sock[d][i]
      BY <3>1, Zenon DEF At
    <3>3. Waiting(k, s, d, At(s, d, h + i), h + i)
      BY <1>2, <3>1, Zenon DEF AllWaiting
    <3> QED BY <3>2, <3>3, Zenon
  <2> QED BY <2>1, <2>2
<1>3. InAhead <=> (d = "f" => \A i \in 1..Len(s.ahead) : Waiting(k, s, d, s.ahead[i], i))
  BY <1>h
<1> HIDE DEF InAhead
<1>4. Complete(k, s, d) <=>
        (s.peer[d] = "open" => h + n + Skipped(s, d) + s.sent[d] = Lead(k, s, d) + s.said[d])
  <2>1. Total(s, d) + Base(s, d) = h + n + Skipped(s, d) + s.sent[d]
    BY <1>s, InputTypes DEF Total, Base
  <2> QED BY <2>1, Zenon DEF Complete
<1> QED BY <1>1, <1>2, <1>3, <1>4, Zenon DEF InputOf, NoEndAhead, Base

\* m items leave, of the script or of the bytes behind it.
LEMMA WaitingShifts ==
  ASSUME NEW k \in DOMAIN Script, NEW s \in Session, NEW t \in Session, NEW d \in Dir,
         NEW x, NEW i \in Nat \ {0}, NEW m \in Nat, Waiting(k, s, d, x, i + m),
         t.said[d] = s.said[d], t.peer[d] = s.peer[d], Total(t, d) + m = Total(s, d),
         \/ /\ Lead(k, s, d) = Lead(k, t, d) + m /\ Base(t, d) = Base(s, d)
            /\ Lead(k, t, d) > 0 => Read(k, t) = Read(k, s) + m
         \/ /\ Lead(k, s, d) <= m /\ Lead(k, t, d) = 0
            /\ Base(t, d) + Lead(k, s, d) = Base(s, d) + m
  PROVE  Waiting(k, t, d, x, i)
<1> DEFINE ls == Lead(k, s, d)
           lt == Lead(k, t, d)
           bs == Base(s, d)
           bt == Base(t, d)
           rs == Read(k, s)
           rt == Read(k, t)
<1>s. ls \in Nat /\ bs \in Nat /\ rs \in Nat /\ Total(s, d) \in Nat
  BY InputSizes, Zenon
<1>t. lt \in Nat /\ bt \in Nat /\ rt \in Nat /\ Total(t, d) \in Nat
  BY InputSizes, Zenon
<1>1. /\ i + m <= ls => x.t = Script[k][rs + (i + m)]
      /\ ~(i + m <= ls) =>
           \/ x.t = "byte" /\ x.n <= s.said[d] /\ x.n = bs + ((i + m) - ls)
           \/ x.t = "eof" /\ s.peer[d] = "closed" /\ i + m = Total(s, d)
  BY Zenon DEF Waiting, Base, Total
<1>2. /\ i <= lt => x.t = Script[k][rt + i]
      /\ ~(i <= lt) =>
           \/ x.t = "byte" /\ x.n <= t.said[d] /\ x.n = bt + (i - lt)
           \/ x.t = "eof" /\ t.peer[d] = "closed" /\ i = Total(t, d)
      => Waiting(k, t, d, x, i)
  BY Zenon DEF Waiting, Base, Total
<1> HIDE DEF ls, lt, bs, bt, rs, rt
<1>3. CASE i <= lt
  <2>1. i + m <= ls /\ rs + (i + m) = rt + i
    BY <1>s, <1>t, <1>3 DEF ls, lt, bs, bt, rs, rt
  <2> QED BY <1>1, <1>2, <1>3, <2>1, Zenon
<1>4. CASE ~(i <= lt)
  <2>1. ~(i + m <= ls) /\ bs + ((i + m) - ls) = bt + (i - lt)
    BY <1>s, <1>t, <1>4 DEF ls, lt, bs, bt
  <2>2. i + m = Total(s, d) => i = Total(t, d)
    BY <1>s, <1>t
  <2> QED BY <1>1, <1>2, <1>4, <2>1, <2>2, Zenon
<1> QED BY <1>3, <1>4

LEMMA InputShifts ==
  ASSUME NEW k \in DOMAIN Script, NEW s \in Session, NEW t \in Session, NEW d \in Dir,
         NEW m \in Nat, InputOf(k, s, d), s.task[d] # "over", NoEndAhead(t, d),
         t.said[d] = s.said[d], t.peer[d] = s.peer[d], Total(t, d) + m = Total(s, d),
         \A i \in 1..Total(t, d) : At(t, d, i) = At(s, d, i + m),
         Base(t, d) <= s.said[d],
         \/ /\ Lead(k, s, d) = Lead(k, t, d) + m /\ Base(t, d) = Base(s, d)
            /\ Lead(k, t, d) > 0 => Read(k, t) = Read(k, s) + m
         \/ /\ Lead(k, s, d) <= m /\ Lead(k, t, d) = 0
            /\ Base(t, d) + Lead(k, s, d) = Base(s, d) + m
  PROVE  InputOf(k, t, d)
<1>s. Total(s, d) \in Nat /\ Base(s, d) \in Nat /\ Lead(k, s, d) \in Nat /\ s.said[d] \in Nat
  BY InputSizes, Zenon
<1>t. Total(t, d) \in Nat /\ Base(t, d) \in Nat /\ Lead(k, t, d) \in Nat
  BY InputSizes, Zenon
<1>1. AllWaiting(k, s, d) /\ Complete(k, s, d)
  BY InputAsOne
<1>2. AllWaiting(k, t, d)
  <2>1. ASSUME NEW i \in 1..Total(t, d) PROVE Waiting(k, t, d, At(t, d, i), i)
    <3>1. i + m \in 1..Total(s, d) /\ i \in Nat \ {0}
      BY <1>s, <1>t
    <3>2. Waiting(k, s, d, At(t, d, i), i + m)
      BY <1>1, <3>1, Zenon DEF AllWaiting
    <3> QED BY <3>1, <3>2, WaitingShifts
  <2> QED BY <2>1 DEF AllWaiting
<1>3. Complete(k, t, d)
  <2>1. CASE s.peer[d] = "open"
    <3>1. Total(s, d) + Base(s, d) = Lead(k, s, d) + s.said[d]
      BY <1>1, <2>1, Zenon DEF Complete
    <3>2. Total(t, d) + Base(t, d) = Lead(k, t, d) + s.said[d]
      BY <1>s, <1>t, <3>1
    <3> QED BY <3>2, Zenon DEF Complete
  <2>2. CASE s.peer[d] # "open"
    BY <2>2, Zenon DEF Complete
  <2> QED BY <2>1, <2>2
<1> QED BY <1>2, <1>3, InputAsOne

\* The peer of d and what waits of it stay.
LEMMA InputStays ==
  ASSUME NEW k \in DOMAIN Script, NEW s \in Session, NEW t \in Session, NEW d \in Dir,
         InputOf(k, s, d), s.task[d] = "over" => t.task[d] = "over",
         t.said[d] = s.said[d], t.peer[d] = s.peer[d], t.sock[d] = s.sock[d],
         d = "f" => t.ahead = s.ahead, Base(t, d) = Base(s, d),
         Lead(k, t, d) = Lead(k, s, d), d = "f" => Read(k, t) = Read(k, s)
  PROVE  InputOf(k, t, d)
<1>1. Base(t, d) <= s.said[d]
  BY InputAsOne
<1>2. CASE t.task[d] = "over"
  BY <1>1, <1>2, InputAsOne
<1>3. CASE t.task[d] # "over"
  <2>1. Held(t, d) = Held(s, d) /\ Total(t, d) = Total(s, d)
    BY Zenon DEF Held, Total
  <2>2. NoEndAhead(t, d)
    BY <1>3, InputAsOne, Zenon DEF NoEndAhead
  <2>3. ASSUME NEW i \in 1..Total(t, d) PROVE At(t, d, i) = At(s, d, i + 0)
    <3>1. i + 0 = i
      BY InputSizes
    <3>2. i <= Held(s, d) => d = "f"
      BY InputSizes DEF Held
    <3> QED BY <2>1, <3>1, <3>2, Zenon DEF At
  <2>4. Read(k, t) = Read(k, s) + 0 \/ d # "f"
    BY InputSizes
  <2>5. Total(t, d) + 0 = Total(s, d) /\ Lead(k, s, d) = Lead(k, t, d) + 0
    BY <2>1, InputSizes
  <2>6. d # "f" => ~(Lead(k, t, d) > 0)
    BY DEF Lead
  <2> QED BY <1>1, <1>3, <2>2, <2>3, <2>4, <2>5, <2>6, InputShifts
<1> QED BY <1>2, <1>3

\* Which item stands where in a script.
LEMMA ScriptFacts ==
  ASSUME NEW k \in DOMAIN Script, NEW i \in 1..Len(Script[k])
  PROVE  /\ Script[k][i] = "greeting" => i = 1 /\ k \in {"socks5", "bind"}
         /\ Script[k][i] = "connect" => i = 2 /\ k = "socks5"
         /\ Script[k][i] = "line" => i = 1 /\ k = "http"
         /\ Script[k][i] = "copy" => i = 1 /\ k = "copy"
         /\ Script[k][i] = "blank" => i = 2 /\ k = "http"
         /\ Script[k][i] \in {"greeting", "connect", "bind", "line", "blank", "copy", "junk"}
<1>1. k \in {"none", "netcat", "local", "socks5", "http", "bind", "copy", "junk"}
  BY DEF Script
<1>2. CASE k \in {"none", "netcat", "local"}
  BY <1>2 DEF Script
<1>3. CASE k = "socks5"
  BY <1>3 DEF Script
<1>4. CASE k = "http"
  BY <1>4 DEF Script
<1>5. CASE k = "bind"
  BY <1>5 DEF Script
<1>6. CASE k = "copy"
  BY <1>6 DEF Script
<1>7. CASE k = "junk"
  BY <1>7 DEF Script
<1> QED BY <1>1, <1>2, <1>3, <1>4, <1>5, <1>6, <1>7

LEMMA ScriptLengths ==
  /\ Len(Script["none"]) = 0 /\ Len(Script["netcat"]) = 0 /\ Len(Script["local"]) = 0
  /\ Len(Script["socks5"]) = 2 /\ Len(Script["http"]) = 2
BY DEF Script

\* The first item that the dialer's task has before it.
LEMMA FirstItem ==
  ASSUME NEW k \in DOMAIN Script, NEW s \in Session,
         InputOf(k, s, "f"), Handshake(k, s), s.task.f # "over", Total(s, "f") > 0
  PROVE  LET x == At(s, "f", 1)
         IN  \/ /\ x.t = Script[k][Read(k, s) + 1] /\ Read(k, s) + 1 \in 1..Len(Script[k])
                /\ Lead(k, s, "f") > 0 /\ s.spoke > Read(k, s)
             \/ Lead(k, s, "f") = 0 /\ x.t = "byte" /\ s.spoke = Len(Script[k])
             \/ Lead(k, s, "f") = 0 /\ x.t = "eof" /\ s.peer.f = "closed"
<1> DEFINE x == At(s, "f", 1)
           l == Lead(k, s, "f")
           r == Read(k, s)
           n == Len(Script[k])
<1>f. "f" \in Dir /\ s.task["f"] # "over"
  BY DEF Dir
<1>s. /\ Total(s, "f") \in Nat /\ Base(s, "f") \in Nat /\ l \in Nat /\ r \in Nat
      /\ s.said["f"] \in Nat /\ n \in Nat /\ s.spoke \in Nat
  BY <1>f, InputSizes, InputTypes
<1>l. l = (IF r < s.spoke THEN s.spoke - r ELSE 0)
  BY Zenon DEF Lead
<1>h. s.spoke <= n /\ (s.said["f"] > 0 => s.spoke = n)
  BY Zenon DEF Handshake
<1>1. Waiting(k, s, "f", x, 1)
  <2>1. 1 \in 1..Total(s, "f")
    BY <1>s
  <2> QED BY <1>f, <2>1, InputAsOne DEF AllWaiting
<1>2. /\ 1 <= l => x.t = Script[k][r + 1]
      /\ ~(1 <= l) =>
           \/ x.t = "byte" /\ x.n <= s.said["f"] /\ x.n = Base(s, "f") + (1 - l)
           \/ x.t = "eof" /\ s.peer["f"] = "closed"
  BY <1>1, Zenon DEF Waiting, Base, Total
<1> HIDE DEF x, l, r, n
<1>3. CASE 1 <= l
  <2>1. s.spoke > r /\ r + 1 \in 1..n /\ l > 0
    BY <1>s, <1>l, <1>h, <1>3
  <2> QED BY <1>2, <1>3, <2>1, Zenon DEF x, l, r, n
<1>4. CASE ~(1 <= l)
  <2>1. l = 0
    BY <1>s, <1>4
  <2>2. x.n <= s.said["f"] /\ x.n = Base(s, "f") + (1 - l) => s.said["f"] > 0
    BY <1>s, <2>1
  <2> QED BY <1>2, <1>4, <1>h, <2>1, <2>2, Zenon DEF x, l, r, n
<1> QED BY <1>3, <1>4

\* The first item in the socket, of a task that reads it itself.
LEMMA FirstInSocket ==
  ASSUME NEW k \in DOMAIN Script, NEW s \in Session, InputOf(k, s, "f"), Handshake(k, s),
         s.task.f # "over", s.ahead = << >>, s.sock.f # << >>
  PROVE  Total(s, "f") > 0 /\ At(s, "f", 1) = Head(s.sock.f)
<1>1. /\ s.sock["f"] \in Seq(Item) /\ Head(s.sock["f"]) = s.sock["f"][1]
      /\ 1 \in 1..Len(s.sock["f"]) /\ Len(s.sock["f"]) \in Nat
  BY InputTypes, TailFacts DEF Dir
<1>2. Held(s, "f") = 0
  BY DEF Held
<1>3. Total(s, "f") = 0 + Len(s.sock["f"])
  BY <1>2, Zenon DEF Total
<1>4. Total(s, "f") > 0
  BY <1>1, <1>3
<1>5. ~(1 <= 0) /\ 1 - 0 = 1
  OBVIOUS
<1>6. At(s, "f", 1) = s.sock["f"][1]
  BY <1>2, <1>5, Zenon DEF At
<1> QED BY <1>1, <1>4, <1>6

LEMMA FirstAhead ==
  ASSUME NEW k \in DOMAIN Script, NEW s \in Session, s.ahead # << >>
  PROVE  /\ Total(s, "f") > 0 /\ At(s, "f", 1) = Head(s.ahead)
         /\ InputOf(k, s, "f") /\ s.task.f # "over" => Head(s.ahead).t # "eof"
<1>1. /\ s.ahead \in Seq(Item) /\ Head(s.ahead) = s.ahead[1] /\ 1 \in 1..Len(s.ahead)
      /\ Len(s.sock["f"]) \in Nat /\ Held(s, "f") = Len(s.ahead) /\ "f" \in Dir
  BY InputTypes, TailFacts DEF Dir, Held
<1>2. 1 <= Held(s, "f") /\ Held(s, "f") + Len(s.sock["f"]) > 0
  BY <1>1
<1>3. At(s, "f", 1) = Head(s.ahead) /\ Total(s, "f") > 0
  BY <1>1, <1>2, Zenon DEF At, Total
<1>4. InputOf(k, s, "f") /\ s.task.f # "over" => Head(s.ahead).t # "eof"
  BY <1>1, Zenon DEF InputOf
<1> QED BY <1>3, <1>4

\* What the dialer's task concludes from what it reads: of a SOCKS client,
LEMMA SocksRead ==
  ASSUME NEW k \in DOMAIN Script, NEW s \in Session, NEW t \in Session,
         InputOf(k, s, "f"), Handshake(k, s), ReadsSocks(s, t)
  PROVE  /\ s.spoke > Read(k, s) /\ s.spoke > 0
         /\ \/ s.task.f = "greeting" /\ TasksAt(t, "command", s.task.b)
            \/ /\ s.task.f = "command" /\ TasksAt(t, "opening", s.task.b)
               /\ k = "socks5" /\ s.spoke = 2
<1>1. s.spoke \in Nat
  BY Fields
<1>2. /\ s.task.f \in {"greeting", "command"} /\ s.sock.f # << >> /\ s.ahead = << >>
      /\ \/ Head(s.sock.f).t = "greeting" /\ TasksAt(t, "command", s.task.b)
         \/ Head(s.sock.f).t = "connect" /\ TasksAt(t, "opening", s.task.b)
  BY DEF ReadsSocks, Handshake
<1>3. Total(s, "f") > 0 /\ At(s, "f", 1) = Head(s.sock.f)
  BY <1>2, FirstInSocket
<1>4. /\ Head(s.sock.f).t = Script[k][Read(k, s) + 1]
      /\ Read(k, s) + 1 \in 1..Len(Script[k]) /\ s.spoke > Read(k, s)
  BY <1>2, <1>3, FirstItem
<1>5. Read(k, s) = IF s.task.f = "greeting" THEN 0 ELSE 1
  BY <1>2 DEF Read
<1>6. CASE s.task.f = "greeting"
  <2>1. Head(s.sock.f).t # "connect"
    BY <1>4, <1>5, <1>6, ScriptFacts
  <2> QED BY <1>2, <1>4, <1>5, <1>6, <2>1
<1>7. CASE s.task.f = "command"
  <2>1. Head(s.sock.f).t # "greeting" /\ k = "socks5"
    BY <1>2, <1>4, <1>5, <1>7, ScriptFacts
  <2>2. s.spoke <= 2
    BY <2>1, ScriptLengths DEF Handshake
  <2> QED BY <1>1, <1>2, <1>4, <1>5, <1>7, <2>1, <2>2
<1> QED BY <1>2, <1>6, <1>7

\* of an HTTP client, at its first line and in its headers,
LEMMA LineRead ==
  ASSUME NEW k \in DOMAIN Script, NEW s \in Session, NEW t \in Session,
         InputOf(k, s, "f"), Handshake(k, s), ReadsLine(s, t)
  PROVE  k = "http" /\ s.spoke > 0 /\ Read(k, s) = 0
<1>1. s.task.f = "line" /\ s.ahead # << >> /\ Head(s.ahead).t = "line"
  BY DEF ReadsLine
<1>2. Total(s, "f") > 0 /\ At(s, "f", 1) = Head(s.ahead)
  BY <1>1, FirstAhead
<1>3. /\ Head(s.ahead).t = Script[k][Read(k, s) + 1]
      /\ Read(k, s) + 1 \in 1..Len(Script[k]) /\ s.spoke > Read(k, s)
  BY <1>1, <1>2, FirstItem
<1>4. Read(k, s) = 0
  BY <1>1 DEF Read
<1> QED BY <1>1, <1>3, <1>4, ScriptFacts

LEMMA HeadersRead ==
  ASSUME NEW k \in DOMAIN Script, NEW s \in Session, NEW t \in Session,
         InputOf(k, s, "f"), Handshake(k, s), ReadsHeaders(s, t)
  PROVE  /\ k = "http" /\ s.spoke \in {1, 2} /\ Read(k, s) = 1
         /\ s.ahead # << >> => s.spoke = 2
         /\ s.ahead = << >> => s.spoke = 1 /\ s.peer.f = "closed"
<1>0. s.task.f = "headers" /\ (s.ahead # << >> \/ AtEnd(s.sock.f)) /\ s.spoke \in Nat
  BY Fields DEF ReadsHeaders
<1>1. k = "http" /\ Read(k, s) = 1 /\ Len(Script[k]) = 2
  BY <1>0, ScriptLengths DEF Handshake, Read
<1>2. s.spoke \in {1, 2}
  BY <1>0, <1>1 DEF Handshake
<1>3. ASSUME s.ahead # << >> PROVE s.spoke = 2
  <2>1. Total(s, "f") > 0 /\ At(s, "f", 1).t # "eof" /\ s.task.f # "over"
    BY <1>0, <1>3, FirstAhead
  <2>2. s.spoke > Read(k, s) \/ s.spoke = Len(Script[k])
    BY <2>1, FirstItem
  <2> QED BY <1>1, <1>2, <2>2
<1>4. ASSUME s.ahead = << >> PROVE s.spoke = 1 /\ s.peer.f = "closed"
  <2>1. Total(s, "f") > 0 /\ At(s, "f", 1).t = "eof"
    BY <1>0, <1>4, FirstInSocket DEF AtEnd
  <2>2. Script[k][2] # "eof"
    BY <1>1 DEF Script
  <2>3. Lead(k, s, "f") = 0 /\ s.peer.f = "closed"
    BY <1>0, <1>1, <2>1, <2>2, FirstItem
  <2> QED BY <1>1, <1>2, <2>3 DEF Lead
<1> QED BY <1>1, <1>2, <1>3, <1>4

\* and of the first byte.
LEMMA FirstByteSeen ==
  ASSUME NEW k \in DOMAIN Script, NEW s \in Session, InputOf(k, s, "f"), Handshake(k, s),
         s.task.f = "peek", s.sock.f # << >>
  PROVE  /\ Head(s.sock.f).t = "greeting" => k \in {"socks5", "bind"}
         /\ Head(s.sock.f).t \in {"line", "copy"} => k \in {"http", "copy"}
<1>1. Total(s, "f") > 0 /\ At(s, "f", 1) = Head(s.sock.f)
  BY FirstInSocket DEF Handshake
<1>2. Head(s.sock.f).t \in {"greeting", "line", "copy"} =>
        /\ Head(s.sock.f).t = Script[k][Read(k, s) + 1]
        /\ Read(k, s) + 1 \in 1..Len(Script[k])
  BY <1>1, FirstItem
<1> QED BY <1>2, ScriptFacts

LEMMA HandshakeKept ==
  ASSUME NEW k \in DOMAIN Script, NEW s \in Session, NEW t \in Session,
         SessionInv(k, s), PlainStep(k, s, t)
  PROVE  Handshake(k, t)
<1> USE DEF SameAll, SameApp, SameInput, SameReply, SameStream, SameEnds, TasksAt, Dir, Opp,
            Handshake, Whole, Early
<1>i. Handshake(k, s) /\ Progress(s) /\ InputOf(k, s, "f")
  BY DEF SessionInv, InputInOrder
<1>s. /\ s.task.f \in DialerTask /\ s.task.b \in ListenerTask /\ s.lost \in Nat
      /\ s.ahead \in Seq(Item) /\ s.spoke \in Nat /\ s.early \in Nat /\ s.said \in [Dir -> Nat]
      /\ s.peer \in [Dir -> {"open", "closed", "reset"}] /\ s.replied \in BOOLEAN
  BY Fields DEF DialerTask, ListenerTask
<1>t. /\ t.task.f \in DialerTask /\ t.task.b \in ListenerTask /\ t.lost \in Nat
      /\ t.ahead \in Seq(Item) /\ t.spoke \in Nat /\ t.early \in Nat /\ t.said \in [Dir -> Nat]
      /\ t.peer \in [Dir -> {"open", "closed", "reset"}] /\ t.replied \in BOOLEAN
  BY Fields DEF DialerTask, ListenerTask
<1>l. Len(Script[k]) \in Nat
  BY DEF Script
<1>1. CASE Advances(k, s, t)
  <2>1. CASE s.task.f \in {"off", "backlog"}
    <3>1. k \in {"local", "netcat"} => Len(Script[k]) = 0
      BY ScriptLengths
    <3>2. s.lost = 0 /\ ~s.replied /\ s.task.b = "none" /\ s.ahead = << >>
      BY <1>i, <1>s, <2>1 DEF Progress
    <3>3. k \in {"local", "netcat"} => Whole(k, t)
      BY <1>i, <1>s, <1>t, <1>1, <3>1 DEF Advances
    <3> QED BY <1>i, <1>s, <1>t, <1>1, <2>1, <3>2, <3>3 DEF Advances
  <2>2. CASE s.task.f = "peek"
    BY <1>i, <1>s, <1>t, <1>1, <2>2, FirstByteSeen DEF Advances
  <2> QED BY <1>1, <2>1, <2>2 DEF Advances
<1>2. CASE ReadsSocks(s, t)
  <2>1. k = "socks5" => Len(Script[k]) = 2
    BY ScriptLengths
  <2>0. s.spoke > 0
    BY <1>i, <1>2, SocksRead
  <2>2. CASE s.task.f = "greeting" /\ TasksAt(t, "command", s.task.b)
    BY <1>i, <1>s, <1>t, <1>2, <2>0, <2>2 DEF ReadsSocks
  <2>3. CASE /\ s.task.f = "command" /\ TasksAt(t, "opening", s.task.b)
             /\ k = "socks5" /\ s.spoke = 2
    BY <1>i, <1>s, <1>t, <1>2, <2>1, <2>3 DEF ReadsSocks
  <2> QED BY <1>i, <1>2, <2>2, <2>3, SocksRead
<1>3. CASE Fills(s, t)
  BY <1>i, <1>s, <1>t, <1>3 DEF Fills
<1>4. CASE ReadsLine(s, t)
  BY <1>i, <1>s, <1>t, <1>4, LineRead DEF ReadsLine
<1>5. CASE ReadsHeaders(s, t)
  <2>1. /\ k = "http" /\ s.spoke \in {1, 2} /\ Len(Script[k]) = 2
        /\ s.spoke = 1 => s.peer.f = "closed"
    BY <1>i, <1>5, HeadersRead, ScriptLengths
  <2>2. Whole(k, t)
    BY <1>5, <2>1 DEF ReadsHeaders
  <2> QED BY <1>i, <1>s, <1>t, <1>5, <2>1, <2>2 DEF ReadsHeaders
<1>6. CASE Opens(s, t) \/ Requests(k, s, t) \/ Starts(s, t)
  BY <1>i, <1>s, <1>t, <1>6 DEF Opens, Requests, Starts
<1>7. CASE Replies(s, t)
  <2>1. s.lost + s.sent["f"] <= s.said["f"] /\ s.sent["f"] \in Nat
    BY <1>i, InputTypes, Zenon DEF InputOf, Skipped
  <2>2. s.lost <= s.said["f"]
    BY <1>s, <2>1
  <2> QED BY <1>i, <1>s, <1>t, <1>7, <2>2 DEF Replies
<1>8. CASE ReadsRequest(k, s, t) \/ Attaches(s, t)
  BY <1>i, <1>s, <1>t, <1>8 DEF ReadsRequest, Attaches
<1>9. ASSUME NEW d \in Dir, Takes(s, t, d) \/ TakesEnd(s, t, d) PROVE Handshake(k, t)
  BY <1>i, <1>s, <1>t, <1>9 DEF Takes, TakesEnd
<1>10. ASSUME NEW d \in Dir, Gives(s, t, d) \/ GivesEnd(s, t, d) PROVE Handshake(k, t)
  BY <1>i, <1>s, <1>t, <1>10 DEF Gives, GivesEnd
<1>11. ASSUME NEW d \in Dir, Finishes(s, t, d) \/ Fails(s, t, d) PROVE Handshake(k, t)
  BY <1>i, <1>s, <1>t, <1>11 DEF Finishes, Fails, Returns
<1>12. CASE PeersStep(k, s, t)
  <2>1. CASE Speaks(k, s, t)
    BY <1>i, <1>s, <1>t, <1>l, <2>1 DEF Speaks
  <2>2. ASSUME NEW d \in Dir, Sends(k, s, t, d) PROVE Handshake(k, t)
    BY <1>i, <1>s, <1>t, <2>2 DEF Sends
  <2>3. ASSUME NEW d \in Dir, Closes(s, t, d) \/ Aborts(s, t, d) PROVE Handshake(k, t)
    BY <1>i, <1>s, <1>t, <2>3 DEF Closes, Aborts
  <2> QED BY <1>12, <2>1, <2>2, <2>3 DEF PeersStep
<1>13. CASE Loses(s, t)
  BY <1>i, <1>s, <1>t, <1>13 DEF Loses
<1> QED
  BY <1>1, <1>2, <1>3, <1>4, <1>5, <1>6, <1>7, <1>8, <1>9, <1>10, <1>11, <1>12, <1>13
     DEF PlainStep, TaskStep, CopyingStep, LossStep

\* One item leaves the front: of the script, or a byte that is taken.
LEMMA FrontShifts ==
  ASSUME NEW k \in DOMAIN Script, NEW s \in Session, NEW t \in Session, NEW d \in Dir,
         InputOf(k, s, d), s.task[d] # "over", t.said[d] = s.said[d], t.peer[d] = s.peer[d],
         \/ /\ s.sock[d] # << >> /\ t.sock[d] = Tail(s.sock[d])
            /\ Held(s, d) = 0 /\ Held(t, d) = 0
         \/ /\ d = "f" /\ s.ahead # << >> /\ t.ahead = Tail(s.ahead) /\ t.sock[d] = s.sock[d],
         \/ /\ Lead(k, s, d) = Lead(k, t, d) + 1 /\ Base(t, d) = Base(s, d)
            /\ Lead(k, t, d) > 0 => Read(k, t) = Read(k, s) + 1
         \/ /\ Lead(k, s, d) = 0 /\ Lead(k, t, d) = 0 /\ Base(t, d) = Base(s, d) + 1
            /\ Base(s, d) < s.said[d]
  PROVE  InputOf(k, t, d)
<1> DEFINE h == Held(s, d)
           n == Len(s.sock[d])
           Moved == /\ NoEndAhead(t, d) /\ Total(t, d) + 1 = Total(s, d)
                    /\ \A i \in 1..Total(t, d) : At(t, d, i) = At(s, d, i + 1)
<1>s. h \in Nat /\ n \in Nat
  BY InputTypes
<1>0. NoEndAhead(s, d) /\ Base(s, d) <= s.said[d]
  BY InputAsOne
<1>1. ASSUME s.sock[d] # << >>, t.sock[d] = Tail(s.sock[d]), Held(s, d) = 0, Held(t, d) = 0
      PROVE  Moved
  <2>1. /\ Len(t.sock[d]) = n - 1
        /\ \A i \in 1..Len(t.sock[d]) : t.sock[d][i] = s.sock[d][i + 1]
    BY <1>1, InputTypes, TailFacts
  <2>2. Total(t, d) = n - 1 /\ Total(s, d) = n /\ Total(t, d) = Len(t.sock[d])
    <3>1. 0 + (n - 1) = n - 1 /\ 0 + n = n
      BY <1>s
    <3> QED BY <1>1, <2>1, <3>1, Zenon DEF Total
  <2>3. ASSUME NEW i \in 1..Total(t, d) PROVE At(t, d, i) = At(s, d, i + 1)
    <3>1. /\ ~(i <= 0) /\ ~(i + 1 <= 0) /\ i - 0 = i /\ (i + 1) - 0 = i + 1
          /\ i \in 1..Len(t.sock[d])
      BY <1>s, <2>2
    <3>2. t.sock[d][i] = s.sock[d][i + 1]
      BY <2>1, <3>1, Zenon
    <3> QED BY <1>1, <3>1, <3>2, Zenon DEF At
  <2>4. NoEndAhead(t, d)
    <3>1. d = "f" => Len(t.ahead) = 0
      BY <1>1 DEF Held
    <3> QED BY <3>1 DEF NoEndAhead
  <2> QED BY <1>s, <2>2, <2>3, <2>4
<1>2. ASSUME d = "f", s.ahead # << >>, t.ahead = Tail(s.ahead), t.sock[d] = s.sock[d]
      PROVE  Moved
  <2>1. /\ Len(t.ahead) = h - 1 /\ h \in Nat \ {0} /\ h = Len(s.ahead)
        /\ Held(t, d) = h - 1
        /\ \A i \in 1..Len(t.ahead) : t.ahead[i] = s.ahead[i + 1] /\ i + 1 \in 1..Len(s.ahead)
    BY <1>2, InputTypes, TailFacts DEF Held
  <2>2. Total(t, d) = (h - 1) + n /\ Total(s, d) = h + n
    BY <1>2, <2>1, Zenon DEF Total
  <2>3. ASSUME NEW i \in 1..Total(t, d) PROVE At(t, d, i) = At(s, d, i + 1)
    <3>1. CASE i <= h - 1
      <4>1. i + 1 <= h /\ i \in 1..Len(t.ahead)
        BY <2>1, <3>1
      <4>2. t.ahead[i] = s.ahead[i + 1]
        BY <2>1, <4>1, Zenon
      <4> QED BY <2>1, <3>1, <4>1, <4>2, Zenon DEF At
    <3>2. CASE ~(i <= h - 1)
      <4>1. ~(i + 1 <= h) /\ i - (h - 1) = (i + 1) - h
        BY <2>1, <3>2
      <4> QED BY <1>2, <2>1, <3>2, <4>1, Zenon DEF At
    <3> QED BY <3>1, <3>2
  <2>4. NoEndAhead(t, d)
    BY <1>0, <1>2, <2>1, Zenon DEF NoEndAhead
  <2>5. \A a \in Nat, b \in Nat : ((a - 1) + b) + 1 = a + b
    OBVIOUS
  <2> QED BY <1>s, <2>2, <2>3, <2>4, <2>5, Zenon
<1>3. Moved
  BY <1>1, <1>2
<1>4. CASE /\ Lead(k, s, d) = Lead(k, t, d) + 1 /\ Base(t, d) = Base(s, d)
           /\ Lead(k, t, d) > 0 => Read(k, t) = Read(k, s) + 1
  BY <1>0, <1>3, <1>4, InputShifts
<1>5. CASE /\ Lead(k, s, d) = 0 /\ Lead(k, t, d) = 0 /\ Base(t, d) = Base(s, d) + 1
           /\ Base(s, d) < s.said[d]
  <2>1. Base(t, d) <= s.said[d] /\ 0 <= 1 /\ Base(t, d) + 0 = Base(s, d) + 1
    BY <1>5, InputSizes
  <2> QED BY <1>3, <1>5, <2>1, InputShifts
<1> QED BY <1>4, <1>5

\* The peer of d adds an item x, of its script or behind all of it.
LEMMA InputGrows ==
  ASSUME NEW k \in DOMAIN Script, NEW s \in Session, NEW t \in Session, NEW d \in Dir,
         NEW x \in Item, InputOf(k, s, d), s.peer[d] = "open", s.task[d] # "over",
         t.sock[d] = Append(s.sock[d], x), t.ahead = s.ahead, Base(t, d) = Base(s, d),
         s.said[d] <= t.said[d], Read(k, t) = Read(k, s),
         Waiting(k, t, d, x, Total(s, d) + 1),
         \/ Lead(k, t, d) = Lead(k, s, d)
         \/ Lead(k, t, d) = Lead(k, s, d) + 1 /\ Total(s, d) = Lead(k, s, d),
         t.peer[d] = "open" => (Total(s, d) + 1) + Base(s, d) = Lead(k, t, d) + t.said[d]
  PROVE  InputOf(k, t, d)
<1>0. /\ Base(s, d) <= s.said[d] /\ NoEndAhead(s, d) /\ AllWaiting(k, s, d)
  BY InputAsOne
<1>s. /\ Total(s, d) \in Nat /\ Base(s, d) \in Nat /\ Lead(k, s, d) \in Nat
      /\ s.said[d] \in Nat /\ Lead(k, t, d) \in Nat /\ t.said[d] \in Nat
      /\ Held(s, d) \in Nat /\ Len(s.sock[d]) \in Nat /\ s.sock[d] \in Seq(Item)
  BY InputSizes, InputTypes
<1>1. /\ Len(t.sock[d]) = Len(s.sock[d]) + 1 /\ t.sock[d][Len(s.sock[d]) + 1] = x
      /\ \A i \in 1..Len(s.sock[d]) : t.sock[d][i] = s.sock[d][i]
  BY <1>s, AppendFacts
<1>2. Held(t, d) = Held(s, d)
  BY Zenon DEF Held
<1>3. Total(t, d) = Total(s, d) + 1
  <2>1. \A a \in Nat, b \in Nat : a + (b + 1) = (a + b) + 1
    OBVIOUS
  <2> QED BY <1>s, <1>1, <1>2, <2>1, Zenon DEF Total
<1>4. ASSUME NEW i \in 1..Total(s, d) PROVE Waiting(k, t, d, At(t, d, i), i)
  <2> DEFINE y == At(s, d, i)
  <2>1. Waiting(k, s, d, y, i)
    BY <1>0, <1>4, Zenon DEF AllWaiting
  <2>2. At(t, d, i) = y
    <3>1. CASE i <= Held(s, d)
      BY <1>2, <3>1, Zenon DEF At
    <3>2. CASE ~(i <= Held(s, d))
      <4>1. \A a \in Nat, b \in Nat : i \in 1..(a + b) /\ ~(i <= a) => i - a \in 1..b
        OBVIOUS
      <4>2. i - Held(s, d) \in 1..Len(s.sock[d])
        BY <1>s, <3>2, <4>1, Zenon DEF Total
      <4> QED BY <1>1, <1>2, <3>2, <4>2, Zenon DEF At
    <3> QED BY <3>1, <3>2
  <2>3. /\ i <= Lead(k, s, d) => y.t = Script[k][Read(k, s) + i]
        /\ ~(i <= Lead(k, s, d)) =>
             y.t = "byte" /\ y.n <= s.said[d] /\ y.n = Base(s, d) + (i - Lead(k, s, d))
    BY <2>1, Zenon DEF Waiting, Base
  <2> HIDE DEF y
  <2>4. CASE i <= Lead(k, s, d)
    <3>1. i <= Lead(k, t, d)
      BY <1>s, <2>4
    <3> QED BY <2>2, <2>3, <2>4, <3>1, Zenon DEF Waiting
  <2>5. CASE ~(i <= Lead(k, s, d))
    <3>1. Lead(k, t, d) = Lead(k, s, d)
      BY <1>s, <2>5
    <3>2. y.t = "byte" /\ y.n = Base(s, d) + (i - Lead(k, s, d)) /\ y.n <= s.said[d]
      BY <2>3, <2>5
    <3>3. y.n <= t.said[d]
      <4>1. \A a \in Nat, b \in Nat : a <= b /\ y.n = Base(s, d) + (i - Lead(k, s, d)) /\ y.n <= a
                                        => y.n <= b
        BY <1>s
      <4> QED BY <1>s, <3>2, <4>1, Zenon
    <3> QED BY <2>2, <2>5, <3>1, <3>2, <3>3, Zenon DEF Waiting, Base
  <2> QED BY <2>4, <2>5
<1>5. At(t, d, Total(s, d) + 1) = x
  <2>1. \A a \in Nat, b \in Nat : ~((a + b) + 1 <= a) /\ ((a + b) + 1) - a = b + 1
    OBVIOUS
  <2> QED BY <1>s, <1>1, <1>2, <2>1, ZenonT(30) DEF At, Total
<1>6. AllWaiting(k, t, d)
  <2>1. ASSUME NEW i \in 1..Total(t, d) PROVE Waiting(k, t, d, At(t, d, i), i)
    <3>1. i \in 1..Total(s, d) \/ i = Total(s, d) + 1
      BY <1>s, <1>3
    <3>2. CASE i = Total(s, d) + 1
      BY <1>5, <3>2, Zenon
    <3> QED BY <1>4, <3>1, <3>2
  <2> QED BY <2>1 DEF AllWaiting
<1>7. Base(t, d) <= t.said[d]
  BY <1>0, <1>s
<1>8. NoEndAhead(t, d) /\ Complete(k, t, d)
  BY <1>0, <1>3, Zenon DEF NoEndAhead, Complete
<1> QED BY <1>6, <1>7, <1>8, InputAsOne

LEMMA NoEndInScript ==
  ASSUME NEW k \in DOMAIN Script, NEW s \in Session, InputOf(k, s, "f"), Handshake(k, s),
         NEW i \in Nat \ {0}, i <= Lead(k, s, "f")
  PROVE  /\ Read(k, s) + i \in 1..Len(Script[k])
         /\ Script[k][Read(k, s) + i] # "eof"
<1>1. /\ Read(k, s) \in Nat /\ s.spoke \in Nat /\ Len(Script[k]) \in Nat
      /\ s.spoke <= Len(Script[k])
  BY InputTypes DEF Handshake, Dir
<1>2. Read(k, s) + i \in 1..Len(Script[k])
  BY <1>1 DEF Lead
<1> QED BY <1>2, ScriptFacts

LEMMA SplitFacts ==
  ASSUME NEW S, NEW q \in Seq(S), NEW n \in 1..Len(q)
  PROVE  /\ Len(SubSeq(q, 1, n)) = n /\ Len(SubSeq(q, n + 1, Len(q))) = Len(q) - n
         /\ Len(q) \in Nat /\ n \in Nat /\ 1 <= n /\ n <= Len(q)
         /\ \A i \in 1..n : SubSeq(q, 1, n)[i] = q[i]
         /\ \A i \in 1..(Len(q) - n) : SubSeq(q, n + 1, Len(q))[i] = q[n + i]
<1>1. Len(q) \in Nat /\ n \in Nat /\ 1 <= n /\ n <= Len(q)
  OBVIOUS
<1>2. Len(SubSeq(q, 1, n)) = n /\ \A i \in 1..n : SubSeq(q, 1, n)[i] = q[i]
  OBVIOUS
<1>3. Len(SubSeq(q, n + 1, Len(q))) = Len(q) - n
  OBVIOUS
<1>4. ASSUME NEW i \in 1..(Len(q) - n) PROVE SubSeq(q, n + 1, Len(q))[i] = q[n + i]
  BY <1>1
<1> QED BY <1>1, <1>2, <1>3, <1>4

\* The request gets shorter, and longer.
LEMMA LeadShrinks ==
  ASSUME NEW k \in DOMAIN Script, NEW s \in Session, NEW t \in Session,
         t.spoke = s.spoke, Read(k, t) = Read(k, s) + 1, s.spoke > Read(k, s)
  PROVE  Lead(k, s, "f") = Lead(k, t, "f") + 1
<1>1. s.spoke \in Nat /\ Read(k, s) \in Nat
  BY InputTypes DEF Dir
<1>2. \A n \in Nat, r \in Nat :
        n > r => /\ (IF r < n THEN n - r ELSE 0) = (IF r + 1 < n THEN n - (r + 1) ELSE 0) + 1
  OBVIOUS
<1> QED BY <1>1, <1>2, Zenon DEF Lead

LEMMA LeadGrows ==
  ASSUME NEW k \in DOMAIN Script, NEW s \in Session, NEW t \in Session,
         t.spoke = s.spoke + 1, Read(k, t) = Read(k, s), Read(k, s) <= s.spoke
  PROVE  /\ Lead(k, t, "f") = Lead(k, s, "f") + 1
         /\ Read(k, s) + Lead(k, t, "f") = s.spoke + 1
<1>1. s.spoke \in Nat /\ Read(k, s) \in Nat
  BY InputTypes DEF Dir
<1> DEFINE n == s.spoke
           r == Read(k, s)
<1>2. /\ Lead(k, s, "f") = (IF r < n THEN n - r ELSE 0)
      /\ Lead(k, t, "f") = (IF r < n + 1 THEN (n + 1) - r ELSE 0)
  BY Zenon DEF Lead
<1>3. n \in Nat /\ r \in Nat /\ r <= n
  BY <1>1
<1> HIDE DEF n, r
<1>4. /\ Lead(k, t, "f") = Lead(k, s, "f") + 1
      /\ r + Lead(k, t, "f") = n + 1
  BY <1>2, <1>3
<1> QED BY <1>4 DEF n, r

\* Which step does what to what waits of the peer of direction e.
LEMMA InputKept ==
  ASSUME NEW k \in DOMAIN Script, NEW s \in Session, NEW t \in Session,
         SessionInv(k, s), PlainStep(k, s, t)
  PROVE  InputInOrder(k, t)
<1> SUFFICES ASSUME NEW e \in Dir PROVE InputOf(k, t, e)
  BY DEF InputInOrder
<1> USE DEF SameAll, SameApp, SameInput, SameReply, SameStream, SameEnds, TasksAt, Dir, Opp
<1>i. /\ Handshake(k, s) /\ Progress(s) /\ InputOf(k, s, "f") /\ InputOf(k, s, e)
  BY DEF SessionInv, InputInOrder
<1>s. /\ s.task.f \in DialerTask /\ s.task.b \in ListenerTask /\ s.lost \in Nat
      /\ s.sock \in [Dir -> Seq(Item)] /\ s.ahead \in Seq(Item) /\ s.spoke \in Nat
      /\ s.sent \in [Dir -> Nat] /\ s.said \in [Dir -> Nat]
      /\ s.peer \in [Dir -> {"open", "closed", "reset"}]
  BY Fields
<1>0. ASSUME s.task[e] = "over" => t.task[e] = "over", t.said[e] = s.said[e],
             t.peer[e] = s.peer[e], t.sock[e] = s.sock[e], e = "f" => t.ahead = s.ahead,
             t.lost = s.lost, t.sent[e] = s.sent[e], t.spoke = s.spoke,
             e = "f" => Read(k, t) = Read(k, s)
      PROVE  InputOf(k, t, e)
  <2>1. Base(t, e) = Base(s, e)
    BY <1>0, Zenon DEF Base, Skipped
  <2>2. Lead(k, t, e) = Lead(k, s, e)
    BY <1>0, Zenon DEF Lead
  <2> QED BY <1>i, <1>0, <2>1, <2>2, InputStays, ZenonT(30)
<1>1. CASE Advances(k, s, t)
  <2>1. k \in {"local", "netcat"} => Len(Script[k]) = 0
    BY ScriptLengths
  <2>2. Read(k, t) = Read(k, s)
    BY <1>1, <2>1 DEF Advances, Read
  <2>3. s.task[e] = "over" => t.task[e] = "over"
    BY <1>1 DEF Advances
  <2> QED BY <1>0, <1>1, <2>2, <2>3, Zenon DEF Advances
<1>2. CASE Opens(s, t) \/ Requests(k, s, t) \/ Replies(s, t)
  <2>1. Read(k, t) = Read(k, s)
    BY <1>2 DEF Opens, Requests, Replies, Read
  <2>2. s.task[e] = "over" => t.task[e] = "over"
    BY <1>i, <1>2 DEF Opens, Requests, Replies, Progress, Early
  <2> QED BY <1>0, <1>2, <2>1, <2>2, Zenon DEF Opens, Requests, Replies
<1>3. CASE Starts(s, t) \/ ReadsRequest(k, s, t) \/ Attaches(s, t)
  <2>1. Read(k, t) = Read(k, s)
    BY <1>3 DEF Starts, ReadsRequest, Attaches, Read
  <2>2. s.task[e] = "over" => t.task[e] = "over"
    BY <1>3 DEF Starts, ReadsRequest, Attaches
  <2> QED BY <1>0, <1>3, <2>1, <2>2, Zenon DEF Starts, ReadsRequest, Attaches
<1>4. ASSUME NEW d \in Dir, TakesEnd(s, t, d) \/ Gives(s, t, d) \/ GivesEnd(s, t, d)
      PROVE  InputOf(k, t, e)
  <2>1. t.task = s.task /\ Read(k, t) = Read(k, s)
    BY <1>4, Zenon DEF TakesEnd, Gives, GivesEnd, Read
  <2> QED BY <1>0, <1>4, <2>1, Zenon DEF TakesEnd, Gives, GivesEnd
<1>5. CASE Loses(s, t)
  <2>1. t.task = s.task /\ Read(k, t) = Read(k, s)
    BY <1>5, Zenon DEF Loses, Read
  <2> QED BY <1>0, <1>5, <2>1, Zenon DEF Loses
<1>6. ASSUME e = "b", ReadsSocks(s, t) \/ Fills(s, t) \/ ReadsLine(s, t) \/ ReadsHeaders(s, t)
      PROVE  InputOf(k, t, e)
  <2>1. /\ s.task[e] = "over" => t.task[e] = "over"
        /\ t.said[e] = s.said[e] /\ t.peer[e] = s.peer[e] /\ t.sent[e] = s.sent[e]
        /\ t.sock[e] = s.sock[e]
    BY <1>s, <1>6 DEF ReadsSocks, Fills, ReadsLine, ReadsHeaders
  <2>2. Base(t, e) = Base(s, e) /\ Lead(k, t, e) = Lead(k, s, e)
    BY <1>6, <2>1 DEF Base, Skipped, Lead
  <2>3. e # "f"
    BY <1>6
  <2> QED BY <1>i, <2>1, <2>2, <2>3, InputStays, Zenon
<1>7. CASE ReadsSocks(s, t) /\ e = "f"
  <2>1. /\ s.spoke > Read(k, s)
        /\ \/ s.task.f = "greeting" /\ t.task.f = "command"
           \/ s.task.f = "command" /\ t.task.f = "opening" /\ k = "socks5"
    <3>1. ReadsSocks(s, t)
      BY <1>7
    <3> HIDE DEF SameApp, SameReply, SameStream, SameEnds, TasksAt
    <3>2. /\ s.spoke > Read(k, s)
          /\ \/ s.task.f = "greeting" /\ TasksAt(t, "command", s.task.b)
             \/ /\ s.task.f = "command" /\ TasksAt(t, "opening", s.task.b)
                /\ k = "socks5" /\ s.spoke = 2
      BY <1>i, <3>1, SocksRead
    <3> QED BY <3>2, Zenon DEF TasksAt
  <2>2. Read(k, t) = Read(k, s) + 1
    <3>1. CASE s.task.f = "greeting" /\ t.task.f = "command"
      BY <3>1 DEF Read
    <3>2. CASE s.task.f = "command" /\ t.task.f = "opening" /\ k = "socks5"
      <4>1. Read(k, t) = Len(Script[k]) /\ Read(k, s) = 1 /\ Len(Script[k]) = 2
        BY <3>2, ScriptLengths DEF Read
      <4> QED BY <4>1
    <3> QED BY <2>1, <3>1, <3>2
  <2>3. Lead(k, s, e) = Lead(k, t, e) + 1
    <3>1. t.spoke = s.spoke
      BY <1>7 DEF ReadsSocks
    <3> QED BY <1>7, <2>1, <2>2, <3>1, LeadShrinks
  <2>4. Held(s, e) = 0 /\ Held(t, e) = 0
    BY <1>i, <1>7 DEF Held, Handshake, ReadsSocks
  <2>5. Base(t, e) = Base(s, e)
    BY <1>7, Zenon DEF Base, Skipped, ReadsSocks
  <2>6. /\ s.task[e] # "over" /\ t.said[e] = s.said[e] /\ t.peer[e] = s.peer[e]
        /\ s.sock[e] # << >> /\ t.sock[e] = Tail(s.sock[e])
    BY <1>s, <1>7 DEF ReadsSocks
  <2> QED BY <1>i, <2>2, <2>3, <2>4, <2>5, <2>6, FrontShifts
<1>8. CASE Fills(s, t) /\ e = "f"
  <2>1. PICK n \in 1..Len(s.sock[e]) :
          /\ s.sock[e][n].t # "eof" /\ t.ahead = SubSeq(s.sock[e], 1, n)
          /\ t.sock[e] = SubSeq(s.sock[e], n + 1, Len(s.sock[e]))
    BY <1>s, <1>8 DEF Fills
  <2> DEFINE m == Len(s.sock[e])
  <2>2. /\ Len(t.ahead) = n /\ Len(t.sock[e]) = m - n /\ m \in Nat /\ n \in Nat /\ n <= m
        /\ \A i \in 1..n : t.ahead[i] = s.sock[e][i]
        /\ \A i \in 1..(m - n) : t.sock[e][i] = s.sock[e][n + i]
    <3> DEFINE q == s.sock[e]
    <3>1. q \in Seq(Item)
      BY <1>s
    <3>2. n \in 1..Len(q)
      BY <2>1
    <3> HIDE DEF q
    <3>3. /\ Len(SubSeq(q, 1, n)) = n /\ Len(SubSeq(q, n + 1, Len(q))) = Len(q) - n
          /\ Len(q) \in Nat /\ n \in Nat /\ n <= Len(q)
          /\ \A i \in 1..n : SubSeq(q, 1, n)[i] = q[i]
          /\ \A i \in 1..(Len(q) - n) : SubSeq(q, n + 1, Len(q))[i] = q[n + i]
      BY <3>1, <3>2, SplitFacts
    <3> QED BY <2>1, <3>3, Zenon DEF q
  <2>3. Held(s, e) = 0 /\ Held(t, e) = n
    BY <1>8, <2>2 DEF Held, Fills
  <2>n. m \in Nat /\ n \in Nat /\ 1 <= n /\ n <= m
    <3>1. s.sock[e] \in Seq(Item)
      BY <1>s
    <3> QED BY <3>1, SplitFacts, Zenon
  <2> HIDE DEF m
  <2>4. Total(s, e) = m /\ Total(t, e) + 0 = m /\ Total(t, e) + 0 = Total(s, e)
    <3>1. 0 + m = m /\ (n + (m - n)) + 0 = m
      BY <2>n
    <3> QED BY <2>2, <2>3, <3>1, Zenon DEF Total, m
  <2>t. Total(t, e) \in Nat
    BY InputSizes, Zenon
  <2>5. ASSUME NEW i \in 1..Total(t, e) PROVE At(t, e, i) = At(s, e, i + 0)
    <3>1. ~(i + 0 <= 0) /\ (i + 0) - 0 = i /\ i \in 1..m
      BY <2>n, <2>4, <2>t
    <3>2. At(s, e, i + 0) = s.sock[e][i]
      BY <2>3, <3>1, Zenon DEF At
    <3>3. CASE i <= n
      <4>1. i \in 1..n
        BY <3>1, <3>3
      <4> QED BY <1>8, <2>2, <2>3, <3>2, <3>3, <4>1, Zenon DEF At
    <3>4. CASE ~(i <= n)
      <4>1. i - n \in 1..(m - n) /\ n + (i - n) = i
        BY <2>n, <3>1, <3>4
      <4> QED BY <2>2, <2>3, <3>2, <3>4, <4>1, Zenon DEF At
    <3> QED BY <3>3, <3>4
  <2>6. NoEndAhead(t, e)
    <3>1. ASSUME NEW i \in 1..n PROVE t.ahead[i].t # "eof"
      <4>1. i \in 1..m /\ ~(i = m /\ i # n) /\ 0 + i = i
        BY <2>n
      <4>2. Waiting(k, s, e, s.sock[e][i], i)
        BY <1>i, <1>8, <2>3, <4>1, ZenonT(30) DEF InputOf, Fills, m
      <4>3. CASE i = n
        BY <2>1, <2>2, <4>3
      <4>4. CASE i # n
        <5>1. i # 0 + m
          BY <2>n, <4>1, <4>4
        <5>2. i <= Lead(k, s, e) => s.sock[e][i].t # "eof"
          <6>1. i \in Nat \ {0}
            BY <4>1
          <6> QED BY <1>i, <1>8, <4>2, <6>1, NoEndInScript, Zenon DEF Waiting
        <5>3. ~(i <= Lead(k, s, e)) => s.sock[e][i].t # "eof"
          <6>1. "byte" # "eof"
            OBVIOUS
          <6> QED BY <2>3, <4>2, <5>1, <6>1, Zenon DEF Waiting, m
        <5> QED BY <2>2, <5>2, <5>3
      <4> QED BY <4>3, <4>4
    <3> QED BY <2>2, <3>1, Zenon DEF NoEndAhead
  <2>7. Base(t, e) = Base(s, e) /\ Read(k, t) = Read(k, s) /\ Lead(k, t, e) = Lead(k, s, e)
    BY <1>8, Zenon DEF Base, Skipped, Read, Lead, Fills
  <2>8. /\ s.task[e] # "over" /\ t.said[e] = s.said[e] /\ t.peer[e] = s.peer[e]
    BY <1>s, <1>8 DEF Fills
  <2>9. /\ Lead(k, s, e) = Lead(k, t, e) + 0 /\ Read(k, t) = Read(k, s) + 0
        /\ Base(t, e) <= s.said[e]
    <3>1. \A a \in Nat : a = a + 0
      OBVIOUS
    <3> QED BY <1>i, <2>7, <3>1, InputSizes, InputAsOne, Zenon
  <2>10. /\ Total(t, e) + 0 = Total(s, e) /\ InputOf(k, s, e) /\ 0 \in Nat
         /\ Lead(k, s, e) = Lead(k, t, e) + 0 /\ Base(t, e) = Base(s, e)
         /\ Lead(k, t, e) > 0 => Read(k, t) = Read(k, s) + 0
    BY <1>i, <2>4, <2>7, <2>9
  <2> QED BY <2>5, <2>6, <2>8, <2>9, <2>10, InputShifts
<1>9. CASE ReadsLine(s, t) /\ e = "f"
  <2>1. s.spoke > Read(k, s) /\ Read(k, s) = 0
    BY <1>i, <1>9, LineRead
  <2>2. Read(k, t) = Read(k, s) + 1
    BY <1>9, <2>1 DEF Read, ReadsLine
  <2>3. Lead(k, s, e) = Lead(k, t, e) + 1
    <3>1. t.spoke = s.spoke
      BY <1>9 DEF ReadsLine
    <3> QED BY <1>9, <2>1, <2>2, <3>1, LeadShrinks
  <2>4. Base(t, e) = Base(s, e)
    BY <1>9, Zenon DEF Base, Skipped, ReadsLine
  <2>5. /\ s.task[e] # "over" /\ t.said[e] = s.said[e] /\ t.peer[e] = s.peer[e]
        /\ s.ahead # << >> /\ t.ahead = Tail(s.ahead) /\ t.sock[e] = s.sock[e]
    BY <1>9 DEF ReadsLine
  <2> QED BY <1>i, <1>9, <2>2, <2>3, <2>4, <2>5, FrontShifts
<1>10. CASE ReadsHeaders(s, t) /\ e = "f"
  <2> DEFINE m == Len(s.ahead)
  <2>1. /\ k = "http" /\ s.spoke \in {1, 2} /\ Read(k, s) = 1
        /\ m > 0 => s.spoke = 2
        /\ m = 0 => s.spoke = 1
        /\ m \in Nat
    BY <1>i, <1>s, <1>10, HeadersRead
  <2> HIDE DEF m
  <2>2. Read(k, t) = 2
    BY <1>10, <2>1, ScriptLengths DEF Read, ReadsHeaders
  <2>3. Lead(k, s, e) = (IF m > 0 THEN 1 ELSE 0) /\ Lead(k, t, e) = 0
    BY <1>10, <2>1, <2>2 DEF Lead, ReadsHeaders
  <2>4. s.lost = 0 /\ s.sent[e] = 0 /\ t.sent[e] = 0
    BY <1>i, <1>s, <1>10 DEF Handshake, Progress, Early, ReadsHeaders
  <2>5. Base(s, e) = 0 /\ Base(t, e) = (IF m > 0 THEN m - 1 ELSE 0)
    BY <1>10, <2>1, <2>4 DEF Base, Skipped, ReadsHeaders, m
  <2>6. /\ Held(s, e) = m /\ Held(t, e) = 0 /\ t.sock[e] = s.sock[e]
        /\ s.task[e] # "over" /\ t.said[e] = s.said[e] /\ t.peer[e] = s.peer[e]
    BY <1>10 DEF Held, ReadsHeaders, m
  <2>7. Total(t, e) + m = Total(s, e)
    <3>1. \A a \in Nat : (0 + a) + m = m + a
      BY <2>1
    <3> QED BY <2>6, <3>1, InputTypes, Zenon DEF Total
  <2>8. ASSUME NEW i \in 1..Total(t, e) PROVE At(t, e, i) = At(s, e, i + m)
    <3>1. ~(i <= 0) /\ ~(i + m <= m) /\ (i + m) - m = i - 0
      BY <2>1, InputSizes
    <3> QED BY <2>6, <3>1, Zenon DEF At
  <2>9. NoEndAhead(t, e)
    BY <1>10 DEF NoEndAhead, ReadsHeaders
  <2>10. Base(t, e) <= s.said[e]
    <3>1. CASE m > 1
      <4>1. ~(m <= Lead(k, s, e)) /\ m \in 1..m /\ 0 + (m - 1) = m - 1
        BY <2>1, <2>3, <3>1
      <4>2. Waiting(k, s, e, s.ahead[m], m) /\ s.ahead[m].t # "eof"
        BY <1>i, <1>10, <4>1, Zenon DEF InputOf, ReadsHeaders, m
      <4>3. s.ahead[m].n <= s.said[e] /\ s.ahead[m].n = Base(s, e) + (m - Lead(k, s, e))
        BY <4>1, <4>2, Zenon DEF Waiting, Base
      <4>4. s.ahead[m].n = m - 1
        BY <2>1, <2>3, <2>5, <3>1, <4>3
      <4> QED BY <2>1, <2>5, <3>1, <4>3, <4>4
    <3>2. CASE ~(m > 1)
      BY <2>1, <2>5, <3>2, InputSizes
    <3> QED BY <3>1, <3>2
  <2>11. Lead(k, s, e) <= m /\ Base(t, e) + Lead(k, s, e) = Base(s, e) + m
    BY <2>1, <2>3, <2>5
  <2> QED BY <1>i, <2>1, <2>3, <2>6, <2>7, <2>8, <2>9, <2>10, <2>11, InputShifts
<1>11. ASSUME NEW d \in Dir, Takes(s, t, d) PROVE InputOf(k, t, e)
  <2>1. CASE e # d
    <3>1. /\ t.task = s.task /\ Read(k, t) = Read(k, s) /\ t.lost = s.lost
          /\ t.said = s.said /\ t.peer = s.peer /\ t.spoke = s.spoke /\ t.ahead = s.ahead
      BY <1>11, Zenon DEF Takes, Read
    <3>2. t.sock[e] = s.sock[e] /\ t.sent[e] = s.sent[e]
      BY <1>s, <1>11, <2>1 DEF Takes
    <3> QED BY <1>0, <3>1, <3>2, Zenon
  <2>2. CASE e = d
    <3>1. /\ s.task[e] = "copying" /\ s.sock[e] # << >> /\ Head(s.sock[e]).t = "byte"
          /\ t.said[e] = s.said[e] /\ t.peer[e] = s.peer[e] /\ t.sock[e] = Tail(s.sock[e])
          /\ t.sent[e] = s.sent[e] + 1 /\ t.lost = s.lost /\ t.ahead = s.ahead
          /\ t.task = s.task /\ t.spoke = s.spoke
      BY <1>s, <1>11, <2>2 DEF Takes
    <3>2. /\ Head(s.sock[e]).n = Skipped(s, e) + s.sent[e] + 1
          /\ Head(s.sock[e]).n <= s.said[e]
          /\ Lead(k, s, e) = 0 /\ Held(s, e) = 0
      BY <1>i, <3>1, NextIsNext
    <3>3. Held(t, e) = 0 /\ Lead(k, t, e) = 0
      BY <3>1, <3>2, Zenon DEF Held, Lead, Read
    <3>4. Base(t, e) = Base(s, e) + 1 /\ Base(s, e) < s.said[e]
      <4>1. /\ Skipped(s, e) + (s.sent[e] + 1) = (Skipped(s, e) + s.sent[e]) + 1
            /\ Skipped(s, e) + s.sent[e] < s.said[e]
        <5> DEFINE a == Skipped(s, e)
                   b == s.sent[e]
                   c == s.said[e]
        <5>1. a \in Nat /\ b \in Nat /\ c \in Nat /\ (a + b) + 1 <= c
          BY <3>2, InputTypes, Zenon
        <5> HIDE DEF a, b, c
        <5>2. a + (b + 1) = (a + b) + 1 /\ a + b < c
          BY <5>1
        <5> QED BY <5>2 DEF a, b, c
      <4> QED BY <3>1, <4>1, Zenon DEF Base, Skipped
    <3> QED BY <1>i, <3>1, <3>2, <3>3, <3>4, FrontShifts
  <2> QED BY <2>1, <2>2
<1>12. ASSUME NEW d \in Dir, Returns(s, t, d), s.task.b # "none" \/ d = "f"
       PROVE  InputOf(k, t, e)
  <2>1. /\ t.said = s.said /\ t.peer = s.peer /\ t.spoke = s.spoke /\ t.lost = s.lost
        /\ t.sent = s.sent
    BY <1>12 DEF Returns
  <2>2. CASE e = d
    <3>1. t.task[e] = "over" /\ Base(t, e) = Base(s, e) /\ t.said[e] = s.said[e]
      BY <1>12, <2>1, <2>2, Zenon DEF Base, Skipped, Returns
    <3> QED BY <1>i, <3>1, InputAsOne
  <2>3. CASE e # d
    <3>1. t.sock[e] = s.sock[e] /\ t.task[e] = s.task[e]
      BY <1>s, <1>12, <2>3 DEF Returns
    <3>2. e = "f" => t.ahead = s.ahead
      BY <1>i, <1>s, <1>12, <2>3 DEF Returns, Handshake, Progress, Early
    <3>3. e = "f" => Read(k, t) = Read(k, s)
      BY <3>1 DEF Read
    <3> QED BY <1>0, <2>1, <3>1, <3>2, <3>3, Zenon
  <2> QED BY <2>2, <2>3
<1>13. CASE Speaks(k, s, t)
  <2>1. CASE e = "b"
    <3>1. /\ t.task = s.task /\ t.said = s.said /\ t.peer = s.peer /\ t.lost = s.lost
          /\ t.sent = s.sent /\ t.ahead = s.ahead
      BY <1>13 DEF Speaks
    <3>2. t.sock[e] = s.sock[e]
      BY <1>s, <1>13, <2>1 DEF Speaks
    <3>3. Base(t, e) = Base(s, e) /\ Lead(k, t, e) = Lead(k, s, e) /\ e # "f"
      BY <2>1, <3>1 DEF Base, Skipped, Lead
    <3> QED BY <1>i, <3>1, <3>2, <3>3, InputStays, Zenon
  <2>2. CASE e = "f"
    <3> DEFINE x == Mark(Script[k][s.spoke + 1])
    <3>1. /\ t.task = s.task /\ t.said = s.said /\ t.peer = s.peer /\ t.lost = s.lost
          /\ t.sent = s.sent /\ t.ahead = s.ahead /\ t.spoke = s.spoke + 1
          /\ s.peer[e] = "open" /\ s.task[e] # "over" /\ s.spoke < Len(Script[k])
          /\ t.sock[e] = Append(s.sock[e], x)
      BY <1>s, <1>13, <2>2 DEF Speaks
    <3>2. s.spoke + 1 \in 1..Len(Script[k]) /\ Len(Script[k]) \in Nat /\ Read(k, s) \in Nat
      <4>1. Len(Script[k]) \in Nat /\ Read(k, s) \in Nat
        BY InputTypes, Zenon
      <4>2. \A n \in Nat : s.spoke < n => s.spoke + 1 \in 1..n
        BY <1>s
      <4> QED BY <3>1, <4>1, <4>2, Zenon
    <3>3. x \in Item /\ x.t = Script[k][s.spoke + 1]
      BY <3>2, ScriptFacts DEF Mark, Item
    <3>4. s.task.f \in Early
      BY <1>i, <1>s, <2>2, <3>1 DEF Handshake, Whole, DialerTask, Early
    <3>5. Read(k, s) <= s.spoke /\ Read(k, t) = Read(k, s)
      BY <1>i, <1>s, <3>1, <3>4 DEF Read, Early, Handshake
    <3>6. Lead(k, t, e) = Lead(k, s, e) + 1 /\ Read(k, s) + Lead(k, t, e) = s.spoke + 1
      BY <2>2, <3>1, <3>5, LeadGrows
    <3>7. s.said[e] = 0 /\ Base(s, e) = 0 /\ Base(t, e) = Base(s, e)
      <4>1. s.said[e] = 0
        BY <1>i, <1>s, <2>2, <3>1 DEF Handshake
      <4>2. Base(s, e) = 0
        BY <1>i, <4>1, InputAsOne, InputSizes
      <4>3. Base(t, e) = Base(s, e)
        BY <3>1, Zenon DEF Base, Skipped
      <4> QED BY <4>1, <4>2, <4>3
    <3>8. Total(s, e) = Lead(k, s, e)
      <4>1. Total(s, e) + Base(s, e) = Lead(k, s, e) + s.said[e]
        BY <1>i, <3>1, InputAsOne DEF Complete
      <4> QED BY <3>7, <4>1, InputSizes
    <3>9. Waiting(k, t, e, x, Total(s, e) + 1)
      <4>1. Total(s, e) + 1 <= Lead(k, t, e) /\ Read(k, t) + (Total(s, e) + 1) = s.spoke + 1
        BY <3>5, <3>6, <3>8, InputSizes
      <4> QED BY <3>3, <4>1, Zenon DEF Waiting
    <3> HIDE DEF x
    <3>10. (Total(s, e) + 1) + Base(s, e) = Lead(k, t, e) + t.said[e] /\ s.said[e] <= t.said[e]
      BY <3>1, <3>6, <3>7, <3>8, InputSizes
    <3> QED BY <1>i, <3>1, <3>3, <3>5, <3>6, <3>7, <3>8, <3>9, <3>10, InputGrows, SMTT(30)
  <2> QED BY <2>1, <2>2
<1>14. ASSUME NEW d \in Dir, Sends(k, s, t, d) PROVE InputOf(k, t, e)
  <2>0. /\ t.task = s.task /\ t.peer = s.peer /\ t.spoke = s.spoke /\ t.lost = s.lost
        /\ t.sent = s.sent /\ t.ahead = s.ahead /\ Read(k, t) = Read(k, s)
        /\ Base(t, e) = Base(s, e) /\ Lead(k, t, e) = Lead(k, s, e)
    BY <1>14, Zenon DEF Sends, Base, Skipped, Read, Lead
  <2>1. CASE e # d
    <3>1. t.sock[e] = s.sock[e] /\ t.said[e] = s.said[e]
      BY <1>s, <1>14, <2>1 DEF Sends
    <3> QED BY <1>0, <2>0, <3>1, Zenon
  <2>2. CASE e = d
    <3> DEFINE x == Byte(s.said[e] + 1)
    <3>1. /\ s.peer[e] = "open" /\ s.task[e] # "over" /\ t.said[e] = s.said[e] + 1
          /\ t.sock[e] = Append(s.sock[e], x)
      BY <1>s, <1>14, <2>2 DEF Sends
    <3>2. x \in Item /\ x.t = "byte" /\ x.n = s.said[e] + 1
      BY InputSizes DEF Byte, Item
    <3> HIDE DEF x
    <3>3. Total(s, e) + Base(s, e) = Lead(k, s, e) + s.said[e] /\ Base(s, e) <= s.said[e]
      BY <1>i, <3>1, InputAsOne DEF Complete
    <3>4. /\ ~(Total(s, e) + 1 <= Lead(k, t, e)) /\ x.n <= t.said[e]
          /\ x.n = Base(t, e) + ((Total(s, e) + 1) - Lead(k, t, e))
          /\ (Total(s, e) + 1) + Base(s, e) = Lead(k, t, e) + t.said[e]
          /\ s.said[e] <= t.said[e]
      <4> DEFINE a == Total(s, e)
                 b == Base(s, e)
                 l == Lead(k, s, e)
                 n == s.said[e]
      <4>1. a \in Nat /\ b \in Nat /\ l \in Nat /\ n \in Nat /\ a + b = l + n /\ b <= n
        BY <3>3, InputSizes, Zenon
      <4> HIDE DEF a, b, l, n
      <4>2. ~(a + 1 <= l) /\ n + 1 <= n + 1 /\ n + 1 = b + ((a + 1) - l)
            /\ (a + 1) + b = l + (n + 1) /\ n <= n + 1
        BY <4>1
      <4> QED BY <2>0, <3>1, <3>2, <4>2, Zenon DEF a, b, l, n
    <3>5. Waiting(k, t, e, x, Total(s, e) + 1)
      BY <3>2, <3>4, Zenon DEF Waiting, Base
    <3> QED BY <1>i, <2>0, <3>1, <3>2, <3>4, <3>5, InputGrows
  <2> QED BY <2>1, <2>2
<1>15. ASSUME NEW d \in Dir, Closes(s, t, d) PROVE InputOf(k, t, e)
  <2>0. /\ t.task = s.task /\ t.said = s.said /\ t.spoke = s.spoke /\ t.lost = s.lost
        /\ t.sent = s.sent /\ t.ahead = s.ahead /\ Read(k, t) = Read(k, s)
        /\ Base(t, e) = Base(s, e) /\ Lead(k, t, e) = Lead(k, s, e)
    BY <1>15, Zenon DEF Closes, Base, Skipped, Read, Lead
  <2>1. CASE e # d
    <3>1. t.sock[e] = s.sock[e] /\ t.peer[e] = s.peer[e]
      BY <1>s, <1>15, <2>1 DEF Closes
    <3> QED BY <1>0, <2>0, <3>1, Zenon
  <2>2. CASE e = d
    <3> DEFINE x == Mark("eof")
    <3>1. /\ s.peer[e] = "open" /\ s.task[e] # "over" /\ t.peer[e] = "closed"
          /\ t.sock[e] = Append(s.sock[e], x)
      BY <1>s, <1>15, <2>2 DEF Closes
    <3>2. x \in Item /\ x.t = "eof"
      BY DEF Mark, Item
    <3> HIDE DEF x
    <3>3. Total(s, e) + Base(s, e) = Lead(k, s, e) + s.said[e] /\ Base(s, e) <= s.said[e]
      BY <1>i, <3>1, InputAsOne DEF Complete
    <3>4. ~(Total(s, e) + 1 <= Lead(k, t, e)) /\ s.said[e] <= t.said[e]
      BY <2>0, <3>3, InputSizes
    <3>5. Total(s, e) + 1 = Held(t, e) + Len(t.sock[e])
      <4>1. Len(t.sock[e]) = Len(s.sock[e]) + 1
        <5>1. s.sock[e] \in Seq(Item)
          BY <1>s
        <5> QED BY <3>1, <3>2, <5>1, AppendFacts
      <4>2. \A a \in Nat, b \in Nat : (a + b) + 1 = a + (b + 1)
        OBVIOUS
      <4>3. Held(t, e) = Held(s, e) /\ Held(s, e) \in Nat /\ Len(s.sock[e]) \in Nat
        BY <2>0, InputTypes, Zenon DEF Held
      <4> QED BY <4>1, <4>2, <4>3, Zenon DEF Total
    <3>6. Waiting(k, t, e, x, Total(s, e) + 1)
      BY <3>1, <3>2, <3>4, <3>5, Zenon DEF Waiting
    <3> QED BY <1>i, <2>0, <3>1, <3>2, <3>4, <3>6, InputGrows, SMTT(30)
  <2> QED BY <2>1, <2>2
<1>16. ASSUME NEW d \in Dir, Aborts(s, t, d) PROVE InputOf(k, t, e)
  <2>0. /\ t.task = s.task /\ t.said = s.said /\ t.spoke = s.spoke /\ t.lost = s.lost
        /\ t.sent = s.sent /\ t.ahead = s.ahead /\ Read(k, t) = Read(k, s)
        /\ Base(t, e) = Base(s, e) /\ Lead(k, t, e) = Lead(k, s, e)
    BY <1>16, Zenon DEF Aborts, Base, Skipped, Read, Lead
  <2>1. CASE e # d
    <3>1. t.sock[e] = s.sock[e] /\ t.peer[e] = s.peer[e]
      BY <1>s, <1>16, <2>1 DEF Aborts
    <3> QED BY <1>0, <2>0, <3>1, Zenon
  <2>2. CASE e = d
    <3>1. t.peer[e] = "reset" /\ Len(t.sock[e]) = 0
      BY <1>s, <1>16, <2>2 DEF Aborts
    <3>2. ASSUME s.task[e] # "over", e = "f", NEW i \in 1..Len(s.ahead)
          PROVE  s.ahead[i].t # "eof" /\ Waiting(k, t, e, s.ahead[i], i)
      BY <1>i, <2>0, <3>2, ZenonT(30) DEF InputOf, Waiting, Base
    <3>3. Skipped(t, e) + t.sent[e] <= t.said[e]
      BY <1>i, <2>0, Zenon DEF InputOf, Skipped
    <3>4. \A i \in 1..Len(t.sock[e]) : Waiting(k, t, e, t.sock[e][i], Held(t, e) + i)
      BY <3>1
    <3> QED BY <2>0, <3>1, <3>2, <3>3, <3>4, Zenon DEF InputOf
  <2> QED BY <2>1, <2>2
<1>17. ASSUME NEW d \in Dir, Finishes(s, t, d) \/ Fails(s, t, d) PROVE InputOf(k, t, e)
  BY <1>12, <1>17 DEF Finishes, Fails
<1>18. e = "f" \/ e = "b"
  OBVIOUS
<1> QED
  BY <1>1, <1>2, <1>3, <1>4, <1>5, <1>6, <1>7, <1>8, <1>9, <1>10, <1>11, <1>13, <1>14, <1>15,
     <1>16, <1>17, <1>18
     DEF PlainStep, TaskStep, CopyingStep, PeersStep, LossStep

-----------------------------------------------------------------------------
(* The invariant of one session, and what the session owes to the stdin.   *)

LEMMA SessionInvKept ==
  ASSUME NEW k \in DOMAIN Script, NEW s \in Session, NEW t \in Session,
         SessionInv(k, s), SessionStep(k, s, t)
  PROVE  SessionInv(k, t)
<1>1. ASSUME NEW a \in Session, NEW b \in Session, SessionInv(k, a), PlainStep(k, a, b)
      PROVE  SessionInv(k, b)
  <2>1. Progress(a) /\ BytesInOrder(a) /\ EndsInOrder(a)
    BY <1>1 DEF SessionInv
  <2>2. Progress(b) /\ EndsInOrder(b)
    BY <1>1, <2>1, ProgressKept, EndsKept
  <2>3. BytesInOrder(b) /\ Handshake(k, b) /\ InputInOrder(k, b)
    BY <1>1, BytesKept, HandshakeKept, InputKept
  <2> QED BY <2>2, <2>3 DEF SessionInv
<1>2. ASSUME NEW u \in Session, Opens(s, u), Fails(u, t, "b")
      PROVE  PlainStep(k, s, u) /\ PlainStep(k, u, t)
  <2>1. "b" \in Dir
    BY DEF Dir
  <2> QED BY <1>2, <2>1, Zenon DEF PlainStep, TaskStep, LossStep
<1> QED BY <1>1, <1>2 DEF SessionStep

\* Once it serves a session, the listener's task only ends.
LEMMA ServesOrEnds ==
  ASSUME NEW k \in DOMAIN Script, NEW s \in Session, NEW t \in Session,
         Progress(s), SessionStep(k, s, t)
  PROVE  /\ s.task["b"] = "over" => t.task["b"] = "over"
         /\ s.task["b"] = "copying" => t.task["b"] \in {"copying", "over"}
<1>s. s.task.f \in DialerTask /\ s.task.b \in ListenerTask
  BY Fields
<1>1. CASE TaskStep(k, s, t)
  BY <1>s, <1>1 DEF TaskStep, Advances, ReadsSocks, Fills, ReadsLine, ReadsHeaders, Opens,
                    Requests, Replies, Starts, ReadsRequest, Attaches, TasksAt, Progress, Early
<1>2. CASE CopyingStep(s, t)
  BY <1>s, <1>2 DEF CopyingStep, Takes, TakesEnd, Gives, GivesEnd, Finishes, Returns, Dir, Opp
<1>3. CASE PeersStep(k, s, t)
  BY <1>3 DEF PeersStep, Speaks, Sends, Closes, Aborts
<1>4. CASE LossStep(s, t)
  BY <1>4 DEF LossStep, Loses, Fails, Returns, Dir, Opp
<1>5. ASSUME NEW u \in Session, Opens(s, u), Fails(u, t, "b")
      PROVE  s.task["b"] = "none"
  BY <1>s, <1>5 DEF Opens, Progress, Early
<1> QED BY <1>1, <1>2, <1>3, <1>4, <1>5 DEF SessionStep, PlainStep

-----------------------------------------------------------------------------
(* The listener's stdin.                                                   *)

\* Where y stands in q; an item more is one more of itself.
Places(q, y) == {i \in 1..Len(q) : q[i] = y}

LEMMA OneLineMore ==
  ASSUME NEW S, NEW q \in Seq(S), NEW x \in S, NEW y
  PROVE  /\ Cardinality(Places(Append(q, x), y))
              = Cardinality(Places(q, y)) + (IF x = y THEN 1 ELSE 0)
         /\ Cardinality(Places(q, y)) \in Nat
<1> DEFINE p == Append(q, x)
           T == Places(q, y)
           U == Places(p, y)
<1>1. /\ Len(p) = Len(q) + 1 /\ Len(q) \in Nat /\ p[Len(q) + 1] = x
      /\ \A i \in 1..Len(q) : p[i] = q[i]
  BY AppendFacts
<1>2. IsFiniteSet(T)
  <2>1. IsFiniteSet(1..Len(q))
    BY <1>1, FS_Interval
  <2>2. T \subseteq 1..Len(q)
    BY DEF Places
  <2> QED BY <2>1, <2>2, FS_Subset
<1>3. U = IF x = y THEN T \cup {Len(q) + 1} ELSE T
  <2> HIDE DEF p
  <2>1. 1..Len(p) = (1..Len(q)) \cup {Len(q) + 1}
    BY <1>1
  <2> QED BY <1>1, <2>1, Zenon DEF Places
<1>4. Len(q) + 1 \notin T
  BY <1>1 DEF Places
<1> HIDE DEF T, U, p
<1>5. Cardinality(T \cup {Len(q) + 1}) = Cardinality(T) + 1 /\ Cardinality(T) \in Nat
  BY <1>2, <1>4, FS_AddElement, FS_CardinalityType
<1>6. Cardinality(U) = Cardinality(T) + (IF x = y THEN 1 ELSE 0)
  BY <1>3, <1>5
<1> QED BY <1>5, <1>6 DEF T, U, p

\* What is over stays over.
LEMMA GoneGrows ==
  ASSUME Gone \subseteq Gone', NEW n \in Nat, n <= Cardinality(Gone)
  PROVE  n <= Cardinality(Gone')
<1>1. IsFiniteSet(Gone')
  <2>1. Gone' \subseteq Client
    BY DEF Gone
  <2> QED BY <2>1, FS_Subset, SessionsAssumption
<1>2. IsFiniteSet(Gone) /\ Cardinality(Gone) <= Cardinality(Gone')
  BY <1>1, FS_Subset
<1>3. Cardinality(Gone) \in Nat /\ Cardinality(Gone') \in Nat
  BY <1>1, <1>2, FS_CardinalityType
<1> QED BY <1>2, <1>3

LEMMA LinesCounted == ASSUME TypeOK, NEW x PROVE Cardinality(Lines(x)) \in Nat
<1>1. IsFiniteSet(1..Len(typed)) /\ Lines(x) \subseteq 1..Len(typed)
  BY FS_Interval DEF TypeOK, Lines
<1> QED BY <1>1, FS_Subset, FS_CardinalityType

\* Everything but the sessions themselves keeps its type.
LEMMA VariablesKept ==
  ASSUME TypeOK, [Next]_vars
  PROVE  /\ kind' = kind /\ allowed' = allowed
         /\ running' \subseteq Client \cup {Forwarder, Listener}
         /\ typed' \in Seq(Client \cup {Nobody}) /\ pending' \subseteq Client
         /\ faults' \in Nat /\ ses' = [x \in Client |-> ses'[x]]
<1>1. ASSUME NEW c \in Client, Quiet(c)
      PROVE  /\ UNCHANGED <<kind, allowed, running, typed, pending, faults>>
             /\ ses' = [x \in Client |-> ses'[x]]
  BY <1>1, QuietPuts
<1>2. ASSUME NEW c \in Client, ReadRequest(c)
      PROVE  /\ UNCHANGED <<kind, allowed, running, typed, faults>>
             /\ ses' = [x \in Client |-> ses'[x]] /\ pending' \subseteq Client
  <2>1. UNCHANGED <<kind, allowed, running, typed, faults>> /\ \E t : ses' = [ses EXCEPT ![c] = t]
    BY <1>2, Zenon DEF ReadRequest, Put
  <2>2. pending' \subseteq Client
    BY <1>2, ReadRequestPuts DEF TypeOK
  <2> QED BY <2>1, <2>2 DEF TypeOK
<1>3. ASSUME NEW c \in Client, TypeLine(c)
      PROVE  /\ UNCHANGED <<kind, allowed, running, faults>> /\ pending' \subseteq Client
             /\ ses' = [x \in Client |-> ses'[x]] /\ typed' \in Seq(Client \cup {Nobody})
  <2>1. /\ UNCHANGED <<kind, allowed, running, faults>>
        /\ ses' = ses \/ \E t : ses' = [ses EXCEPT ![c] = t]
    BY <1>3, Zenon DEF TypeLine
  <2>2. ses' = [x \in Client |-> ses'[x]]
    BY <2>1 DEF TypeOK
  <2>3. \E y \in Client \cup {Nobody} : typed' = Append(typed, y)
    BY <1>3, TypeLineDoes, Zenon
  <2>4. typed' \in Seq(Client \cup {Nobody})
    BY <2>3 DEF TypeOK
  <2> QED BY <1>3, <2>1, <2>2, <2>4, TypeLineDoes DEF TypeOK
<1>4. CASE StdinEnds
  <2>1. /\ UNCHANGED <<kind, allowed, running, typed, faults>> /\ pending' = {}
        /\ ses' = [x \in Client |-> ses'[x]]
    BY <1>4 DEF StdinEnds
  <2> QED BY <2>1 DEF TypeOK
<1>5. ASSUME NEW p, LoseConnection(p)
      PROVE  /\ UNCHANGED <<kind, allowed, running, typed, pending>> /\ faults' = faults + 1
             /\ ses' = [x \in Client |-> ses'[x]]
  BY <1>5 DEF LoseConnection
<1>6. ASSUME NEW p, ProcessStops(p)
      PROVE  /\ UNCHANGED <<kind, allowed, typed>> /\ faults' = faults + 1
             /\ running' \subseteq running /\ pending' \subseteq pending
             /\ ses' = [x \in Client |-> ses'[x]]
  BY <1>6 DEF ProcessStops
<1>7. CASE UNCHANGED vars
  BY <1>7 DEF vars, TypeOK
<1>8. faults \in Nat => faults + 1 \in Nat
  OBVIOUS
<1>9. CASE \/ \E c \in Client : Quiet(c) \/ ReadRequest(c) \/ TypeLine(c)
           \/ \E p : LoseConnection(p) \/ ProcessStops(p)
  BY <1>1, <1>2, <1>3, <1>5, <1>6, <1>8, <1>9 DEF TypeOK
<1> QED
  BY <1>4, <1>7, <1>9 DEF Next, Quiet, ListenerStep, PeerStep

LEMMA StepFacts ==
  ASSUME IInv, [Next]_vars, NEW x \in Client
  PROVE  /\ kind' = kind /\ kind[x] \in DOMAIN Script /\ ses[x] \in Session /\ ses'[x] \in Session
         /\ SessionInv(kind[x], ses'[x])
         /\ ses[x].task["b"] = "over" => ses'[x].task["b"] = "over"
         /\ ses[x].task["b"] = "copying" => ses'[x].task["b"] \in {"copying", "over"}
<1>1. /\ kind' = kind /\ ses'[x] \in Session /\ ses[x] \in Session
      /\ ses'[x] = ses[x] \/ SessionStep(kind[x], ses[x], ses'[x])
  BY Steps, Typed DEF IInv
<1>2. kind[x] \in DOMAIN Script
  BY SessionsAssumption DEF IInv, TypeOK
<1>3. SessionInv(kind[x], ses[x]) /\ Progress(ses[x])
  BY DEF IInv, SessionInv
<1>4. CASE ses'[x] = ses[x]
  BY <1>1, <1>2, <1>3, <1>4
<1>5. CASE SessionStep(kind[x], ses[x], ses'[x])
  <2>1. SessionInv(kind[x], ses'[x])
    BY <1>1, <1>2, <1>3, <1>5, SessionInvKept
  <2>2. /\ ses[x].task["b"] = "over" => ses'[x].task["b"] = "over"
        /\ ses[x].task["b"] = "copying" => ses'[x].task["b"] \in {"copying", "over"}
    BY <1>1, <1>2, <1>3, <1>5, ServesOrEnds
  <2> QED BY <1>1, <1>2, <2>1, <2>2
<1> QED BY <1>1, <1>4, <1>5

LEMMA StdinKept ==
  ASSUME IInv, [Next]_vars
  PROVE  Stdin'
<1> USE DEF IInv
<1>k. TypeOK /\ Stdin /\ kind' = kind
  BY VariablesKept
<1>n. /\ Cardinality(Lines(Nobody)) <= Cardinality(Gone)
      /\ Cardinality(Lines(Nobody)) \in Nat
  BY <1>k, LinesCounted DEF Stdin
<1>s. ASSUME NEW x \in Client
      PROVE  /\ ses[x] \in Session /\ ses'[x] \in Session
             /\ ses[x].task["b"] = "over" => ses'[x].task["b"] = "over"
             /\ ses[x].task["b"] = "copying" => ses'[x].task["b"] \in {"copying", "over"}
  BY StepFacts
<1>1. ASSUME typed' = typed, pending' \subseteq pending,
             \A x \in Client : kind[x] = "netcat" => SameStdin(ses[x], ses'[x])
      PROVE  Stdin'
  <2>1. Gone \subseteq Gone'
    BY <1>k, <1>s, <1>1 DEF Gone
  <2>2. Lines(Nobody)' = Lines(Nobody) /\ \A x \in Client : Lines(x)' = Lines(x)
    BY <1>1 DEF Lines
  <2>3. Cardinality(Lines(Nobody)') <= Cardinality(Gone')
    BY <1>n, <2>1, <2>2, GoneGrows
  <2>4. ASSUME NEW c \in pending'
        PROVE  /\ kind'[c] = "netcat" /\ ses'[c].task.b \in {"copying", "over"}
               /\ ses'[c].task.b = "copying" => ses'[c].peer.b = "open"
    BY <1>k, <1>s, <1>1, <2>4 DEF Stdin, SameStdin, TypeOK
  <2>5. ASSUME NEW c \in Client, kind'[c] = "netcat"
        PROVE  /\ ses'[c].peer.b = "open" \/ ses'[c].task.b \in {"copying", "over"}
               /\ ses'[c].said.b = Cardinality(Lines(c)')
    BY <1>k, <1>s, <1>1, <2>2, <2>5 DEF Stdin, SameStdin
  <2> QED BY <2>3, <2>4, <2>5 DEF Stdin
<1>2. ASSUME NEW c \in Client, Quiet(c) PROVE Stdin'
  BY <1>1, <1>2, QuietPuts, QuietDoes DEF SameStdin
<1>3. ASSUME NEW c \in Client, ReadRequest(c) PROVE Stdin'
  <2>1. /\ \A x \in Client \ {c} : ses'[x] = ses[x]
        /\ typed' = typed
        /\ pending' = IF kind[c] = "netcat" THEN pending \cup {c} ELSE pending
    BY <1>k, <1>3, ReadRequestPuts
  <2>2. ReadsRequest(kind[c], ses[c], ses'[c])
    BY <1>k, <1>3, ReadRequestDoes
  <2>3. SameStdin(ses[c], ses'[c])
    BY <2>2 DEF ReadsRequest, SameApp, SameStdin
  <2>4. CASE kind[c] # "netcat"
    BY <1>1, <2>1, <2>4 DEF SameStdin
  <2>5. CASE kind[c] = "netcat"
    <3>1. /\ ses[c].task["b"] = "reading" /\ ses'[c].task["b"] = "copying"
          /\ ses'[c].peer["b"] = "open" /\ ses'[c].said["b"] = ses[c].said["b"]
          /\ pending' = pending \cup {c}
      BY <1>k, <2>1, <2>2, <2>3, <2>5 DEF ReadsRequest, TasksAt, SameStdin, Stdin
    <3>2. Gone \subseteq Gone'
      BY <1>k, <1>s, <3>1 DEF Gone
    <3>3. Lines(Nobody)' = Lines(Nobody) /\ \A x \in Client : Lines(x)' = Lines(x)
      BY <2>1 DEF Lines
    <3>4. Cardinality(Lines(Nobody)') <= Cardinality(Gone')
      BY <1>n, <3>2, <3>3, GoneGrows
    <3>5. ASSUME NEW x \in pending'
          PROVE  /\ kind'[x] = "netcat" /\ ses'[x].task.b \in {"copying", "over"}
                 /\ ses'[x].task.b = "copying" => ses'[x].peer.b = "open"
      BY <1>k, <2>1, <2>5, <3>1, <3>5 DEF Stdin, TypeOK
    <3>6. ASSUME NEW x \in Client, kind'[x] = "netcat"
          PROVE  /\ ses'[x].peer.b = "open" \/ ses'[x].task.b \in {"copying", "over"}
                 /\ ses'[x].said.b = Cardinality(Lines(x)')
      BY <1>k, <2>1, <3>1, <3>3, <3>6 DEF Stdin
    <3> QED BY <3>4, <3>5, <3>6 DEF Stdin
  <2> QED BY <2>4, <2>5
<1>4. ASSUME NEW c \in Client, TypeLine(c) PROVE Stdin'
  <2>0. /\ c \in pending /\ \A x \in Client \ {c} : ses'[x] = ses[x]
        /\ \/ /\ ses[c].task.b = "copying" /\ ses'[c] = OneMore(ses[c], "b")
              /\ typed' = Append(typed, c) /\ pending' = pending
           \/ /\ ses[c].task.b # "copying" /\ ses'[c] = ses[c]
              /\ typed' = Append(typed, Nobody) /\ pending' = pending \ {c}
    BY <1>k, <1>4, TypeLineDoes
  <2>n. /\ kind[c] = "netcat" /\ ses[c].task.b \in {"copying", "over"}
        /\ \A x \in Client : x # Nobody
    BY <1>k, <2>0, SessionsAssumption DEF Stdin
  <2>l. ASSUME NEW y \in Client \cup {Nobody}, typed' = Append(typed, y), NEW x
        PROVE  /\ Cardinality(Lines(x)') = Cardinality(Lines(x)) + (IF y = x THEN 1 ELSE 0)
               /\ Cardinality(Lines(x)) \in Nat
    <3>1. typed \in Seq(Client \cup {Nobody})
      BY <1>k DEF TypeOK
    <3>2. Lines(x)' = Places(Append(typed, y), x) /\ Lines(x) = Places(typed, x)
      BY <2>l, Zenon DEF Lines, Places
    <3>3. /\ Cardinality(Places(Append(typed, y), x))
               = Cardinality(Places(typed, x)) + (IF y = x THEN 1 ELSE 0)
          /\ Cardinality(Places(typed, x)) \in Nat
      BY <2>l, <3>1, OneLineMore
    <3> QED BY <3>2, <3>3, Zenon
  <2>1. CASE /\ ses[c].task.b = "copying" /\ ses'[c] = OneMore(ses[c], "b")
             /\ typed' = Append(typed, c) /\ pending' = pending
    <3>1. /\ ses'[c].said["b"] = ses[c].said["b"] + 1 /\ ses'[c].task = ses[c].task
          /\ ses'[c].peer = ses[c].peer
      <4>1. "b" \in Dir /\ ses[c] \in Session /\ ses[c].said \in [Dir -> Nat]
        BY <1>s, Fields DEF Dir
      <4> DEFINE s == ses[c]
                 t == ses'[c]
      <4>2. t = OneMore(s, "b") /\ s \in Session /\ "b" \in Dir
        BY <2>1, <4>1
      <4> HIDE DEF s, t
      <4>3. /\ t \in Session /\ t.said = [s.said EXCEPT !["b"] = s.said["b"] + 1]
            /\ t.sock = [s.sock EXCEPT !["b"] = Append(s.sock["b"], Byte(s.said["b"] + 1))]
            /\ t.task = s.task /\ t.peer = s.peer /\ t.spoke = s.spoke
            /\ t.ahead = s.ahead /\ t.lost = s.lost
            /\ SameReply(s, t) /\ SameStream(s, t) /\ SameEnds(s, t)
        BY <4>2, ByteDoes
      <4> QED BY <4>1, <4>3 DEF s, t
    <3>2. \A x \in Client : ses'[x].task = ses[x].task /\ ses'[x].peer = ses[x].peer
      BY <2>0, <3>1
    <3>3. Gone' = Gone
      BY <1>k, <2>1, <3>2 DEF Gone
    <3>4. Cardinality(Lines(Nobody)') <= Cardinality(Gone')
      <4>1. Cardinality(Lines(Nobody)') = Cardinality(Lines(Nobody)) + 0
        BY <2>1, <2>l, <2>n
      <4>2. Cardinality(Lines(Nobody)) + 0 = Cardinality(Lines(Nobody))
        BY <2>1, <2>l
      <4> QED BY <1>k, <3>3, <4>1, <4>2, Zenon DEF Stdin
    <3>5. ASSUME NEW x \in Client, kind[x] = "netcat"
          PROVE  ses'[x].said.b = Cardinality(Lines(x)')
      <4>1. ses[x].said.b = Cardinality(Lines(x))
        BY <1>k, <3>5 DEF Stdin
      <4>2. /\ Cardinality(Lines(x)') = Cardinality(Lines(x)) + (IF c = x THEN 1 ELSE 0)
            /\ Cardinality(Lines(x)) \in Nat
        BY <2>1, <2>l
      <4>3. CASE x = c
        BY <3>1, <4>1, <4>2, <4>3
      <4>4. CASE x # c
        BY <2>0, <4>1, <4>2, <4>4
      <4> QED BY <4>3, <4>4
    <3> QED BY <1>k, <2>1, <3>2, <3>4, <3>5, Zenon DEF Stdin, TypeOK
  <2>2. CASE /\ ses[c].task.b # "copying" /\ ses'[c] = ses[c]
             /\ typed' = Append(typed, Nobody) /\ pending' = pending \ {c}
    <3>1. \A x \in Client : ses'[x] = ses[x]
      BY <2>0, <2>2
    <3>2. Gone' = Gone \cup {c} /\ c \notin Gone
      BY <1>k, <2>0, <2>2, <2>n, <3>1 DEF Gone
    <3>3. Cardinality(Gone') = Cardinality(Gone) + 1 /\ Cardinality(Gone) \in Nat
      <4>1. IsFiniteSet(Gone)
        <5>1. Gone \subseteq Client
          BY DEF Gone
        <5> QED BY <5>1, FS_Subset, SessionsAssumption
      <4> QED BY <3>2, <4>1, FS_AddElement, FS_CardinalityType
    <3>4. Cardinality(Lines(Nobody)') <= Cardinality(Gone')
      <4>1. /\ Cardinality(Lines(Nobody)') = Cardinality(Lines(Nobody)) + 1
            /\ Cardinality(Lines(Nobody)) \in Nat
        BY <2>2, <2>l
      <4>2. Cardinality(Lines(Nobody)) <= Cardinality(Gone)
        BY <1>k DEF Stdin
      <4> QED BY <3>3, <4>1, <4>2
    <3>5. ASSUME NEW x \in Client PROVE Cardinality(Lines(x)') = Cardinality(Lines(x))
      BY <2>2, <2>l, <2>n
    <3> QED BY <1>k, <2>2, <3>1, <3>4, <3>5, Zenon DEF Stdin, TypeOK
  <2> QED BY <2>0, <2>1, <2>2
<1>5. CASE StdinEnds
  <2>1. ASSUME NEW x \in Client
        PROVE  /\ typed' = typed /\ pending' = {}
               /\ ~Reads(x) => ses'[x] = ses[x]
               /\ Reads(x) => ses'[x] = Stopped(ses[x], "b", "closed",
                                                Append(ses[x].sock.b, Mark("eof")))
    BY <1>k, <1>5, StdinEndsDoes
  <2>2. ASSUME NEW x \in Client
        PROVE  /\ ses'[x].said = ses[x].said /\ ses'[x].task = ses[x].task
               /\ ~Reads(x) => ses'[x] = ses[x]
    <3>1. CASE Reads(x)
      <4> DEFINE q == Append(ses[x].sock.b, Mark("eof"))
      <4>1. /\ "b" \in Dir /\ ses[x] \in Session /\ q \in Seq(Item) /\ "closed" \in Ended
        <5>1. ses[x] \in Session
          BY <1>s
        <5> QED BY <5>1, Fields DEF Dir, Mark, Item, Ended
      <4>2. ses'[x] = Stopped(ses[x], "b", "closed", q)
        BY <2>1, <3>1
      <4> DEFINE s == ses[x]
                 t == ses'[x]
      <4>3. t = Stopped(s, "b", "closed", q) /\ s \in Session
        BY <4>1, <4>2
      <4> HIDE DEF q, s, t
      <4>4. /\ t \in Session /\ t.peer = [s.peer EXCEPT !["b"] = "closed"]
            /\ t.sock = [s.sock EXCEPT !["b"] = q]
            /\ t.task = s.task /\ t.spoke = s.spoke /\ t.said = s.said
            /\ t.ahead = s.ahead /\ t.lost = s.lost
            /\ SameReply(s, t) /\ SameStream(s, t) /\ SameEnds(s, t)
        BY <4>1, <4>3, EofDoes
      <4> QED BY <3>1, <4>4 DEF s, t
    <3>2. CASE ~Reads(x)
      BY <2>1, <3>2
    <3> QED BY <3>1, <3>2
  <2>3. typed' = typed /\ pending' = {}
    BY <1>5 DEF StdinEnds
  <2>4. Gone \subseteq Gone'
    BY <1>k, <2>2, <2>3 DEF Gone
  <2>5. Lines(Nobody)' = Lines(Nobody) /\ \A x \in Client : Lines(x)' = Lines(x)
    BY <2>3 DEF Lines
  <2>6. Cardinality(Lines(Nobody)') <= Cardinality(Gone')
    BY <1>n, <2>4, <2>5, GoneGrows
  <2>7. ASSUME NEW x \in Client, kind'[x] = "netcat"
        PROVE  /\ ses'[x].peer.b = "open" \/ ses'[x].task.b \in {"copying", "over"}
               /\ ses'[x].said.b = Cardinality(Lines(x)')
    <3>1. Reads(x) => ses[x].task.b = "copying"
      BY DEF Reads
    <3> QED BY <1>k, <2>2, <2>5, <2>7, <3>1 DEF Stdin
  <2> QED BY <2>3, <2>6, <2>7 DEF Stdin
<1>6. ASSUME NEW p, LoseConnection(p) PROVE Stdin'
  <2>1. ASSUME NEW x \in Client
        PROVE  typed' = typed /\ pending' = pending /\ SameStdin(ses[x], ses'[x])
    BY <1>k, <1>6, LoseDoes DEF Loses, SameApp, SameStdin
  <2>2. typed' = typed /\ pending' = pending
    BY <1>6 DEF LoseConnection
  <2> QED BY <1>1, <2>1, <2>2
<1>7. ASSUME NEW p, ProcessStops(p) PROVE Stdin'
  <2>1. ASSUME NEW x \in Client PROVE SameStdin(ses[x], ses'[x])
    BY <1>k, <1>7, StopDoes DEF Fails, Returns, SameApp, SameStdin
  <2>2. typed' = typed /\ pending' \subseteq pending
    BY <1>7 DEF ProcessStops
  <2> QED BY <1>1, <2>1, <2>2
<1>8. CASE UNCHANGED vars
  BY <1>1, <1>8 DEF vars, SameStdin
<1> QED
  BY <1>2, <1>3, <1>4, <1>5, <1>6, <1>7, <1>8 DEF Next, Quiet, ListenerStep, PeerStep

-----------------------------------------------------------------------------
(* The invariant.                                                          *)

LEMMA IdleFits ==
  ASSUME NEW k \in DOMAIN Script
  PROVE  Idle \in Session /\ SessionInv(k, Idle)
<1> USE DEF Idle, Both, Dir
<1>1. Idle \in Session
  BY DEF Session, DialerTask, ListenerTask, Item
<1>2. Len(Script[k]) \in Nat /\ Read(k, Idle) = 0
  BY DEF Script, Read
<1>3. ASSUME NEW d \in Dir PROVE InputOf(k, Idle, d)
  <2>1. Lead(k, Idle, d) = 0 /\ Held(Idle, d) = 0 /\ Skipped(Idle, d) = 0
    BY <1>2 DEF Lead, Held, Skipped
  <2> QED BY <2>1 DEF InputOf
<1>4. Handshake(k, Idle)
  BY <1>2 DEF Handshake, Early
<1>5. Progress(Idle)
  BY DEF Progress, Early
<1>6. ASSUME NEW d \in Dir PROVE BytesOf(Idle, d)
  BY DEF BytesOf, Header
<1>7. EndsInOrder(Idle)
  BY DEF EndsInOrder
<1> QED BY <1>1, <1>3, <1>4, <1>5, <1>6, <1>7 DEF SessionInv, InputInOrder, BytesInOrder

(***************************************************************************)
(* IInv holds at the start and every step keeps it.                        *)
(***************************************************************************)
THEOREM Inductive == Spec => []IInv
<1>1. Init => IInv
  <2> SUFFICES ASSUME Init PROVE IInv
    OBVIOUS
  <2>1. kind \in [Client -> DOMAIN Script]
    BY SessionsAssumption DEF Init
  <2>2. ASSUME NEW c \in Client
        PROVE  ses[c] = Idle /\ Idle \in Session /\ SessionInv(kind[c], ses[c])
    BY <2>1, <2>2, IdleFits DEF Init
  <2>3. TypeOK
    BY <2>2 DEF Init, TypeOK
  <2>4. Lines(Nobody) = {} /\ \A c \in Client : Lines(c) = {}
    BY DEF Init, Lines
  <2>5. Cardinality({}) = 0
    BY FS_EmptySet
  <2>6. Cardinality(Gone) \in Nat
    <3>1. Gone \subseteq Client
      BY DEF Gone
    <3> QED BY <3>1, FS_Subset, FS_CardinalityType, SessionsAssumption
  <2>7. \A c \in Client : ses[c].peer.b = "open" /\ ses[c].said.b = 0
    BY <2>2 DEF Idle, Both, Dir
  <2>8. Stdin
    <3>1. 0 <= Cardinality(Gone)
      BY <2>6
    <3>2. \A c \in Client : ses[c].said.b = Cardinality(Lines(c))
      BY <2>4, <2>5, <2>7, Zenon
    <3>3. Cardinality(Lines(Nobody)) <= Cardinality(Gone)
      BY <2>4, <2>5, <3>1, Zenon
    <3>4. pending = {}
      BY DEF Init
    <3> QED BY <2>7, <3>2, <3>3, <3>4, Zenon DEF Stdin
  <2> QED BY <2>2, <2>3, <2>8 DEF IInv
<1>2. IInv /\ [Next]_vars => IInv'
  <2> SUFFICES ASSUME IInv, [Next]_vars PROVE IInv'
    OBVIOUS
  <2>1. /\ kind' = kind /\ allowed' = allowed
        /\ running' \subseteq Client \cup {Forwarder, Listener}
        /\ typed' \in Seq(Client \cup {Nobody}) /\ pending' \subseteq Client
        /\ faults' \in Nat /\ ses' = [x \in Client |-> ses'[x]]
    BY VariablesKept DEF IInv
  <2>2. \A x \in Client : ses'[x] \in Session /\ SessionInv(kind[x], ses'[x])
    BY StepFacts
  <2>3. ses' \in [Client -> Session]
    BY <2>1, <2>2
  <2>4. TypeOK'
    BY <2>1, <2>3 DEF IInv, TypeOK
  <2> QED BY <2>1, <2>2, <2>4, StdinKept DEF IInv
<1> QED BY <1>1, <1>2, PTL DEF Spec

(***************************************************************************)
(* Types of the variables.                                                 *)
(***************************************************************************)
THEOREM TypeCorrect == Spec => []TypeOK
<1>1. IInv => TypeOK
  BY DEF IInv
<1> QED BY <1>1, Inductive, PTL

(***************************************************************************)
(* What a target gets is what its application sent, in order and without a *)
(* gap, but for bytes that an HTTP client sent before it was told of       *)
(* success and that stood in the reader that is dropped then.              *)
(***************************************************************************)
THEOREM EarlyBytes == Spec => []OnlyEarlyBytesLost
<1>1. IInv => OnlyEarlyBytesLost
  <2> SUFFICES ASSUME IInv, NEW c \in Client
               PROVE  LET s == ses[c]
                      IN  /\ \A i \in 1..Len(s.got.f) : s.got.f[i] = s.lost + i
                          /\ s.lost > 0 => kind[c] = "http"
                          /\ s.replied => s.lost <= s.early
    BY DEF OnlyEarlyBytesLost
  <2> DEFINE s == ses[c]
  <2>1. BytesOf(s, "f") /\ Handshake(kind[c], s)
    BY DEF IInv, SessionInv, BytesInOrder, Dir
  <2> HIDE DEF s
  <2>2. \A i \in 1..Len(s.got["f"]) : s.got["f"][i] = s.lost + i
    BY <2>1, Zenon DEF BytesOf, Skipped
  <2>3. /\ s.lost > 0 => kind[c] = "http"
        /\ s.replied => s.lost <= s.early
    BY <2>1 DEF Handshake
  <2> QED BY <2>2, <2>3 DEF s
<1> QED BY <1>1, Inductive, PTL

(***************************************************************************)
(* The listener gets a stream only for a request that may be served and    *)
(* was sent whole, or that an HTTP client ended within its headers.        *)
(***************************************************************************)
THEOREM WholeRequests == Spec => []OnlyWholeRequests
<1>1. IInv => OnlyWholeRequests
  BY DEF IInv, SessionInv, Handshake, Whole, OnlyWholeRequests
<1> QED BY <1>1, Inductive, PTL

(***************************************************************************)
(* A line typed at the listener goes to one session, which gets no more    *)
(* than it took; and a netcat session that is over drops at most one.      *)
(***************************************************************************)
THEOREM FewLinesLost == Spec => []TypingLost
<1>1. IInv => TypingLost
  <2> SUFFICES ASSUME IInv PROVE TypingLost
    OBVIOUS
  <2> DEFINE Over2 == {c \in Client : kind[c] = "netcat" /\ ses[c].task.b = "over"}
  <2>1. TypeOK /\ Stdin
    BY DEF IInv
  <2>2. IsFiniteSet(Over2) /\ Gone \subseteq Over2
    <3>1. Over2 \subseteq Client /\ Gone \subseteq Over2
      BY DEF Gone
    <3> HIDE DEF Over2
    <3> QED BY <3>1, FS_Subset, SessionsAssumption
  <2> HIDE DEF Over2
  <2>3. /\ Cardinality(Gone) <= Cardinality(Over2)
        /\ Cardinality(Gone) \in Nat /\ Cardinality(Over2) \in Nat
    BY <2>2, FS_Subset, FS_CardinalityType
  <2>4. Cardinality(Lines(Nobody)) <= Cardinality(Gone)
    BY <2>1 DEF Stdin
  <2>5. Cardinality(Lines(Nobody)) <= Cardinality(Over2)
    BY <2>1, <2>3, <2>4, LinesCounted
  <2>6. ASSUME NEW c \in Client, kind[c] = "netcat"
        PROVE  Len(ses[c].got.b) <= Cardinality(Lines(c))
    <3> DEFINE s == ses[c]
    <3>1. /\ BytesOf(s, "b") /\ InputOf(kind[c], s, "b")
          /\ s \in Session /\ s.said["b"] = Cardinality(Lines(c))
      BY <2>1, <2>6, Typed DEF IInv, SessionInv, BytesInOrder, InputInOrder, Dir, Stdin
    <3> HIDE DEF s
    <3>2. /\ s.said["b"] \in Nat /\ s.sent["b"] \in Nat /\ Len(s.got["b"]) \in Nat
      BY <3>1, Fields DEF Dir
    <3>3. Len(s.got["b"]) <= s.sent["b"] /\ 0 + s.sent["b"] <= s.said["b"]
      BY <3>1, Zenon DEF BytesOf, InputOf, Skipped
    <3>4. Len(s.got["b"]) <= s.said["b"]
      BY <3>2, <3>3
    <3> QED BY <3>1, <3>4, Zenon DEF s
  <2>7. Lines(Nobody) = {i \in 1..Len(typed) : typed[i] = Nobody}
        /\ \A c \in Client : Lines(c) = {i \in 1..Len(typed) : typed[i] = c}
    BY DEF Lines
  <2> QED BY <2>5, <2>6, <2>7, Zenon DEF TypingLost, Over2
<1> QED BY <1>1, Inductive, PTL

-----------------------------------------------------------------------------
(* The refinement: what a step of a session is for TunnelPipe.             *)

Numbers(n) == [i \in 1..n |-> i]

LEMMA NumbersFacts ==
  ASSUME NEW n \in Nat
  PROVE  Len(Numbers(n)) = n /\ Append(Numbers(n), n + 1) = Numbers(n + 1)
<1>1. Numbers(n) \in Seq(Nat) /\ Len(Numbers(n)) = n
  BY DEF Numbers
<1>2. Append(Numbers(n), n + 1) = Numbers(n + 1)
  BY <1>1 DEF Numbers
<1> QED BY <1>1, <1>2

\* The bytes given, as TunnelPipe counts them; by the invariant, 1, 2, ...
RecvOf(s) == [s.got EXCEPT !.f = [i \in 1..Len(@) |-> @[i] - s.lost]]

LEMMA RecvCounts ==
  ASSUME NEW s \in Session, BytesInOrder(s)
  PROVE  RecvOf(s) = [d \in Dir |-> Numbers(Len(s.got[d]))]
<1>1. /\ s.got \in [Dir -> Seq(Nat)] /\ s.lost \in Nat /\ "f" \in Dir /\ "b" \in Dir
      /\ BytesOf(s, "f") /\ BytesOf(s, "b")
  BY Fields DEF Dir, BytesInOrder
<1>2. RecvOf(s) = [s.got EXCEPT !["f"] = [i \in 1..Len(s.got["f"]) |-> s.got["f"][i] - s.lost]]
  BY Zenon DEF RecvOf
<1>3. [i \in 1..Len(s.got["f"]) |-> s.got["f"][i] - s.lost] = Numbers(Len(s.got["f"]))
  <2>1. ASSUME NEW i \in 1..Len(s.got["f"]) PROVE s.got["f"][i] - s.lost = i
    <3>1. s.got["f"][i] = s.lost + i
      BY <1>1, Zenon DEF BytesOf, Skipped
    <3> QED BY <1>1, <3>1
  <2> QED BY <2>1, Zenon DEF Numbers
<1>4. s.got["b"] = Numbers(Len(s.got["b"]))
  <2>1. ASSUME NEW i \in 1..Len(s.got["b"]) PROVE s.got["b"][i] = i
    <3>1. s.got["b"][i] = 0 + i
      BY <1>1, Zenon DEF BytesOf, Skipped
    <3> QED BY <3>1
  <2>2. s.got["b"] \in Seq(Nat)
    BY <1>1
  <2> QED BY <2>1, <2>2, SMTT(30) DEF Numbers
<1> DEFINE m == [i \in 1..Len(s.got["f"]) |-> s.got["f"][i] - s.lost]
           r == [d \in Dir |-> Numbers(Len(s.got[d]))]
<1>5. [s.got EXCEPT !["f"] = m] = r
  <2>1. m = r["f"] /\ s.got["b"] = r["b"]
    BY <1>1, <1>3, <1>4
  <2> HIDE DEF m
  <2> QED BY <1>1, <2>1 DEF Dir
<1> QED BY <1>2, <1>5

\* TunnelPipe's steps, of a session s that becomes t.
SamePipe(s, t) ==
  /\ t.phase = s.phase /\ t.sent = s.sent /\ RecvOf(t) = RecvOf(s)
  /\ t.shut = s.shut /\ t.told = s.told /\ t.failed = s.failed
PipeSets(s, t) ==
  /\ \/ s.phase = "setup" /\ t.phase = "requested"
     \/ s.phase = "requested" /\ t.phase = "attached"
  /\ t.sent = s.sent /\ RecvOf(t) = RecvOf(s)
  /\ t.shut = s.shut /\ t.told = s.told /\ t.failed = s.failed
PipeSends(s, t, d) ==
  /\ s.phase \in (IF d = "f" THEN {"requested", "attached"} ELSE {"attached"}) /\ ~s.shut[d]
  /\ t.sent = [s.sent EXCEPT ![d] = s.sent[d] + 1]
  /\ t.phase = s.phase /\ RecvOf(t) = RecvOf(s)
  /\ t.shut = s.shut /\ t.told = s.told /\ t.failed = s.failed
PipeDelivers(s, t, d) ==
  /\ s.phase = "attached" /\ Len(RecvOf(s)[d]) < s.sent[d] /\ ~s.told[d]
  /\ RecvOf(t) = [RecvOf(s) EXCEPT ![d] = Append(RecvOf(s)[d], Len(RecvOf(s)[d]) + 1)]
  /\ t.phase = s.phase /\ t.sent = s.sent
  /\ t.shut = s.shut /\ t.told = s.told /\ t.failed = s.failed
PipeCloses(s, t, d) ==
  /\ ~s.shut[d] /\ t.shut = [s.shut EXCEPT ![d] = TRUE]
  /\ t.phase = s.phase /\ t.sent = s.sent /\ RecvOf(t) = RecvOf(s)
  /\ t.told = s.told /\ t.failed = s.failed
PipeHears(s, t, d) ==
  /\ ~s.told[d] /\ (s.failed \/ (s.shut[d] /\ Len(RecvOf(s)[d]) = s.sent[d]))
  /\ t.told = [s.told EXCEPT ![d] = TRUE]
  /\ t.phase = s.phase /\ t.sent = s.sent /\ RecvOf(t) = RecvOf(s)
  /\ t.shut = s.shut /\ t.failed = s.failed
PipeBreaks(s, t) ==
  /\ t.failed = TRUE /\ t.shut \in [Dir -> BOOLEAN] /\ t.shut = s.shut
  /\ t.phase = s.phase /\ t.sent = s.sent /\ RecvOf(t) = RecvOf(s) /\ t.told = s.told
PipeStep(s, t) ==
  \/ SamePipe(s, t) \/ PipeSets(s, t) \/ PipeBreaks(s, t)
  \/ \E d \in Dir : \/ PipeSends(s, t, d) \/ PipeDelivers(s, t, d)
                    \/ PipeCloses(s, t, d) \/ PipeHears(s, t, d)

LEMMA PipeStepIs ==
  ASSUME NEW c \in Client, PipeStep(ses[c], ses'[c])
  PROVE  [Pipe(c)!Next]_(Pipe(c)!vars)
<1>0. Pipe(c)!Dir = Dir
  BY DEF Pipe!Dir, Dir
<1>1. CASE SamePipe(ses[c], ses'[c])
  <2>1. UNCHANGED Pipe(c)!vars
    BY <1>1, Zenon DEF SamePipe, RecvOf, Pipe!vars
  <2> QED BY <2>1
<1>2. CASE PipeSets(ses[c], ses'[c])
  <2>1. Pipe(c)!Request \/ Pipe(c)!Attach
    BY <1>2, Zenon DEF PipeSets, RecvOf, Pipe!Request, Pipe!Attach
  <2> QED BY <2>1 DEF Pipe!Next
<1>3. CASE PipeBreaks(ses[c], ses'[c])
  <2>1. Pipe(c)!Break
    BY <1>0, <1>3, Zenon DEF PipeBreaks, RecvOf, Pipe!Break
  <2> QED BY <2>1 DEF Pipe!Next
<1>4. ASSUME NEW d \in Dir, PipeSends(ses[c], ses'[c], d)
      PROVE  [Pipe(c)!Next]_(Pipe(c)!vars)
  <2>1. Pipe(c)!Send(d)
    BY <1>4, Zenon DEF PipeSends, RecvOf, Pipe!Send
  <2> QED BY <1>0, <2>1 DEF Pipe!Next
<1>5. ASSUME NEW d \in Dir, PipeDelivers(ses[c], ses'[c], d)
      PROVE  [Pipe(c)!Next]_(Pipe(c)!vars)
  <2>1. Pipe(c)!Deliver(d)
    BY <1>5, Zenon DEF PipeDelivers, RecvOf, Pipe!Deliver
  <2> QED BY <1>0, <2>1 DEF Pipe!Next
<1>6. ASSUME NEW d \in Dir, PipeCloses(ses[c], ses'[c], d) \/ PipeHears(ses[c], ses'[c], d)
      PROVE  [Pipe(c)!Next]_(Pipe(c)!vars)
  <2>1. Pipe(c)!Close(d) \/ Pipe(c)!HearEof(d)
    BY <1>6, Zenon DEF PipeCloses, PipeHears, RecvOf, Pipe!Close, Pipe!HearEof
  <2> QED BY <1>0, <2>1 DEF Pipe!Next
<1> QED BY <1>1, <1>2, <1>3, <1>4, <1>5, <1>6 DEF PipeStep

LEMMA PlainStepsPipe ==
  ASSUME NEW k \in DOMAIN Script, NEW s \in Session, NEW t \in Session,
         SessionInv(k, s), SessionInv(k, t), PlainStep(k, s, t)
  PROVE  PipeStep(s, t)
<1> USE DEF SameAll, SameApp, SameInput, SameReply, SameStream, SameEnds, TasksAt
<1>i. /\ Progress(s) /\ EndsInOrder(s) /\ BytesInOrder(s) /\ BytesInOrder(t)
      /\ \A d \in Dir : BytesOf(s, d) /\ BytesOf(t, d)
  BY DEF SessionInv, BytesInOrder
<1>s. /\ s.task.f \in DialerTask /\ s.task.b \in ListenerTask
      /\ s.phase \in {"setup", "requested", "attached"}
      /\ s.chan \in [Dir -> Seq(Item)] /\ s.sent \in [Dir -> Nat] /\ s.got \in [Dir -> Seq(Nat)]
      /\ s.shut \in [Dir -> BOOLEAN] /\ s.told \in [Dir -> BOOLEAN] /\ s.failed \in BOOLEAN
  BY Fields DEF DialerTask, ListenerTask
<1>r. /\ RecvOf(s) = [d \in Dir |-> Numbers(Len(s.got[d]))]
      /\ RecvOf(t) = [d \in Dir |-> Numbers(Len(t.got[d]))]
  BY <1>i, RecvCounts
<1>g. t.got = s.got => RecvOf(t) = RecvOf(s)
  BY <1>r
<1>l. ASSUME NEW d \in Dir
      PROVE  Len(RecvOf(s)[d]) = Len(s.got[d]) /\ Len(s.got[d]) \in Nat
  <2>1. Len(s.got[d]) \in Nat
    BY <1>s
  <2> QED BY <1>r, <2>1, NumbersFacts
<1> HIDE DEF RecvOf
<1>1. CASE \/ Advances(k, s, t) \/ ReadsSocks(s, t) \/ Fills(s, t) \/ ReadsLine(s, t)
           \/ ReadsHeaders(s, t) \/ Opens(s, t) \/ Replies(s, t) \/ Starts(s, t)
           \/ PeersStep(k, s, t)
  <2>1. SameStream(s, t) /\ SameEnds(s, t)
    BY <1>1 DEF Advances, ReadsSocks, Fills, ReadsLine, ReadsHeaders, Opens, Replies, Starts,
                PeersStep, Speaks, Sends, Closes, Aborts
  <2>2. SamePipe(s, t)
    BY <1>g, <2>1 DEF SamePipe
  <2> QED BY <2>2 DEF PipeStep
<1>2. CASE Requests(k, s, t) \/ Attaches(s, t)
  <2>1. PipeSets(s, t)
    BY <1>i, <1>s, <1>g, <1>2 DEF Requests, Attaches, Progress, Early, PipeSets
  <2> QED BY <2>1 DEF PipeStep
<1>3. CASE ReadsRequest(k, s, t)
  <2>1. s.phase = "requested"
    BY <1>i, <1>s, <1>3 DEF ReadsRequest, Progress, Dir
  <2>2. PipeSets(s, t) \/ SamePipe(s, t)
    BY <1>g, <1>3, <2>1 DEF ReadsRequest, PipeSets, SamePipe
  <2> QED BY <2>2 DEF PipeStep
<1>4. ASSUME NEW d \in Dir, Takes(s, t, d) PROVE PipeStep(s, t)
  <2>1. s.phase \in (IF d = "f" THEN {"requested", "attached"} ELSE {"attached"})
    BY <1>i, <1>s, <1>4 DEF Takes, Progress, Dir
  <2>2. PipeSends(s, t, d)
    BY <1>g, <1>4, <2>1 DEF Takes, PipeSends
  <2> QED BY <2>2 DEF PipeStep
<1>5. ASSUME NEW d \in Dir, TakesEnd(s, t, d) PROVE PipeStep(s, t)
  <2>1. PipeCloses(s, t, d)
    BY <1>g, <1>5 DEF TakesEnd, PipeCloses
  <2> QED BY <2>1 DEF PipeStep
<1>6. ASSUME NEW e \in Dir, Gives(s, t, e) PROVE PipeStep(s, t)
  <2>1. /\ s.chan[e] # << >> /\ s.task[Opp(e)] = "copying" /\ t.sent = s.sent
        /\ t.got = [s.got EXCEPT ![e] = Append(s.got[e], Head(s.chan[e]).n)]
    BY <1>6 DEF Gives
  <2>2. Len(t.got[e]) = Len(s.got[e]) + 1
    <3>1. s.chan[e] \in Seq(Item) /\ s.got[e] \in Seq(Nat)
      BY <1>s
    <3>2. Head(s.chan[e]) \in Item
      BY <2>1, <3>1, TailFacts
    <3>3. Head(s.chan[e]).n \in Nat
      BY <3>2 DEF Item
    <3>4. t.got[e] = Append(s.got[e], Head(s.chan[e]).n)
      BY <1>s, <2>1
    <3> QED BY <3>1, <3>3, <3>4, AppendFacts
  <2>3. Len(s.got[e]) < s.sent[e]
    <3>1. Len(t.got[e]) <= t.sent[e]
      BY <1>i DEF BytesOf
    <3>2. Len(s.got[e]) \in Nat /\ s.sent[e] \in Nat
      BY <1>s
    <3> QED BY <2>1, <2>2, <3>1, <3>2
  <2>4. s.phase = "attached"
    <3>1. CASE e = "f"
      BY <1>i, <2>1, <3>1 DEF Progress, Opp
    <3>2. CASE e = "b"
      <4>1. s.sent["b"] # 0
        BY <1>l, <2>3, <3>2
      <4> QED BY <1>i, <1>s, <4>1 DEF Progress
    <3> QED BY <3>1, <3>2 DEF Dir
  <2>5. ~s.told[e]
    BY <1>i, <2>1 DEF EndsInOrder
  <2>6. RecvOf(t) = [RecvOf(s) EXCEPT ![e] = Append(RecvOf(s)[e], Len(RecvOf(s)[e]) + 1)]
    <3>1. \A d \in Dir : d # e => t.got[d] = s.got[d]
      BY <1>s, <2>1
    <3> DEFINE n == Len(s.got[e])
    <3>2. n \in Nat /\ RecvOf(s)[e] = Numbers(n) /\ Len(RecvOf(s)[e]) = n
      BY <1>l, <1>r
    <3>3. Append(Numbers(n), n + 1) = Numbers(Len(t.got[e]))
      BY <2>2, <3>2, NumbersFacts
    <3> DEFINE F == [RecvOf(s) EXCEPT ![e] = Append(RecvOf(s)[e], Len(RecvOf(s)[e]) + 1)]
    <3>4. F = [d \in Dir |-> IF d = e THEN Numbers(Len(t.got[e])) ELSE Numbers(Len(s.got[d]))]
      BY <1>r, <3>2, <3>3, Zenon
    <3> HIDE DEF n, F
    <3>5. F = [d \in Dir |-> Numbers(Len(t.got[d]))]
      BY <3>1, <3>4
    <3> QED BY <1>r, <3>5, Zenon DEF F
  <2>7. PipeDelivers(s, t, e)
    BY <1>l, <1>6, <2>3, <2>4, <2>5, <2>6 DEF Gives, PipeDelivers
  <2> QED BY <2>7 DEF PipeStep
<1>7. ASSUME NEW e \in Dir, GivesEnd(s, t, e) PROVE PipeStep(s, t)
  <2>1. ASSUME ~s.failed PROVE s.shut[e] /\ Len(s.got[e]) = s.sent[e]
    <3>1. ~s.cut /\ (s.task[e] = "over" => s.shut[e])
      BY <1>i, <2>1 DEF EndsInOrder
    <3>2. s.shut[e]
      BY <1>7, <3>1 DEF GivesEnd, WriterGone
    <3>3. ~ReaderGone(s, e) /\ s.chan[e] = << >>
      BY <1>7, <3>1 DEF GivesEnd, ReaderGone
    <3>4. Len(s.chan[e]) + Len(s.got[e]) = Header(s, e) + s.sent[e] /\ Len(s.got[e]) <= s.sent[e]
      BY <1>i, <3>3 DEF BytesOf
    <3>5. Header(s, e) \in Nat /\ Len(s.chan[e]) = 0 /\ Len(s.got[e]) \in Nat /\ s.sent[e] \in Nat
      BY <1>s, <3>3 DEF Header
    <3>6. Len(s.got[e]) = s.sent[e]
      BY <3>4, <3>5
    <3> QED BY <3>2, <3>6
  <2>2. PipeHears(s, t, e)
    BY <1>g, <1>l, <1>7, <2>1 DEF GivesEnd, PipeHears
  <2> QED BY <2>2 DEF PipeStep
<1>8. ASSUME NEW d \in Dir, Finishes(s, t, d) PROVE PipeStep(s, t)
  <2>1. SamePipe(s, t)
    BY <1>g, <1>8 DEF Finishes, Returns, SamePipe
  <2> QED BY <2>1 DEF PipeStep
<1>9. CASE LossStep(s, t)
  <2>1. PipeBreaks(s, t)
    BY <1>s, <1>g, <1>9 DEF LossStep, Loses, Fails, Returns, PipeBreaks
  <2> QED BY <2>1 DEF PipeStep
<1> QED
  BY <1>1, <1>2, <1>3, <1>4, <1>5, <1>6, <1>7, <1>8, <1>9 DEF PlainStep, TaskStep, CopyingStep

LEMMA StepsPipe ==
  ASSUME NEW k \in DOMAIN Script, NEW s \in Session, NEW t \in Session,
         SessionInv(k, s), SessionInv(k, t), SessionStep(k, s, t)
  PROVE  PipeStep(s, t)
<1>1. ASSUME NEW u \in Session, Opens(s, u), Fails(u, t, "b") PROVE PipeStep(s, t)
  <2>1. BytesInOrder(s) /\ BytesInOrder(t) /\ s.shut \in [Dir -> BOOLEAN]
    BY Fields DEF SessionInv
  <2>2. /\ t.phase = s.phase /\ t.sent = s.sent /\ t.got = s.got /\ t.shut = s.shut
        /\ t.told = s.told /\ t.failed = TRUE
    BY <1>1 DEF Opens, Fails, Returns, SameAll, SameStream, SameEnds
  <2>3. RecvOf(t) = RecvOf(s)
    BY <2>1, <2>2, RecvCounts
  <2>4. PipeBreaks(s, t)
    BY <2>1, <2>2, <2>3 DEF PipeBreaks
  <2> QED BY <2>4 DEF PipeStep
<1> QED BY <1>1, PlainStepsPipe DEF SessionStep

(***************************************************************************)
(* Each session implements TunnelPipe: bytes arrive in order, each once,   *)
(* only after the request was accepted; an end is passed on after every    *)
(* byte before it, unless something failed.                                *)
(***************************************************************************)
THEOREM EachIsAPipe == Spec => SessionsArePipes
<1>1. Init => \A c \in Client : Pipe(c)!Init
  <2> SUFFICES ASSUME Init, NEW c \in Client PROVE Pipe(c)!Init
    OBVIOUS
  <2>1. ses[c] = Idle
    BY DEF Init
  <2>2. RecvOf(ses[c]) = [d \in Dir |-> << >>]
    <3>1. Idle.got = [d \in Dir |-> << >>]
      BY DEF Idle, Both
    <3>2. [i \in 1..Len(<< >>) |-> << >>[i] - Idle.lost] = << >>
      OBVIOUS
    <3>3. RecvOf(Idle) = [Idle.got EXCEPT !["f"] = [i \in 1..Len(<< >>) |-> << >>[i] - Idle.lost]]
      <4>1. Idle.got["f"] = << >>
        BY <3>1 DEF Dir
      <4> QED BY <4>1, Zenon DEF RecvOf
    <3> QED BY <2>1, <3>1, <3>2, <3>3 DEF Dir
  <2>3. /\ ses[c].phase = "setup" /\ ses[c].sent = [d \in Dir |-> 0]
        /\ ses[c].shut = [d \in Dir |-> FALSE] /\ ses[c].told = [d \in Dir |-> FALSE]
        /\ ses[c].failed = FALSE
    BY <2>1 DEF Idle, Both
  <2>4. Pipe(c)!Dir = Dir
    BY DEF Pipe!Dir, Dir
  <2> QED BY <2>2, <2>3, <2>4, Zenon DEF Pipe!Init, RecvOf
<1>2. IInv /\ [Next]_vars => \A c \in Client : [Pipe(c)!Next]_(Pipe(c)!vars)
  <2> SUFFICES ASSUME IInv, [Next]_vars, NEW c \in Client
               PROVE  [Pipe(c)!Next]_(Pipe(c)!vars)
    OBVIOUS
  <2> DEFINE s == ses[c]
             t == ses'[c]
  <2>1. /\ kind[c] \in DOMAIN Script /\ s \in Session /\ t \in Session
        /\ SessionInv(kind[c], s) /\ SessionInv(kind[c], t)
    BY StepFacts DEF IInv
  <2>2. t = s \/ SessionStep(kind[c], s, t)
    BY Steps DEF IInv
  <2>3. CASE t = s
    BY <2>3, PipeStepIs DEF PipeStep, SamePipe
  <2>4. CASE SessionStep(kind[c], s, t)
    <3> DEFINE k == kind[c]
    <3> HIDE DEF s, t, k
    <3>1. PipeStep(s, t)
      BY <2>1, <2>4, StepsPipe DEF k
    <3> QED BY <3>1, PipeStepIs DEF s, t
  <2> QED BY <2>2, <2>3, <2>4
<1> QED BY <1>1, <1>2, Inductive, PTL DEF Spec, SessionsArePipes
=============================================================================
