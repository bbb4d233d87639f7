--------------------------- MODULE JumpChainPipe ---------------------------
(***************************************************************************)
(* The jump chain once more, for every number of relays, every path and    *)
(* all bounds: a dialer that reads Error has a relay that gave up          *)
(* (ErrorIsGenuine), no node reads a frame meant for another moment        *)
(* (FramesInStep), and the whole chain of copies implements one pipe       *)
(* between its two users (PipeRefinement).                                 *)
(***************************************************************************)
EXTENDS JumpChainProofs

-----------------------------------------------------------------------------
(* The steps once more, by what they do to the variables PipeInv speaks of *)
(* and IInv does not.                                                      *)

\* A step of the streams' ends, of what was heard, or of a swarm only.
QuietStep ==
  \/ UNCHANGED vars
  \/ \E t \in Tasks : RetryOpen(t) \/ \E d \in Dir : CopyEof(t, d)
  \/ \E d \in Dir : OutputEof(d) \/ StdinEof(d)
  \/ \E p \in RelayPeers : SwarmStep(p)

\* A node takes the next step of its program, and nothing else ends or fails.
ProgramStep ==
  \/ \E t \in Tasks : \/ ReadChain(t) \/ SendDial(t) \/ OpenStream(t)
                      \/ AwaitOk(t) \/ Reply(t)
  \/ \E n \in Links : ForwardChain(n)
  \/ DialerConnect \/ DialerOpen \/ DialerReadsOk \/ StartNetcat
  \/ ListenerReadsRequest

\* Bytes move.
DataStep ==
  \/ \E t \in Tasks, d \in Dir : CopyData(t, d)
  \/ \E d \in Dir : Show(d) \/ Type(d)

\* Every step is one of these.
LEMMA StepKinds ==
  ASSUME [Next]_vars
  PROVE  \/ QuietStep \/ QuitStep \/ ProgramStep \/ DataStep
         \/ \E l \in Links : LoseStream(l)
<1>1. 0 \in Links /\ (\A t \in Tasks : t \in Links) /\ (\A d \in Dir : Opp(d) \in Dir)
  BY EndPlaces, TaskPlaces DEF Dir, Opp
<1>2. CASE \E t \in Tasks : TaskStep(t)
  BY <1>1, <1>2 DEF TaskStep, QuietStep, QuitStep, ProgramStep, DataStep
<1>3. CASE DialerStep \/ ListenerStep
  BY <1>1, <1>3 DEF DialerStep, ListenerStep, QuitStep, ProgramStep
<1>4. CASE \E d \in Dir : SessionStep(d) \/ UserStep(d)
  BY <1>1, <1>4 DEF SessionStep, UserStep, QuietStep, QuitStep, DataStep
<1>5. CASE FaultStep
  BY <1>5 DEF FaultStep, QuitStep
<1>6. CASE UNCHANGED vars \/ \E p \in RelayPeers : SwarmStep(p)
  BY <1>6 DEF QuietStep
<1> QED BY <1>2, <1>3, <1>4, <1>5, <1>6 DEF Next

\* What the quiet steps leave alone.
LEMMA QuietEffect ==
  ASSUME QuietStep
  PROVE  UNCHANGED <<pc, chan, verdict, host, hops, sent, recv, cut, faults>>
<1> USE DEF vars, taskVars, others, swarmVars, userVars
<1>1. CASE UNCHANGED vars
  BY <1>1
<1>2. ASSUME NEW t \in Tasks, RetryOpen(t) \/ \E d \in Dir : CopyEof(t, d)
      PROVE  UNCHANGED <<pc, chan, verdict, host, hops, sent, recv, cut, faults>>
  BY <1>2 DEF RetryOpen, CopyEof
<1>3. ASSUME NEW d \in Dir, OutputEof(d) \/ StdinEof(d)
      PROVE  UNCHANGED <<pc, chan, verdict, host, hops, sent, recv, cut, faults>>
  BY <1>3 DEF OutputEof, StdinEof
<1>4. ASSUME NEW p \in RelayPeers, SwarmStep(p)
      PROVE  UNCHANGED <<pc, chan, verdict, host, hops, sent, recv, cut, faults>>
  BY <1>4 DEF SwarmStep, SwarmDial, DialOutcome
<1> QED BY <1>1, <1>2, <1>3, <1>4 DEF QuietStep

\* What the steps of the programs leave alone.
LEMMA ProgramEffect ==
  ASSUME ProgramStep
  PROVE  UNCHANGED <<mode, attempt, sent, recv, heard, cut, faults>>
<1> USE DEF taskVars, others, swarmVars, userVars
<1>1. ASSUME NEW t \in Tasks,
             ReadChain(t) \/ SendDial(t) \/ OpenStream(t) \/ AwaitOk(t) \/ Reply(t)
      PROVE  UNCHANGED <<mode, attempt, sent, recv, heard, cut, faults>>
  BY <1>1 DEF ReadChain, SendDial, OpenStream, AwaitOk, Reply
<1>2. ASSUME NEW n \in Links, ForwardChain(n)
      PROVE  UNCHANGED <<mode, attempt, sent, recv, heard, cut, faults>>
  BY <1>2 DEF ForwardChain
<1>3. CASE \/ DialerConnect \/ DialerOpen \/ DialerReadsOk \/ StartNetcat
           \/ ListenerReadsRequest
  BY <1>3 DEF DialerConnect, DialerOpen, DialerReadsOk, StartNetcat, ListenerReadsRequest
<1> QED BY <1>1, <1>2, <1>3 DEF ProgramStep

\* What moving bytes leaves alone.
LEMMA DataEffect ==
  ASSUME DataStep
  PROVE  UNCHANGED <<mode, pc, verdict, host, hops, attempt, end, heard, cut, faults>>
<1> USE DEF taskVars, others, swarmVars, userVars
<1>1. ASSUME NEW t \in Tasks, NEW d \in Dir, CopyData(t, d)
      PROVE  UNCHANGED <<mode, pc, verdict, host, hops, attempt, end, heard, cut, faults>>
  BY <1>1 DEF CopyData
<1>2. ASSUME NEW d \in Dir, Show(d) \/ Type(d)
      PROVE  UNCHANGED <<mode, pc, verdict, host, hops, attempt, end, heard, cut, faults>>
  BY <1>2 DEF Show, Type
<1> QED BY <1>1, <1>2 DEF DataStep

\* What losing a stream does.
LEMMA LoseEffect ==
  ASSUME NEW l \in Links, LoseStream(l)
  PROVE  /\ cut' = cut \cup {l} /\ faults' = faults + 1
         /\ chan' = [chan EXCEPT ![l] = [d \in Dir |-> << >>]]
         /\ UNCHANGED <<mode, pc, verdict, host, hops, attempt, end, sent, recv, heard>>
BY DEF LoseStream, taskVars, userVars

\* The two ways a task reports a failure.
Reports(t) == OpenFails(t) \/ AwaitErr(t)

\* Returning once more: who leaves, whether by a fault, and that only a task
\* that reports a failure writes anything.
Departs(S, c) ==
  /\ S \in SUBSET Nodes /\ c \in ChanType /\ Leave(S, c)
  /\ \A n \in S : Live(n)
  /\ c = chan \/ \E t \in Tasks : S = {t} /\ c = After(t - 1, "b", Err) /\ Reports(t)
  /\ \/ faults' = faults + 1
     \/ faults' = faults /\ \E n \in Nodes : S = {n}
  /\ UNCHANGED <<mode, host, hops, attempt, cut, sent, recv, heard>>

LEMMA QuitEffect ==
  ASSUME TypeOK, QuitStep
  PROVE  \E S, c : Departs(S, c)
<1> USE DEF taskVars, others, swarmVars, userVars
<1>0. /\ chan \in ChanType
      /\ 0 \in Nodes /\ N + 1 \in Nodes
      /\ \A t \in Tasks : t \in Nodes /\ t - 1 \in Links
      /\ \A d \in Dir : User(d) \in Nodes
  BY TypedChan, EndPlaces, TaskPlaces DEF User
<1>1. ASSUME NEW n \in Nodes, Live(n), Leave({n}, chan),
             UNCHANGED <<mode, host, hops, attempt, cut, sent, recv, heard>>,
             faults' \in {faults, faults + 1}
      PROVE  \E S, c : Departs(S, c)
  <2>1. {n} \in SUBSET Nodes /\ \A x \in {n} : Live(x)
    BY <1>1
  <2>2. Departs({n}, chan)
    BY <1>0, <1>1, <2>1 DEF Departs
  <2> QED BY <2>2
<1>2. ASSUME NEW t \in Tasks, Reports(t)
      PROVE  \E S, c : Departs(S, c)
  <2>1. FailUpstream(t) /\ pc[t] \in {"opening", "awaiting"}
    BY <1>2 DEF Reports, OpenFails, AwaitErr
  <2>2. {t} \in SUBSET Nodes /\ \A x \in {t} : Live(x)
    BY <1>0, <2>1 DEF Live, Gone
  <2>3. After(t - 1, "b", Err) \in ChanType
    BY <1>0, AfterType, FrameTypes, Directions
  <2>4. Departs({t}, After(t - 1, "b", Err))
    BY <1>0, <1>2, <2>1, <2>2, <2>3 DEF Departs, FailUpstream
  <2> QED BY <2>4
<1>3. ASSUME NEW t \in Tasks,
             RefuseChain(t) \/ TaskIoFails(t) \/ CopyDone(t) \/ \E d \in Dir : CopyError(t, d)
      PROVE  \E S, c : Departs(S, c)
  <2>1. Live(t) /\ Return(t)
    BY <1>3 DEF RefuseChain, TaskIoFails, CopyDone, CopyError, Live, Gone
  <2> QED BY <1>0, <1>1, <2>1 DEF Return
<1>4. CASE DialerGivesUp \/ DialerIoFails \/ DialerBails
  <2>1. Live(0) /\ Return(0)
    BY <1>4 DEF DialerGivesUp, DialerIoFails, DialerBails, Live, Gone
  <2> QED BY <1>0, <1>1, <2>1 DEF Return
<1>5. CASE DialerFails
  <2>1. Live(0)
    BY <1>5 DEF DialerFails, Live, Gone
  <2> QED BY <1>0, <1>1, <1>5, <2>1 DEF DialerFails
<1>6. CASE ListenerRefuses
  <2>1. Live(N + 1) /\ Return(N + 1)
    BY <1>6 DEF ListenerRefuses, Live, Gone
  <2> QED BY <1>0, <1>1, <2>1 DEF Return
<1>7. ASSUME NEW d \in Dir, NetcatDone(d) \/ NetcatError(d)
      PROVE  \E S, c : Departs(S, c)
  <2>1. Live(User(d)) /\ Return(User(d))
    BY <1>7 DEF NetcatDone, NetcatError, Live, Gone
  <2> QED BY <1>0, <1>1, <2>1 DEF Return
<1>8. ASSUME NEW d \in Dir, ExitUser(d)
      PROVE  \E S, c : Departs(S, c)
  BY <1>0, <1>1, <1>8 DEF ExitUser
<1>9. ASSUME NEW p \in RelayPeers, CrashRelay(p)
      PROVE  \E S, c : Departs(S, c)
  <2> DEFINE S == {t \in Tasks : Live(t) /\ host[t] = p}
  <2>1. S \in SUBSET Nodes /\ \A n \in S : Live(n)
    BY <1>0
  <2>2. /\ Leave(S, chan) /\ faults' = faults + 1
        /\ UNCHANGED <<mode, host, hops, attempt, cut, sent, recv, heard>>
    BY <1>9 DEF CrashRelay
  <2> HIDE DEF S
  <2>3. Departs(S, chan)
    BY <1>0, <2>1, <2>2 DEF Departs
  <2> QED BY <2>3
<1> QED BY <1>2, <1>3, <1>4, <1>5, <1>6, <1>7, <1>8, <1>9 DEF QuitStep, Reports

-----------------------------------------------------------------------------
(* A dialer that reads Error.                                              *)

\* Each node stays within its program.
LEMMA ProgramsStep ==
  ASSUME IInv, Programs, [Next]_vars
  PROVE  Programs'
<1>0. \A n \in Nodes : PcMove(n)
  BY PcEffect
<1>1. pc'[0] \in DialerPC \cup Gone
  <2>1. PcMove(0) /\ 0 \notin Tasks /\ 0 # N /\ 0 # N + 1
    BY <1>0, EndPlaces DEF Tasks
  <2> QED BY <2>1 DEF PcMove, Programs, DialerPC, Gone
<1>2. ASSUME NEW t \in Tasks
      PROVE  pc'[t] \in TaskPC \cup Gone
  <2>1. PcMove(t) /\ t # 0 /\ t # N + 1
    BY <1>0, TaskPlaces, EndPlaces DEF Tasks
  <2> QED BY <2>1 DEF PcMove, Programs, TaskPC, Gone
<1>3. pc'[N] # "awaiting"
  <2>1. PcMove(N) /\ pc[N] # "forwarding"
    BY <1>0, EndPlaces DEF IInv, HopsHeld
  <2> QED BY <2>1 DEF PcMove, Programs
<1>4. pc'[N + 1] \in {"none", "reading", "bridging"} \cup Gone
  <2>1. PcMove(N + 1) /\ N + 1 \notin Tasks /\ N + 1 \notin Links
    BY <1>0, EndPlaces DEF Tasks, Links
  <2> QED BY <2>1 DEF PcMove, Programs, Gone
<1> QED BY <1>1, <1>2, <1>3, <1>4 DEF Programs

\* Nobody exists beyond a node that has not opened its stream.
LEMMA NobodyBeyondStep ==
  ASSUME IInv, NobodyBeyond, [Next]_vars
  PROVE  NobodyBeyond'
<1> SUFFICES ASSUME NEW n \in Links, pc'[n] \in NotYetOpen, NEW m \in Nodes, m > n
             PROVE  pc'[m] = "none"
  BY DEF NobodyBeyond
<1>1. PcMove(n) /\ PcMove(m) /\ n \in Int /\ m \in Int
  BY PcEffect, EndPlaces
<1>2. pc[n] \in NotYetOpen /\ pc'[n] \notin {"forwarding", "replying"}
  BY <1>1 DEF PcMove, NotYetOpen
<1>3. pc[m] = "none"
  BY <1>2 DEF NobodyBeyond
<1>4. m - 1 = n \/ pc[m - 1] = "none" \/ m - 1 \notin Links
  <2>1. m - 1 > n /\ m - 1 \in Links => pc[m - 1] = "none"
    BY <1>2, EndPlaces DEF NobodyBeyond
  <2> QED BY <1>1, <2>1
<1> QED BY <1>1, <1>2, <1>3, <1>4 DEF PcMove

\* The node that asked waits until its task answers.
LEMMA AskedForStep ==
  ASSUME IInv, Programs, AskedFor, [Next]_vars
  PROVE  AskedFor'
<1>0. ChainAlone /\ OkBacked
  BY DEF IInv
<1>1. ASSUME NEW t \in Tasks,
             pc'[t] \in {"dialing", "opening", "forwarding", "awaiting", "replying"}
      PROVE  pc'[t - 1] \in {"awaiting", "failed"}
  <2>1. /\ PcMove(t) /\ PcMove(t - 1) /\ t # 0 /\ t # N + 1
        /\ t \in Nodes /\ t - 1 \in Links /\ t - 1 + 1 = t /\ t \in Int
    BY PcEffect, TaskPlaces, EndPlaces DEF Tasks
  <2>2. \/ pc[t] \in {"dialing", "opening", "forwarding", "awaiting", "replying"}
        \/ pc[t] = "reading" /\ Holds(chan[t - 1]["f"], "chain")
    BY <1>1, <2>1 DEF PcMove, Programs, TaskPC, Gone
  <2>3. pc[t - 1] \in {"awaiting", "failed"}
    BY <1>0, <2>1, <2>2 DEF AskedFor, ChainAlone
  <2>4. ~Holds(chan[t - 1]["b"], "ok")
    <3>1. ~Up(t)
      BY <2>2 DEF Up
    <3>2. ~Beyond(t - 1)
      BY <2>1, <3>1 DEF Beyond
    <3> QED BY <1>0, <2>1, <3>2 DEF OkBacked
  <2>5. t - 1 = 0 => ~Holds(chan[0]["b"], "ok")
    BY <2>4
  <2> QED BY <2>1, <2>3, <2>4, <2>5 DEF PcMove
<1>2. ASSUME pc'[0] \in {"selecting", "bridging", "closed"}
      PROVE  Beyond(0)'
  <2>1. PcMove(0) /\ 0 # N + 1 /\ 0 \in Links /\ 0 \notin Tasks
    BY PcEffect, EndPlaces DEF Tasks
  <2>2. pc[0] \in {"selecting", "bridging", "closed"} \/ Holds(chan[0]["b"], "ok")
    BY <1>2, <2>1 DEF PcMove
  <2>3. Beyond(0)
    BY <1>0, <2>1, <2>2 DEF AskedFor, OkBacked
  <2> QED BY <2>3, BeyondStays
<1> QED BY <1>1, <1>2 DEF AskedFor

\* Attempts are counted while opening only.
LEMMA AttemptStays ==
  ASSUME TypeOK, [Next]_vars, NEW t \in Tasks, pc[t] # "opening"
  PROVE  attempt'[t] = attempt[t]
<1>1. CASE QuietStep
  <2>1. ASSUME NEW u \in Tasks, RetryOpen(u)
        PROVE  attempt'[t] = attempt[t]
    BY <2>1 DEF RetryOpen, TypeOK
  <2>2. CASE attempt' = attempt
    BY <2>2
  <2>3. CASE ~(\E u \in Tasks : RetryOpen(u))
    <3>1. attempt' = attempt
      BY <1>1, <2>3 DEF QuietStep, vars, taskVars, others, CopyEof, OutputEof, StdinEof,
                        SwarmStep, SwarmDial, DialOutcome
    <3> QED BY <3>1
  <2> QED BY <2>1, <2>3
<1>2. CASE QuitStep
  BY <1>2, QuitEffect DEF Departs
<1>3. CASE ProgramStep \/ DataStep \/ \E l \in Links : LoseStream(l)
  BY <1>3, ProgramEffect, DataEffect, LoseEffect
<1> QED BY <1>1, <1>2, <1>3, StepKinds

\* Who gave up gave up for good.
LEMMA GaveUpStays ==
  ASSUME IInv, [Next]_vars, NEW l \in Links, GaveUp(l)
  PROVE  GaveUp(l)'
<1>1. PICK t \in Tasks : /\ t > l /\ attempt[t] = MaxAttempts - 1
                         /\ \A u \in (l + 1)..t : pc[u] = "failed"
                         /\ \A u \in (t + 1)..(N + 1) : pc[u] = "none"
  BY DEF GaveUp
<1>2. /\ t \in Int /\ l \in Int /\ l >= 0 /\ N \in Int /\ t <= N
      /\ \A u \in (l + 1)..t : u \in Nodes
      /\ \A u \in (t + 1)..(N + 1) : u \in Nodes
  BY EndPlaces DEF Tasks, Links, Nodes
<1>3. pc[t] = "failed"
  BY <1>1, <1>2
<1>4. attempt'[t] = attempt[t]
  BY <1>3, AttemptStays DEF IInv
<1>5. \A u \in (l + 1)..t : pc'[u] = "failed"
  BY <1>1, <1>2, PcEffect DEF PcMove
<1>6. ASSUME NEW u \in (t + 1)..(N + 1)
      PROVE  pc'[u] = "none"
  <2>1. u - 1 = t \/ u - 1 \in (t + 1)..(N + 1)
    BY <1>2
  <2>2. pc[u - 1] # "opening"
    BY <1>1, <1>3, <2>1
  <2> QED BY <1>1, <1>2, <2>2, PcEffect DEF PcMove
<1> QED BY <1>1, <1>4, <1>5, <1>6 DEF GaveUp

\* What copying a frame does to each stream.
LEMMA CopyEffect ==
  ASSUME chan \in ChanType, NEW t \in Tasks, NEW d \in Dir, CopyData(t, d),
         NEW l \in Links, NEW e \in Dir
  PROVE  /\ Head(chan[From(t, d)][d]) \in Frame
         /\ chan'[l][e] =
              IF l = From(t, d) /\ e = d THEN Tail(chan[l][e])
              ELSE After(To(t, d), d, Head(chan[From(t, d)][d]))[l][e]
<1> DEFINE a == From(t, d)
           b == To(t, d)
           m == Head(chan[a][d])
           c == After(b, d, m)
<1>1. a \in Links /\ b \in Links /\ a # b
  BY TaskPlaces
<1>2. chan[a][d] # << >> /\ chan' = [c EXCEPT ![a][d] = Tail(@)]
  BY DEF CopyData
<1>3. m \in Frame /\ c \in ChanType
  BY <1>1, <1>2, ArrivedType, AfterType
<1>4. c[a][d] = chan[a][d]
  BY <1>1, AfterEffect
<1> HIDE DEF a, b, m, c
<1>5. chan'[l][e] = IF l = a /\ e = d THEN Tail(c[l][e]) ELSE c[l][e]
  BY <1>1, <1>2, <1>3 DEF ChanType
<1>6. m \in Frame /\ chan'[l][e] = IF l = a /\ e = d THEN Tail(chan[l][e]) ELSE c[l][e]
  BY <1>3, <1>4, <1>5
<1> QED BY <1>6 DEF a, b, m, c

\* Who leaves takes what it had not read along.
LEMMA DepartStreams ==
  ASSUME chan \in ChanType, NEW S, NEW c, Departs(S, c), NEW l \in Links, NEW d \in Dir
  PROVE  /\ chan'[l][d] = IF Reader(l, d) \in S THEN << >> ELSE c[l][d]
         /\ \/ c[l][d] = chan[l][d]
            \/ /\ d = "b" /\ l + 1 \in Tasks /\ S = {l + 1} /\ Reports(l + 1)
               /\ c = After(l, "b", Err) /\ c[l][d] = Append(chan[l][d], Err)
<1>1. chan'[l][d] = IF Reader(l, d) \in S THEN << >> ELSE c[l][d]
  BY DEF Departs, Leave
<1>2. CASE c = chan
  BY <1>1, <1>2
<1>3. ASSUME NEW t \in Tasks, S = {t}, c = After(t - 1, "b", Err), Reports(t)
      PROVE  \/ c[l][d] = chan[l][d]
             \/ /\ d = "b" /\ l + 1 \in Tasks /\ S = {l + 1} /\ Reports(l + 1)
                /\ c = After(l, "b", Err) /\ c[l][d] = Append(chan[l][d], Err)
  <2>1. \/ c[l][d] = chan[l][d]
        \/ l = t - 1 /\ d = "b" /\ c[l][d] = Append(chan[l][d], Err)
    BY <1>3, AfterEffect, TaskPlaces, Directions
  <2>2. l = t - 1 => t = l + 1
    BY DEF Tasks
  <2> QED BY <1>3, <2>1, <2>2
<1> QED BY <1>1, <1>2, <1>3 DEF Departs

\* What a program's step does to each stream: it reads a frame, or writes one
\* that is not an Error, or none of both.
LEMMA ProgramStreams ==
  ASSUME TypeOK, HopsHeld, ProgramStep
  PROVE  \/ chan' = chan
         \/ \E k \in Links, d \in Dir : chan[k][d] # << >> /\ chan' = Unread(k, d)
         \/ \E k \in Links, d \in Dir, m \in Frame : m.type # "err" /\ chan' = After(k, d, m)
<1> USE EndPlaces, Directions
<1>1. ASSUME NEW t \in Tasks, ReadChain(t) \/ AwaitOk(t)
      PROVE  \E k \in Links, d \in Dir : chan[k][d] # << >> /\ chan' = Unread(k, d)
  BY <1>1, TaskPlaces DEF ReadChain, AwaitOk, Arrived
<1>2. ASSUME NEW t \in Tasks, SendDial(t) \/ OpenStream(t)
      PROVE  chan' = chan
  BY <1>2 DEF SendDial, OpenStream
<1>3. ASSUME NEW t \in Tasks, Reply(t)
      PROVE  \E k \in Links, d \in Dir, m \in Frame : m.type # "err" /\ chan' = After(k, d, m)
  <2>1. t - 1 \in Links /\ Ok \in Frame /\ Ok.type # "err" /\ chan' = After(t - 1, "b", Ok)
    BY <1>3, TaskPlaces, FrameTypes DEF Reply, Ok
  <2> QED BY <2>1
<1>4. ASSUME NEW n \in Links, ForwardChain(n)
      PROVE  \E k \in Links, d \in Dir, m \in Frame : m.type # "err" /\ chan' = After(k, d, m)
  <2>1. hops[n] = Rest(n)
    BY <1>4 DEF HopsHeld, ForwardChain, Links, Tasks
  <2>2. Tail(hops[n]) \in Seq(Address)
    BY <2>1, RestType
  <2>3. Chain(Tail(hops[n])) \in Frame /\ Chain(Tail(hops[n])).type # "err"
    BY <2>2, FrameTypes DEF Chain
  <2>4. chan' = After(n, "f", Chain(Tail(hops[n])))
    BY <1>4 DEF ForwardChain
  <2> QED BY <2>3, <2>4
<1>5. CASE DialerConnect \/ DialerOpen
  BY <1>5 DEF DialerConnect, DialerOpen
<1>6. CASE DialerReadsOk \/ ListenerReadsRequest
  BY <1>6 DEF DialerReadsOk, ListenerReadsRequest, Arrived
<1>7. CASE StartNetcat
  <2>1. Req \in Frame /\ Req.type # "err" /\ chan' = After(0, "f", Req)
    BY <1>7, FrameTypes DEF StartNetcat, Req
  <2> QED BY <2>1
<1> QED BY <1>1, <1>2, <1>3, <1>4, <1>5, <1>6, <1>7 DEF ProgramStep

\* Where an Error comes from: a task that reports it, or one copying it.
LEMMA ErrEffect ==
  ASSUME IInv, [Next]_vars, NEW l \in Links,
         Holds(chan'[l]["b"], "err"), ~Holds(chan[l]["b"], "err")
  PROVE  /\ l + 1 \in Tasks
         /\ \/ Reports(l + 1)
            \/ pc[l + 1] = "bridging" /\ Holds(chan[l + 1]["b"], "err")
<1>0. TypeOK /\ HopsHeld /\ chan \in ChanType /\ chan[l]["b"] \in Seq(Frame)
  BY TypedChan, Directions DEF IInv, ChanType
<1>1. CASE QuietStep
  BY <1>1, QuietEffect
<1>2. CASE QuitStep
  <2>1. PICK S, c : Departs(S, c)
    BY <1>0, <1>2, QuitEffect
  <2> QED BY <1>0, <2>1, DepartStreams, HoldsEmpty, Directions
<1>3. ASSUME NEW k \in Links, NEW d \in Dir, chan[k][d] # << >>, chan' = Unread(k, d)
      PROVE  FALSE
  <2>1. \/ chan'[l]["b"] = chan[l]["b"]
        \/ chan[l]["b"] # << >> /\ chan'[l]["b"] = Tail(chan[l]["b"])
    BY <1>0, <1>3, UnreadEffect, Directions
  <2> QED BY <1>0, <2>1, HoldsTail
<1>4. ASSUME NEW k \in Links, NEW d \in Dir, NEW m \in Frame, m.type # "err",
             chan' = After(k, d, m)
      PROVE  FALSE
  <2>1. chan'[l]["b"] = chan[l]["b"] \/ chan'[l]["b"] = Append(chan[l]["b"], m)
    BY <1>0, <1>4, AfterEffect, Directions
  <2> QED BY <1>0, <1>4, <2>1, HoldsAppend
<1>5. CASE ProgramStep
  BY <1>0, <1>3, <1>4, <1>5, ProgramStreams
<1>6. ASSUME NEW t \in Tasks, NEW d \in Dir, CopyData(t, d)
      PROVE  l + 1 \in Tasks /\ pc[l + 1] = "bridging" /\ Holds(chan[l + 1]["b"], "err")
  <2> DEFINE m == Head(chan[From(t, d)][d])
  <2>0. pc[t] = "bridging" /\ chan[From(t, d)][d] # << >>
    BY <1>6 DEF CopyData
  <2>1. /\ m \in Frame
        /\ chan'[l]["b"] = IF l = From(t, d) /\ "b" = d THEN Tail(chan[l]["b"])
                           ELSE After(To(t, d), d, m)[l]["b"]
    BY <1>0, <1>6, CopyEffect, Directions
  <2>2. ~(l = From(t, d) /\ "b" = d)
    BY <1>0, <2>0, <2>1, HoldsTail
  <2>3. l = To(t, d) /\ d = "b" /\ chan'[l]["b"] = Append(chan[l]["b"], m)
    BY <1>0, <2>1, <2>2, AfterEffect, TaskPlaces, Directions
  <2>4. m.type = "err"
    BY <1>0, <2>1, <2>3, HoldsAppend
  <2>5. t = l + 1 /\ From(t, d) = t
    BY <2>3 DEF To, From, Tasks
  <2>6. t \in Links /\ chan[t]["b"] \in Seq(Frame)
    BY <1>0, TaskPlaces, Directions DEF ChanType
  <2>7. Holds(chan[t]["b"], "err")
    BY <2>0, <2>3, <2>4, <2>5, <2>6, HoldsTail
  <2> QED BY <2>0, <2>5, <2>7
<1>7. ASSUME NEW d \in Dir, Show(d)
      PROVE  FALSE
  <2> DEFINE k == From(User(Opp(d)), d)
  <2>1. k \in Links /\ chan[k][d] # << >> /\ chan' = Unread(k, d)
    BY <1>7, EndPlaces DEF Show, Arrived, From, User, Opp, Dir
  <2> QED BY <1>3, <2>1
<1>8. ASSUME NEW d \in Dir, Type(d)
      PROVE  FALSE
  <2> DEFINE k == To(User(d), d)
             m == Data(sent[d] + 1)
  <2>1. k \in Links
    BY EndPlaces DEF To, User, Dir
  <2>2. chan' = After(k, d, m)
    BY <1>8 DEF Type
  <2>3. sent[d] + 1 \in Nat
    BY <1>0 DEF TypeOK
  <2>4. m \in Frame /\ m.type # "err"
    BY <2>3, FrameTypes DEF Data
  <2> QED BY <1>4, <2>1, <2>2, <2>4
<1>9. ASSUME NEW k \in Links, LoseStream(k)
      PROVE  FALSE
  <2>1. chan' = [chan EXCEPT ![k] = [d \in Dir |-> << >>]]
    BY <1>9, LoseEffect
  <2>2. chan'[l]["b"] = << >> \/ chan'[l]["b"] = chan[l]["b"]
    BY <1>0, <2>1, Directions DEF ChanType
  <2> QED BY <2>2, HoldsEmpty
<1> QED BY <1>1, <1>2, <1>5, <1>6, <1>7, <1>8, <1>9, StepKinds DEF DataStep

\* The verdict is Error only on reading one.
LEMMA ErrVerdict ==
  ASSUME IInv, [Next]_vars, verdict' = "err"
  PROVE  verdict = "err" \/ Holds(chan[0]["b"], "err")
<1> USE DEF taskVars, others
<1>0. TypeOK /\ chan \in ChanType
  BY TypedChan DEF IInv
<1>1. CASE DialerFails
  BY <1>0, <1>1, EndPlaces, Directions, HoldsTail DEF DialerFails, Arrived, ChanType
<1>2. CASE QuitStep /\ ~DialerFails
  <2>1. verdict' = verdict
    BY <1>2 DEF QuitStep, RefuseChain, OpenFails, AwaitErr, FailUpstream, TaskIoFails, CopyDone,
         CopyError, DialerGivesUp, DialerIoFails, DialerBails, ListenerRefuses, NetcatDone,
         NetcatError, ExitUser, CrashRelay, Return
  <2> QED BY <2>1
<1>3. CASE DialerReadsOk
  BY <1>3 DEF DialerReadsOk
<1>4. CASE ~QuitStep /\ ~DialerReadsOk
  <2>1. verdict' = verdict
    BY <1>4, StepCases
       DEF Still, ReadChain, SendDial, OpenStream, AwaitOk, Reply, CopyData, ForwardChain,
           DialerConnect, DialerOpen, StartNetcat, ListenerReadsRequest, Show, Type,
           LoseStream
  <2> QED BY <2>1
<1> QED BY <1>1, <1>2, <1>3, <1>4

\* An Error stands for a task that gave up.
LEMMA ErrBackedStep ==
  ASSUME IInv, NobodyBeyond, ErrBacked, [Next]_vars
  PROVE  ErrBacked'
<1>0. TypeOK /\ OkBacked /\ chan \in ChanType
  BY TypedChan DEF IInv
<1>1. ASSUME NEW l \in Links, Holds(chan'[l]["b"], "err")
      PROVE  GaveUp(l)'
  <2>1. CASE Holds(chan[l]["b"], "err")
    BY <2>1, GaveUpStays DEF ErrBacked
  <2>2. CASE ~Holds(chan[l]["b"], "err")
    <3>0. /\ l + 1 \in Tasks /\ l + 1 \in Links /\ l + 1 \in Nodes /\ l \in Int /\ N \in Int
          /\ l + 1 > l
      <4>1. l + 1 \in Tasks
        BY <1>1, <2>2, ErrEffect
      <4>2. l \in Int /\ N \in Int
        BY EndPlaces
      <4> QED BY <4>1, <4>2, TaskPlaces
    <3>1. CASE OpenFails(l + 1)
      <4>1. pc[l + 1] = "opening" /\ attempt[l + 1] = MaxAttempts - 1 /\ FailUpstream(l + 1)
        BY <3>1 DEF OpenFails
      <4>2. pc'[l + 1] = "failed" /\ attempt'[l + 1] = MaxAttempts - 1
        BY <3>0, <4>1 DEF FailUpstream, Leave, taskVars
      <4>3. ASSUME NEW u \in (l + 1 + 1)..(N + 1)
            PROVE  pc'[u] = "none"
        <5>1. u \in Nodes /\ u > l + 1
          BY <3>0 DEF Nodes, Links
        <5>2. pc[u] = "none"
          BY <3>0, <4>1, <5>1 DEF NobodyBeyond, NotYetOpen
        <5>3. u \notin {l + 1}
          BY <3>0, <5>1
        <5> QED BY <4>1, <5>1, <5>2, <5>3 DEF FailUpstream, Leave
      <4>4. \A u \in (l + 1)..(l + 1) : pc'[u] = "failed"
        BY <3>0, <4>2
      <4> QED BY <3>0, <4>2, <4>3, <4>4 DEF GaveUp
    <3>2. CASE AwaitErr(l + 1)
      <4>1. /\ Holds(chan[l + 1]["b"], "err") /\ pc'[l + 1] = "failed"
        BY <1>0, <3>0, <3>2, HoldsTail, Directions
           DEF AwaitErr, Arrived, FailUpstream, Leave, ChanType
      <4>2. GaveUp(l + 1)'
        BY <3>0, <4>1, GaveUpStays DEF ErrBacked
      <4>3. PICK t \in Tasks : /\ t > l + 1 /\ attempt'[t] = MaxAttempts - 1
                               /\ \A u \in (l + 1 + 1)..t : pc'[u] = "failed"
                               /\ \A u \in (t + 1)..(N + 1) : pc'[u] = "none"
        BY <4>2 DEF GaveUp
      <4>4. t \in Int /\ t > l /\ \A u \in (l + 1)..t : u = l + 1 \/ u \in (l + 1 + 1)..t
        BY <3>0, <4>3 DEF Tasks
      <4>5. \A u \in (l + 1)..t : pc'[u] = "failed"
        BY <4>1, <4>3, <4>4
      <4> QED BY <4>3, <4>4, <4>5 DEF GaveUp
    <3>3. CASE pc[l + 1] = "bridging" /\ Holds(chan[l + 1]["b"], "err")
      <4>1. Beyond(l + 1) /\ GaveUp(l + 1)
        BY <1>0, <3>0, <3>3 DEF OkBacked, ErrBacked
      <4>2. PICK t \in Tasks : t > l + 1 /\ pc[t] = "failed"
        BY <3>0, <4>1 DEF GaveUp, Tasks
      <4> QED BY <4>1, <4>2 DEF Beyond, Up
    <3> QED BY <1>1, <2>2, <3>1, <3>2, <3>3, ErrEffect DEF Reports
  <2> QED BY <2>1, <2>2
<1>2. ASSUME verdict' = "err"
      PROVE  GaveUp(0)'
  BY <1>2, ErrVerdict, GaveUpStays, EndPlaces DEF ErrBacked
<1> QED BY <1>1, <1>2 DEF ErrBacked, Holds

-----------------------------------------------------------------------------
(* The ends of the streams.                                                *)

\* Link l is the one user d or task t writes direction d to, whose input
\* just ended.
Shuts(l, d) ==
  \/ StdinEof(d) /\ l = To(User(d), d)
  \/ \E t \in Tasks : CopyEof(t, d) /\ l = To(t, d)

\* One end of a stream at each step: opened, dropped by its writer, or shut.
EndMove(l, d) ==
  \/ /\ end'[l][d] = end[l][d]
     /\ pc'[l + 1] = "none" <=> pc[l + 1] = "none"
     /\ end[l][d] = "open" /\ pc'[Writer(l, d)] \in Gone => pc[Writer(l, d)] \in Gone
  \/ /\ end'[l][d] = "open" /\ pc[l + 1] = "none" /\ pc'[l + 1] = "reading"
     /\ pc'[l] \in {"forwarding", "replying"}
  \/ /\ end[l][d] = "open" /\ end'[l][d] = "gone" /\ pc'[Writer(l, d)] \in Gone
     /\ pc'[l + 1] = "none" <=> pc[l + 1] = "none"
  \/ /\ end[l][d] = "open" /\ end'[l][d] = "shut"
     /\ pc[Writer(l, d)] = "bridging" /\ pc' = pc
     /\ QuietStep /\ Shuts(l, d)

\* The nodes at the two sides of a link.
LEMMA LinkPlaces ==
  ASSUME NEW l \in Links, NEW d \in Dir
  PROVE  /\ Writer(l, d) \in Nodes /\ Reader(l, d) \in Nodes
         /\ Writer(l, d) # Reader(l, d)
         /\ Writer(l, d) \in {l, l + 1} /\ Reader(l, d) \in {l, l + 1}
BY EndPlaces DEF Writer, Reader, Dir, Links, Nodes

\* The links of a user, and of a task, and the nodes beside them.
LEMMA UserPlaces ==
  ASSUME NEW d \in Dir
  PROVE  /\ User(d) \in Nodes /\ Opp(d) \in Dir /\ Opp(Opp(d)) = d /\ User(Opp(d)) # User(d)
         /\ First(d) \in Links /\ Last(d) \in Links
         /\ Writer(First(d), d) = User(d) /\ Reader(Last(d), d) = User(Opp(d))
         /\ \A t \in Tasks : t # User(d)
         /\ \A l \in Links : /\ Writer(l, d) = User(d) => l = First(d)
                             /\ Reader(l, d) = User(Opp(d)) => l = Last(d)
                             /\ Writer(l, d) # User(Opp(d)) /\ Reader(l, d) # User(d)
BY NType DEF User, Opp, First, Last, Writer, Reader, To, From, Links, Nodes, Tasks, Dir

LEMMA CopyPlaces ==
  ASSUME NEW t \in Tasks, NEW d \in Dir
  PROVE  /\ To(t, d) \in Links /\ From(t, d) \in Links
         /\ Writer(To(t, d), d) = t /\ Reader(From(t, d), d) = t
         /\ \A l \in Links : /\ Writer(l, d) = t => l = To(t, d)
                             /\ Reader(l, d) = t => l = From(t, d)
BY NType DEF Writer, Reader, To, From, Links, Tasks, Dir

\* The steps of a program keep everyone else where they are, and nobody
\* returns.
LEMMA ProgramPc ==
  ASSUME TypeOK, ProgramStep, NEW n \in Nodes
  PROVE  /\ pc'[n] = "none" => pc[n] = "none"
         /\ pc'[n] \in Gone => pc'[n] = pc[n]
<1> USE EndPlaces DEF Gone, Goto, Open
<1>0. pc \in [Nodes -> DialerPC \cup TaskPC \cup Gone]
  BY DEF TypeOK
<1>1. ASSUME NEW t \in Tasks,
             ReadChain(t) \/ SendDial(t) \/ OpenStream(t) \/ AwaitOk(t) \/ Reply(t)
      PROVE  (pc'[n] = "none" => pc[n] = "none") /\ (pc'[n] \in Gone => pc'[n] = pc[n])
  BY <1>0, <1>1, TaskPlaces DEF ReadChain, SendDial, OpenStream, AwaitOk, Reply
<1>2. ASSUME NEW m \in Links, ForwardChain(m)
      PROVE  (pc'[n] = "none" => pc[n] = "none") /\ (pc'[n] \in Gone => pc'[n] = pc[n])
  BY <1>0, <1>2 DEF ForwardChain
<1>3. CASE \/ DialerConnect \/ DialerOpen \/ DialerReadsOk \/ StartNetcat
           \/ ListenerReadsRequest
  BY <1>0, <1>3 DEF DialerConnect, DialerOpen, DialerReadsOk, StartNetcat, ListenerReadsRequest
<1> QED BY <1>1, <1>2, <1>3 DEF ProgramStep

\* Each end at each step.
LEMMA EndEffect ==
  ASSUME IInv, [Next]_vars, NEW l \in Links, NEW d \in Dir
  PROVE  EndMove(l, d)
<1> USE DEF taskVars, others
<1>0. /\ TypeOK /\ HopsHeld /\ chan \in ChanType
      /\ pc \in [Nodes -> DialerPC \cup TaskPC \cup Gone]
      /\ end \in [Links -> [Dir -> {"none", "open", "shut", "gone"}]]
      /\ l \in Nodes /\ l + 1 \in Nodes /\ Writer(l, d) \in Nodes
  BY TypedChan, EndPlaces, LinkPlaces DEF IInv, TypeOK
<1>1. CASE pc' = pc /\ end' = end
  BY <1>1 DEF EndMove
<1>2. ASSUME NEW t \in Tasks, NEW e \in Dir, CopyEof(t, e)
      PROVE  EndMove(l, d)
  <2>1. /\ pc' = pc /\ end' = [end EXCEPT ![To(t, e)][e] = "shut"]
        /\ pc[t] = "bridging" /\ end[To(t, e)][e] = "open"
    BY <1>2 DEF CopyEof
  <2>2. CASE l = To(t, e) /\ d = e
    <3>1. end'[l][d] = "shut" /\ Writer(l, d) = t
      BY <1>0, <2>1, <2>2, CopyPlaces
    <3>2. QuietStep /\ Shuts(l, d)
      BY <1>2, <2>2 DEF QuietStep, Shuts
    <3> QED BY <2>1, <2>2, <3>1, <3>2 DEF EndMove
  <2>3. CASE ~(l = To(t, e) /\ d = e)
    <3>1. end'[l][d] = end[l][d]
      BY <1>0, <2>1, <2>3
    <3> QED BY <2>1, <3>1 DEF EndMove
  <2> QED BY <2>2, <2>3
<1>3. ASSUME NEW e \in Dir, StdinEof(e)
      PROVE  EndMove(l, d)
  <2>1. /\ pc' = pc /\ end' = [end EXCEPT ![To(User(e), e)][e] = "shut"]
        /\ pc[User(e)] = "bridging" /\ end[To(User(e), e)][e] = "open"
    BY <1>3 DEF StdinEof
  <2>2. CASE l = To(User(e), e) /\ d = e
    <3>1. end'[l][d] = "shut" /\ Writer(l, d) = User(d)
      BY <1>0, <2>1, <2>2, UserPlaces DEF First
    <3>2. QuietStep /\ Shuts(l, d)
      BY <1>3, <2>2 DEF QuietStep, Shuts
    <3> QED BY <2>1, <2>2, <3>1, <3>2 DEF EndMove
  <2>3. CASE ~(l = To(User(e), e) /\ d = e)
    <3>1. end'[l][d] = end[l][d]
      BY <1>0, <2>1, <2>3
    <3> QED BY <2>1, <3>1 DEF EndMove
  <2> QED BY <2>2, <2>3
<1>4. CASE QuietStep
  <2>1. pc' = pc
    BY <1>4, QuietEffect
  <2>2. \/ end' = end
        \/ \E t \in Tasks, e \in Dir : CopyEof(t, e)
        \/ \E e \in Dir : StdinEof(e)
    BY <1>4 DEF QuietStep, vars, RetryOpen, OutputEof, SwarmStep, SwarmDial, DialOutcome
  <2> QED BY <1>1, <1>2, <1>3, <2>1, <2>2
<1>5. CASE QuitStep
  <2>1. PICK S, c : Departs(S, c)
    BY <1>0, <1>5, QuitEffect
  <2>2. Leave(S, c) /\ \A n \in S : Live(n)
    BY <2>1 DEF Departs
  <2>3. /\ end'[l][d] = IF Writer(l, d) \in S /\ end[l][d] = "open" THEN "gone" ELSE end[l][d]
        /\ \A n \in Nodes : /\ n \notin S => pc'[n] = pc[n]
                            /\ n \in S => pc'[n] \in Gone /\ pc[n] # "none"
    BY <2>2 DEF Leave, Gone, Live
  <2>4. pc'[l + 1] = "none" <=> pc[l + 1] = "none"
    BY <1>0, <2>3 DEF Gone
  <2> QED BY <1>0, <2>3, <2>4 DEF EndMove
<1>6. ASSUME NEW m \in Links, NEW p, NEW label, pc[m] = "opening", Open(m, p, label),
             label \in {"forwarding", "replying"}
      PROVE  EndMove(l, d)
  <2>1. /\ m \in Nodes /\ m + 1 \in Nodes /\ m # m + 1 /\ pc[m + 1] = "none"
        /\ m \in Int /\ l \in Int
    BY <1>6, EndPlaces DEF IInv, NobodyAhead, NotYetOpen
  <2>2. /\ pc' = [pc EXCEPT ![m] = label, ![m + 1] = "reading"]
        /\ end' = [end EXCEPT ![m] = [e \in Dir |-> "open"]]
    BY <1>6 DEF Open
  <2>3. pc'[m] = label /\ pc'[m + 1] = "reading"
    BY <1>0, <2>1, <2>2
  <2>4. CASE l = m
    <3>1. end'[l][d] = "open"
      BY <1>0, <2>2, <2>4
    <3> QED BY <1>6, <2>1, <2>3, <2>4, <3>1 DEF EndMove
  <2>5. CASE l # m
    <3>1. end'[l][d] = end[l][d] /\ l + 1 # m + 1
      BY <1>0, <2>1, <2>2, <2>5
    <3>2. pc'[l + 1] = "none" <=> pc[l + 1] = "none"
      BY <1>0, <1>6, <2>1, <2>2, <2>3, <3>1
    <3>3. pc'[Writer(l, d)] \in Gone => pc[Writer(l, d)] \in Gone
      BY <1>0, <1>6, <2>1, <2>2, <2>3 DEF Gone
    <3> QED BY <3>1, <3>2, <3>3 DEF EndMove
  <2> QED BY <2>4, <2>5
<1>7. CASE ProgramStep
  <2>1. \/ \E m \in Links : \E p, label :
             pc[m] = "opening" /\ Open(m, p, label) /\ label \in {"forwarding", "replying"}
        \/ end' = end /\ (pc[l + 1] = "none" => pc'[l + 1] = "none")
    <3>1. CASE DialerOpen \/ \E t \in Tasks : OpenStream(t)
      BY <3>1, EndPlaces, TaskPlaces DEF DialerOpen, OpenStream
    <3>2. CASE ~DialerOpen /\ ~(\E t \in Tasks : OpenStream(t))
      <4>1. ASSUME NEW t \in Tasks, ReadChain(t) \/ SendDial(t) \/ AwaitOk(t) \/ Reply(t)
            PROVE  end' = end /\ (pc[l + 1] = "none" => pc'[l + 1] = "none")
        BY <1>0, <4>1, TaskPlaces DEF ReadChain, SendDial, AwaitOk, Reply, Goto
      <4>2. ASSUME NEW n \in Links, ForwardChain(n)
            PROVE  end' = end /\ (pc[l + 1] = "none" => pc'[l + 1] = "none")
        BY <1>0, <4>2, EndPlaces DEF ForwardChain, Goto
      <4>3. CASE DialerConnect \/ DialerReadsOk \/ StartNetcat \/ ListenerReadsRequest
        BY <1>0, <4>3, EndPlaces
           DEF DialerConnect, DialerReadsOk, StartNetcat, ListenerReadsRequest, Goto
      <4> QED BY <1>7, <3>2, <4>1, <4>2, <4>3 DEF ProgramStep
    <3> QED BY <3>1, <3>2
  <2>2. /\ pc'[l + 1] = "none" => pc[l + 1] = "none"
        /\ pc'[Writer(l, d)] \in Gone => pc[Writer(l, d)] \in Gone
    BY <1>0, <1>7, ProgramPc
  <2> QED BY <1>6, <2>1, <2>2 DEF EndMove
<1>8. CASE DataStep \/ \E k \in Links : LoseStream(k)
  <2>1. pc' = pc /\ end' = end
    BY <1>8, DataEffect, LoseEffect
  <2> QED BY <1>1, <2>1
<1> QED BY <1>4, <1>5, <1>7, <1>8, StepKinds

\* Faults are counted, and only they cut streams.
LEMMA FaultsEffect ==
  ASSUME TypeOK, [Next]_vars
  PROVE  /\ (faults' = faults /\ cut' = cut) \/ faults' = faults + 1
         /\ faults \in Nat /\ faults' \in Nat
         /\ cut \subseteq cut'
<1>0. faults \in Nat
  BY DEF TypeOK
<1>1. CASE QuietStep
  BY <1>0, <1>1, QuietEffect
<1>2. CASE QuitStep
  <2>1. PICK S, c : Departs(S, c)
    BY <1>2, QuitEffect
  <2> QED BY <1>0, <2>1 DEF Departs
<1>3. CASE ProgramStep \/ DataStep
  BY <1>0, <1>3, ProgramEffect, DataEffect
<1>4. ASSUME NEW l \in Links, LoseStream(l)
      PROVE  cut \subseteq cut' /\ faults' = faults + 1
  BY <1>4, LoseEffect
<1> QED BY <1>0, <1>1, <1>2, <1>3, <1>4, StepKinds

\* Nobody comes back.
LEMMA UpStays ==
  ASSUME IInv, [Next]_vars, NEW n \in Nodes
  PROVE  /\ Up(n) => Up(n)'
         /\ pc[n] \in Gone => pc'[n] = pc[n]
         /\ pc'[n] = "closed" => pc[n] \in {"closed", "bridging"}
BY PcEffect DEF PcMove, Up, Gone

\* The ends follow the nodes that write to them.
LEMMA EndsKeptStep ==
  ASSUME IInv, EndsKept, [Next]_vars
  PROVE  EndsKept'
<1>1. ASSUME NEW l \in Links, NEW d \in Dir
      PROVE  /\ end'[l][d] = "none" <=> pc'[l + 1] = "none"
             /\ end'[l][d] = "gone" => pc'[Writer(l, d)] \in Gone
             /\ end'[l][d] = "shut" => Up(Writer(l, d))'
             /\ end'[l][d] = "open" => pc'[Writer(l, d)] \notin Gone
  <2> DEFINE w == Writer(l, d)
  <2>1. EndMove(l, d) /\ w \in Nodes /\ w \in {l, l + 1}
    BY EndEffect, LinkPlaces
  <2>2. /\ end[l][d] = "none" <=> pc[l + 1] = "none"
        /\ end[l][d] = "gone" => pc[w] \in Gone
        /\ end[l][d] = "shut" => Up(w)
        /\ end[l][d] = "open" => pc[w] \notin Gone
    BY DEF EndsKept
  <2>3. (Up(w) => Up(w)') /\ (pc[w] \in Gone => pc'[w] \in Gone)
    BY <2>1, UpStays
  <2>4. pc[w] = "bridging" => Up(w)
    BY DEF Up
  <2>5. CASE /\ end'[l][d] = end[l][d]
             /\ pc'[l + 1] = "none" <=> pc[l + 1] = "none"
             /\ end[l][d] = "open" /\ pc'[w] \in Gone => pc[w] \in Gone
    BY <2>2, <2>3, <2>5
  <2>6. CASE /\ end'[l][d] = "open" /\ pc[l + 1] = "none" /\ pc'[l + 1] = "reading"
             /\ pc'[l] \in {"forwarding", "replying"}
    BY <2>1, <2>6 DEF Gone
  <2>7. CASE /\ end[l][d] = "open" /\ end'[l][d] = "gone" /\ pc'[w] \in Gone
             /\ pc'[l + 1] = "none" <=> pc[l + 1] = "none"
    BY <2>2, <2>7
  <2>8. CASE /\ end[l][d] = "open" /\ end'[l][d] = "shut" /\ pc[w] = "bridging" /\ pc' = pc
    BY <2>2, <2>3, <2>4, <2>8
  <2> QED BY <2>1, <2>5, <2>6, <2>7, <2>8 DEF EndMove
<1>2. faults' = 0 => cut' = {}
  BY FaultsEffect DEF EndsKept, IInv
<1> QED BY <1>1, <1>2 DEF EndsKept

-----------------------------------------------------------------------------
(* What a stream holds.                                                    *)

\* Items are frames, of a type no control frame has.
LEMMA NthType ==
  ASSUME NEW d \in Dir, NEW j \in Nat, j > 0
  PROVE  Nth(d, j) \in Frame /\ Nth(d, j).type \in {"req", "data"}
<1>1. Nth(d, j) = Req \/ \E i \in Nat : Nth(d, j) = Data(i)
  BY DEF Nth
<1> QED BY <1>1, FrameTypes DEF Req, Data

\* A drained stream is between two nodes that took the same.
LEMMA HoldingEmpty ==
  ASSUME NEW d, NEW lo \in Nat, NEW hi \in Nat
  PROVE  Holding(<< >>, d, 0, lo, hi) <=> lo = hi
BY DEF Holding

\* A control frame is alone at the head of what it precedes.
LEMMA HoldingControl ==
  ASSUME NEW m \in Frame, NEW d, NEW lo \in Nat
  PROVE  Holding(Append(<< >>, m), d, 1, lo, lo)
BY DEF Holding

\* The next item is added.
LEMMA HoldingAppend ==
  ASSUME NEW s \in Seq(Frame), NEW d \in Dir, NEW k \in {0, 1},
         NEW lo \in Nat, NEW hi \in Nat, lo <= hi, Holding(s, d, k, lo, hi)
  PROVE  Holding(Append(s, Nth(d, hi + 1)), d, k, lo, hi + 1)
<1> DEFINE m == Nth(d, hi + 1)
<1>1. Len(s) = k + (hi - lo) /\ \A i \in 1..Len(s) : i > k => s[i] = Nth(d, lo + i - k)
  BY DEF Holding
<1>2. /\ Len(Append(s, m)) = Len(s) + 1 /\ Len(s) \in Nat
      /\ \A i \in 1..Len(s) : Append(s, m)[i] = s[i]
      /\ Append(s, m)[Len(s) + 1] = m
  BY NthType
<1>3. Len(Append(s, m)) = k + ((hi + 1) - lo)
  BY <1>1, <1>2
<1>4. ASSUME NEW i \in 1..Len(Append(s, m)), i > k
      PROVE  Append(s, m)[i] = Nth(d, lo + i - k)
  <2>1. CASE i \in 1..Len(s)
    BY <1>1, <1>2, <1>4, <2>1
  <2>2. CASE i = Len(s) + 1
    <3>1. lo + i - k = hi + 1
      BY <1>1, <2>2
    <3> QED BY <1>2, <2>2, <3>1
  <2> QED BY <1>2, <2>1, <2>2
<1> QED BY <1>3, <1>4 DEF Holding

\* The first frame is taken: the control frame, or the next item.
LEMMA HoldingTail ==
  ASSUME NEW s \in Seq(Frame), s # << >>, NEW d \in Dir, NEW k \in {0, 1},
         NEW lo \in Nat, NEW hi \in Nat, lo <= hi, Holding(s, d, k, lo, hi)
  PROVE  /\ k = 1 => Holding(Tail(s), d, 0, lo, hi)
         /\ k = 0 => /\ lo < hi /\ Head(s) = Nth(d, lo + 1)
                     /\ Holding(Tail(s), d, 0, lo + 1, hi)
<1>1. Len(s) = k + (hi - lo) /\ \A i \in 1..Len(s) : i > k => s[i] = Nth(d, lo + i - k)
  BY DEF Holding
<1>2. /\ Head(s) = s[1] /\ Len(s) \in Nat /\ Len(s) > 0
      /\ Len(Tail(s)) = Len(s) - 1
      /\ \A i \in 1..Len(Tail(s)) : Tail(s)[i] = s[i + 1]
  BY HeadTailProperties
<1>3. ASSUME k = 1
      PROVE  Holding(Tail(s), d, 0, lo, hi)
  <2>1. Len(Tail(s)) = 0 + (hi - lo)
    BY <1>1, <1>2, <1>3
  <2>2. ASSUME NEW i \in 1..Len(Tail(s))
        PROVE  Tail(s)[i] = Nth(d, lo + i - 0)
    <3>1. i + 1 \in 1..Len(s) /\ i + 1 > k /\ lo + (i + 1) - k = lo + i - 0
      BY <1>2, <1>3
    <3> QED BY <1>1, <1>2, <3>1
  <2> QED BY <2>1, <2>2 DEF Holding
<1>4. ASSUME k = 0
      PROVE  /\ lo < hi /\ Head(s) = Nth(d, lo + 1)
             /\ Holding(Tail(s), d, 0, lo + 1, hi)
  <2>1. Len(Tail(s)) = 0 + (hi - (lo + 1)) /\ lo < hi
    BY <1>1, <1>2, <1>4
  <2>2. Head(s) = Nth(d, lo + 1)
    <3>1. 1 \in 1..Len(s) /\ 1 > k /\ lo + 1 - k = lo + 1
      BY <1>2, <1>4
    <3> QED BY <1>1, <1>2, <3>1
  <2>3. ASSUME NEW i \in 1..Len(Tail(s))
        PROVE  Tail(s)[i] = Nth(d, (lo + 1) + i - 0)
    <3>1. i + 1 \in 1..Len(s) /\ i + 1 > k /\ lo + (i + 1) - k = (lo + 1) + i - 0
      BY <1>2, <1>4
    <3> QED BY <1>1, <1>2, <3>1
  <2> QED BY <2>1, <2>2, <2>3 DEF Holding
<1> QED BY <1>3, <1>4

-----------------------------------------------------------------------------
(* The ways one direction of a stream moves, c and e being the counts      *)
(* before and after.                                                       *)

\* Nothing happens to it.
LEMMA WireKept ==
  ASSUME NEW l \in Links, NEW d \in Dir, NEW c, NEW e, Wire(l, d, c),
         e[Reader(l, d)] = c[Reader(l, d)], e[Writer(l, d)] = c[Writer(l, d)],
         chan'[l][d] = chan[l][d], Broken(l, d)' <=> Broken(l, d),
         (Asks(l, d)' <=> Asks(l, d)) \/ chan[l][d] = << >>
  PROVE  Wire(l, d, e)'
<1>1. Prefix(l, d)' = Prefix(l, d)
  BY DEF Prefix
<1> QED BY <1>1 DEF Wire

\* It breaks, or is broken.
LEMMA WireLost ==
  ASSUME NEW l \in Links, NEW d \in Dir, NEW e,
         e[Reader(l, d)] <= e[Writer(l, d)],
         Broken(l, d)', chan'[l][d] = << >>
  PROVE  Wire(l, d, e)'
<1>1. Prefix(l, d)' = 0
  BY DEF Prefix
<1> QED BY <1>1 DEF Wire

\* A drained stream that is not broken is between two nodes that took the same.
LEMMA WireDrained ==
  ASSUME NEW l \in Links, NEW d \in Dir, NEW c \in [Nodes -> Nat], Wire(l, d, c),
         chan[l][d] = << >>, ~Broken(l, d)
  PROVE  c[Reader(l, d)] = c[Writer(l, d)]
<1>1. Prefix(l, d) = 0
  BY DEF Prefix
<1>2. Holding(<< >>, d, 0, c[Reader(l, d)], c[Writer(l, d)])
  BY <1>1 DEF Wire
<1> QED BY <1>2, LinkPlaces, HoldingEmpty

\* A control frame is written, and its reader waits for it.
LEMMA WireAnswers ==
  ASSUME chan \in ChanType, NEW l \in Links, NEW d \in Dir, NEW c \in [Nodes -> Nat], Wire(l, d, c),
         NEW m \in Frame, m.type \in Control(d), chan'[l][d] = After(l, d, m)[l][d],
         Broken(l, d)' <=> Broken(l, d), chan[l][d] = << >>, Broken(l, d) \/ Asks(l, d)'
  PROVE  Wire(l, d, c)'
<1>1. CASE Broken(l, d)
  BY <1>1, WireLost DEF After, Wire
<1>2. CASE ~Broken(l, d)
  <2>1. chan'[l][d] = Append(<< >>, m)
    BY <1>2 DEF After, ChanType
  <2>2. chan'[l][d] # << >> /\ Head(chan'[l][d]) = m
    BY <2>1
  <2>3. Prefix(l, d)' = 1
    BY <1>2, <2>2 DEF Prefix
  <2>4. c[Reader(l, d)] = c[Writer(l, d)] /\ c[Reader(l, d)] \in Nat
    BY <1>2, WireDrained, LinkPlaces
  <2>5. Holding(chan'[l][d], d, 1, c[Reader(l, d)], c[Writer(l, d)])
    BY <2>1, <2>4, HoldingControl
  <2> QED BY <1>2, <2>2, <2>3, <2>4, <2>5 DEF Wire
<1> QED BY <1>1, <1>2

\* The reader reads the control frame.
LEMMA WireAnswered ==
  ASSUME chan \in ChanType, NEW l \in Links, NEW d \in Dir, NEW c \in [Nodes -> Nat], Wire(l, d, c),
         Asks(l, d), ~Asks(l, d)', chan[l][d] # << >>, chan'[l][d] = Tail(chan[l][d]),
         Broken(l, d)' <=> Broken(l, d)
  PROVE  Wire(l, d, c)'
<1>1. ~Broken(l, d)
  BY DEF Wire
<1>2. Prefix(l, d) = 1 /\ Prefix(l, d)' = 0
  BY DEF Prefix
<1>3. /\ c[Reader(l, d)] \in Nat /\ c[Writer(l, d)] \in Nat
      /\ c[Reader(l, d)] <= c[Writer(l, d)]
      /\ Holding(chan[l][d], d, 1, c[Reader(l, d)], c[Writer(l, d)])
      /\ chan[l][d] \in Seq(Frame)
  BY <1>1, <1>2, LinkPlaces DEF Wire, ChanType
<1>4. Holding(chan'[l][d], d, 0, c[Reader(l, d)], c[Writer(l, d)])
  BY <1>3, HoldingTail
<1> QED BY <1>1, <1>2, <1>3, <1>4 DEF Wire

\* The writer passes its next item on, to a reader that has no control frame
\* left to wait for.
LEMMA WireSends ==
  ASSUME chan \in ChanType, NEW l \in Links, NEW d \in Dir,
         NEW c \in [Nodes -> Nat], NEW e \in [Nodes -> Nat], Wire(l, d, c),
         e[Reader(l, d)] = c[Reader(l, d)], e[Writer(l, d)] = c[Writer(l, d)] + 1,
         chan'[l][d] = After(l, d, Nth(d, c[Writer(l, d)] + 1))[l][d],
         Broken(l, d)' <=> Broken(l, d), Asks(l, d)' <=> Asks(l, d),
         ~Broken(l, d) => ~Asks(l, d) \/ chan[l][d] # << >>
  PROVE  Wire(l, d, e)'
<1>1. /\ c[Reader(l, d)] \in Nat /\ c[Writer(l, d)] \in Nat
      /\ c[Reader(l, d)] <= c[Writer(l, d)] /\ e[Reader(l, d)] <= e[Writer(l, d)]
      /\ chan[l][d] \in Seq(Frame)
  BY LinkPlaces DEF Wire, ChanType
<1>2. CASE Broken(l, d)
  <2>1. chan'[l][d] = << >>
    BY <1>2 DEF After, Wire
  <2> QED BY <1>1, <1>2, <2>1, WireLost
<1>3. CASE ~Broken(l, d)
  <2> DEFINE m == Nth(d, c[Writer(l, d)] + 1)
  <2>1. chan'[l][d] = Append(chan[l][d], m)
    BY <1>3 DEF After, ChanType
  <2>2. m \in Frame
    BY <1>1, NthType
  <2>3. /\ chan'[l][d] # << >>
        /\ chan[l][d] # << >> => Head(chan'[l][d]) = Head(chan[l][d])
    <3>1. \A s \in Seq(Frame), x \in Frame :
            Append(s, x) # << >> /\ (s # << >> => Head(Append(s, x)) = Head(s))
      OBVIOUS
    <3> QED BY <1>1, <2>1, <2>2, <3>1
  <2>4. Prefix(l, d)' = Prefix(l, d) /\ Prefix(l, d) \in {0, 1}
    BY <1>3, <2>3 DEF Prefix
  <2>5. Holding(chan[l][d], d, Prefix(l, d), c[Reader(l, d)], c[Writer(l, d)])
    BY <1>3 DEF Wire
  <2>6. Holding(chan'[l][d], d, Prefix(l, d), c[Reader(l, d)], c[Writer(l, d)] + 1)
    BY <1>1, <2>1, <2>4, <2>5, HoldingAppend
  <2>7. Prefix(l, d) = 1 => chan[l][d] # << >>
    BY DEF Prefix
  <2>8. Prefix(l, d) = 1 => Head(chan'[l][d]).type \in Control(d)
    BY <2>3, <2>7 DEF Wire
  <2> QED BY <1>1, <1>3, <2>4, <2>6, <2>8 DEF Wire
<1> QED BY <1>2, <1>3

\* What a reader that waits for no control frame reads is the next item.
LEMMA NextItem ==
  ASSUME chan \in ChanType, NEW l \in Links, NEW d \in Dir, NEW c \in [Nodes -> Nat], Wire(l, d, c),
         ~Asks(l, d), chan[l][d] # << >>
  PROVE  /\ c[Reader(l, d)] < c[Writer(l, d)]
         /\ Head(chan[l][d]) = Nth(d, c[Reader(l, d)] + 1)
         /\ Holding(Tail(chan[l][d]), d, 0, c[Reader(l, d)] + 1, c[Writer(l, d)])
<1>1. Prefix(l, d) = 0 /\ ~Broken(l, d)
  BY DEF Prefix, Wire
<1>2. /\ c[Reader(l, d)] \in Nat /\ c[Writer(l, d)] \in Nat
      /\ c[Reader(l, d)] <= c[Writer(l, d)]
      /\ Holding(chan[l][d], d, 0, c[Reader(l, d)], c[Writer(l, d)])
      /\ chan[l][d] \in Seq(Frame)
  BY <1>1, LinkPlaces DEF Wire, ChanType
<1> QED BY <1>2, HoldingTail

LEMMA WireTakes ==
  ASSUME chan \in ChanType, NEW l \in Links, NEW d \in Dir,
         NEW c \in [Nodes -> Nat], NEW e \in [Nodes -> Nat], Wire(l, d, c),
         e[Reader(l, d)] = c[Reader(l, d)] + 1, e[Writer(l, d)] = c[Writer(l, d)],
         ~Asks(l, d), ~Asks(l, d)', chan[l][d] # << >>, chan'[l][d] = Tail(chan[l][d]),
         Broken(l, d)' <=> Broken(l, d)
  PROVE  Wire(l, d, e)'
<1>1. Prefix(l, d)' = 0 /\ ~Broken(l, d)
  BY DEF Prefix, Wire
<1>2. /\ c[Reader(l, d)] \in Nat /\ c[Writer(l, d)] \in Nat
      /\ c[Reader(l, d)] < c[Writer(l, d)]
      /\ Holding(Tail(chan[l][d]), d, 0, c[Reader(l, d)] + 1, c[Writer(l, d)])
  BY NextItem, LinkPlaces
<1> QED BY <1>1, <1>2 DEF Wire

-----------------------------------------------------------------------------
(* What each step does to each direction of each stream.                   *)

\* As long as no count changes, the counts still fit this stream.
Stays(l, d) == \A c \in [Nodes -> Nat] : Through(d, c) => Wire(l, d, c)'

\* Whether a reader waits for a control frame, and whether its stream is
\* broken, is up to the reader and to the stream alone.
LEMMA ReaderKept ==
  ASSUME NEW l \in Links, NEW d \in Dir, pc'[Reader(l, d)] = pc[Reader(l, d)], cut' = cut
  PROVE  (Broken(l, d)' <=> Broken(l, d)) /\ (Asks(l, d)' <=> Asks(l, d))
BY DEF Broken, Asks, Reader, Dir

LEMMA StaysKept ==
  ASSUME NEW l \in Links, NEW d \in Dir, pc'[Reader(l, d)] = pc[Reader(l, d)], cut' = cut,
         chan'[l][d] = chan[l][d]
  PROVE  Stays(l, d)
<1> SUFFICES ASSUME NEW c \in [Nodes -> Nat], Through(d, c)
             PROVE  Wire(l, d, c)'
  BY DEF Stays
<1>1. Wire(l, d, c)
  BY DEF Through
<1> QED BY <1>1, WireKept, ReaderKept

\* One node moves on in its program.
LEMMA GotoLink ==
  ASSUME TypeOK, NEW n \in Nodes, NEW label, pc[n] \notin Gone, label \notin Gone, Goto(n, label),
         cut' = cut, NEW l \in Links, NEW d \in Dir
  PROVE  /\ Broken(l, d)' <=> Broken(l, d)
         /\ Reader(l, d) # n => (Asks(l, d)' <=> Asks(l, d))
         /\ d = "f" /\ pc[n] # "reading" /\ label # "reading" => (Asks(l, d)' <=> Asks(l, d))
         /\ d = "b" /\ pc[n] # "awaiting" /\ label # "awaiting" => (Asks(l, d)' <=> Asks(l, d))
<1>1. \A m \in Nodes : pc'[m] = IF m = n THEN label ELSE pc[m]
  BY DEF Goto, TypeOK
<1>2. l \in Nodes /\ l + 1 \in Nodes /\ Reader(l, d) \in Nodes
  BY EndPlaces, LinkPlaces
<1> QED BY <1>1, <1>2 DEF Broken, Asks, Reader, Dir

\* It reads and writes nothing in this direction of this stream.
LEMMA GotoStays ==
  ASSUME TypeOK, NEW n \in Nodes, NEW label, pc[n] \notin Gone, label \notin Gone, Goto(n, label),
         cut' = cut, NEW l \in Links, NEW d \in Dir, chan'[l][d] = chan[l][d],
         \/ Reader(l, d) # n
         \/ d = "f" /\ pc[n] # "reading" /\ label # "reading"
         \/ d = "b" /\ pc[n] # "awaiting" /\ label # "awaiting"
         \/ chan[l][d] = << >>
  PROVE  Stays(l, d)
<1> SUFFICES ASSUME NEW c \in [Nodes -> Nat], Through(d, c)
             PROVE  Wire(l, d, c)'
  BY DEF Stays
<1>1. Wire(l, d, c)
  BY DEF Through
<1>2. (Broken(l, d)' <=> Broken(l, d)) /\ ((Asks(l, d)' <=> Asks(l, d)) \/ chan[l][d] = << >>)
  BY GotoLink
<1> QED BY <1>1, <1>2, WireKept

\* A result is written to a node that waits for it, or is gone.
LEMMA AnswerStays ==
  ASSUME IInv, AskedFor, AnswersKept, NEW l \in Links, l + 1 \in Tasks,
         pc[l + 1] \in {"opening", "awaiting", "replying"},
         NEW m \in {Ok, Err}, chan'[l]["b"] = After(l, "b", m)[l]["b"],
         pc'[l] = pc[l], cut' = cut
  PROVE  Stays(l, "b")
<1>1. /\ chan \in ChanType /\ "b" \in Dir
      /\ m \in Frame /\ m.type \in Control("b")
  BY TypedChan, EndPlaces, FrameTypes DEF IInv, Control, Ok, Err, Dir
<1>2. chan[l]["b"] = << >>
  BY DEF AnswersKept, Gone
<1>3. Reader(l, "b") = l
  BY DEF Reader
<1>4. pc[l] \in {"awaiting", "failed"}
  <2>1. \A t \in Tasks : pc[t] \in {"opening", "awaiting", "replying"} =>
          pc[t - 1] \in {"awaiting", "failed"}
    BY DEF AskedFor
  <2>2. PICK t \in Tasks : t = l + 1
    OBVIOUS
  <2>3. t - 1 = l
    BY <2>2, EndPlaces
  <2> QED BY <2>1, <2>2, <2>3
<1>5. Broken(l, "b") \/ Asks(l, "b")
  BY <1>3, <1>4 DEF Broken, Asks, Gone
<1>6. (Broken(l, "b")' <=> Broken(l, "b")) /\ (Asks(l, "b")' <=> Asks(l, "b"))
  BY <1>1, <1>3, ReaderKept
<1> SUFFICES ASSUME NEW c \in [Nodes -> Nat], Through("b", c)
             PROVE  Wire(l, "b", c)'
  BY DEF Stays
<1>7. Wire(l, "b", c)
  BY DEF Through
<1> QED BY <1>1, <1>2, <1>5, <1>6, <1>7, WireAnswers

\* Quiet steps.
LEMMA QuietWires ==
  ASSUME QuietStep, NEW l \in Links, NEW d \in Dir
  PROVE  Stays(l, d)
BY QuietEffect, StaysKept

\* Nodes that return.
LEMMA QuitWires ==
  ASSUME IInv, AskedFor, AnswersKept, QuitStep, NEW l \in Links, NEW d \in Dir
  PROVE  Stays(l, d)
<1>0. TypeOK /\ chan \in ChanType /\ Reader(l, d) \in Nodes
  BY TypedChan, LinkPlaces DEF IInv
<1>1. PICK S, k : Departs(S, k)
  BY <1>0, QuitEffect
<1>2. /\ cut' = cut
      /\ \A n \in Nodes : /\ n \in S => pc'[n] \in Gone
                          /\ n \notin S => pc'[n] = pc[n]
  BY <1>1 DEF Departs, Leave, Gone
<1>3. /\ chan'[l][d] = IF Reader(l, d) \in S THEN << >> ELSE k[l][d]
      /\ \/ k[l][d] = chan[l][d]
         \/ /\ d = "b" /\ l + 1 \in Tasks /\ S = {l + 1} /\ Reports(l + 1)
            /\ k = After(l, "b", Err)
  BY <1>0, <1>1, DepartStreams
<1>4. CASE Reader(l, d) \in S
  <2>1. Broken(l, d)' /\ chan'[l][d] = << >>
    BY <1>0, <1>2, <1>3, <1>4 DEF Broken
  <2>2. \A c \in [Nodes -> Nat] : Through(d, c) => c[Reader(l, d)] <= c[Writer(l, d)]
    BY DEF Through, Wire
  <2> QED BY <2>1, <2>2, WireLost DEF Stays
<1>5. CASE Reader(l, d) \notin S /\ k[l][d] = chan[l][d]
  BY <1>0, <1>2, <1>3, <1>5, StaysKept
<1>6. CASE /\ Reader(l, d) \notin S /\ d = "b" /\ l + 1 \in Tasks /\ S = {l + 1}
           /\ Reports(l + 1) /\ k = After(l, "b", Err)
  <2>1. Reader(l, d) = l
    BY <1>6 DEF Reader
  <2>2. pc[l + 1] \in {"opening", "awaiting", "replying"}
    BY <1>6 DEF Reports, OpenFails, AwaitErr
  <2>3. chan'[l]["b"] = After(l, "b", Err)[l]["b"] /\ pc'[l] = pc[l]
    BY <1>0, <1>2, <1>3, <1>6, <2>1
  <2> QED BY <1>2, <1>6, <2>1, <2>2, <2>3, AnswerStays
<1> QED BY <1>3, <1>4, <1>5, <1>6

\* A stream that is lost.
LEMMA LoseWires ==
  ASSUME TypeOK, NEW k \in Links, LoseStream(k), NEW l \in Links, NEW d \in Dir
  PROVE  Stays(l, d)
<1>0. chan \in ChanType
  BY TypedChan
<1>1. /\ cut' = cut \cup {k} /\ pc' = pc
      /\ chan' = [chan EXCEPT ![k] = [x \in Dir |-> << >>]]
  BY LoseEffect
<1> SUFFICES ASSUME NEW c \in [Nodes -> Nat], Through(d, c)
             PROVE  Wire(l, d, c)'
  BY DEF Stays
<1>2. Wire(l, d, c)
  BY DEF Through
<1>3. CASE l = k
  <2>1. Broken(l, d)' /\ chan'[l][d] = << >>
    BY <1>0, <1>1, <1>3 DEF Broken, ChanType
  <2> QED BY <1>2, <2>1, WireLost DEF Wire
<1>4. CASE l # k
  <2>1. chan'[l][d] = chan[l][d] /\ (Broken(l, d)' <=> Broken(l, d)) /\ (Asks(l, d)' <=> Asks(l, d))
    BY <1>0, <1>1, <1>4 DEF Broken, Asks, ChanType
  <2> QED BY <1>2, <2>1, WireKept
<1> QED BY <1>3, <1>4

\* A node opens its stream.
LEMMA OpenWires ==
  ASSUME IInv, NEW m \in Links, NEW p, NEW label \in {"forwarding", "replying"},
         pc[m] = "opening", Open(m, p, label), chan' = chan, cut' = cut,
         NEW l \in Links, NEW d \in Dir
  PROVE  Stays(l, d)
<1>0. TypeOK /\ NobodyAhead
  BY DEF IInv
<1>1. /\ m \in Nodes /\ m + 1 \in Nodes /\ m # m + 1 /\ pc[m + 1] = "none"
      /\ chan[m]["f"] = << >> /\ m \in Int /\ l \in Int
  BY <1>0, EndPlaces DEF NobodyAhead, NotYetOpen
<1>2. \A n \in Nodes : pc'[n] = IF n = m + 1 THEN "reading" ELSE IF n = m THEN label ELSE pc[n]
  BY <1>0, <1>1 DEF Open, TypeOK
<1>3. Reader(l, d) \in Nodes /\ l \in Nodes /\ l + 1 \in Nodes
  BY EndPlaces, LinkPlaces
<1>4. Broken(l, d)' <=> Broken(l, d)
  BY <1>1, <1>2, <1>3 DEF Broken, Gone
<1>5. (Asks(l, d)' <=> Asks(l, d)) \/ chan[l][d] = << >>
  BY <1>1, <1>2, <1>3 DEF Asks, Dir
<1> SUFFICES ASSUME NEW c \in [Nodes -> Nat], Through(d, c)
             PROVE  Wire(l, d, c)'
  BY DEF Stays
<1>6. Wire(l, d, c)
  BY DEF Through
<1> QED BY <1>4, <1>5, <1>6, WireKept

\* A node reads the control frame it waits for.
LEMMA ControlWires ==
  ASSUME TypeOK, NEW n \in Nodes, NEW label, pc[n] \notin Gone, label \notin Gone, Goto(n, label),
         cut' = cut, label \notin {"reading", "awaiting"},
         NEW k \in Links, NEW e \in Dir, Reader(k, e) = n, Asks(k, e),
         chan[k][e] # << >>, chan' = Unread(k, e),
         NEW l \in Links, NEW d \in Dir
  PROVE  Stays(l, d)
<1>0. chan \in ChanType
  BY TypedChan
<1>1. /\ chan'[k][e] = Tail(chan[k][e])
      /\ ~(l = k /\ d = e) => chan'[l][d] = chan[l][d]
  BY <1>0, UnreadEffect
<1>2. \A m \in Nodes : pc'[m] = IF m = n THEN label ELSE pc[m]
  BY DEF Goto, TypeOK
<1>3. CASE l = k /\ d = e
  <2>1. ~Asks(l, d)'
    BY <1>2, <1>3 DEF Asks, Reader, Dir
  <2>2. Broken(l, d)' <=> Broken(l, d)
    BY GotoLink
  <2> QED BY <1>0, <1>1, <1>3, <2>1, <2>2, WireAnswered DEF Stays, Through
<1>4. CASE ~(l = k /\ d = e)
  <2>1. CASE Reader(l, d) = n
    <3>1. d # e
      BY <1>4, <2>1, EndPlaces DEF Reader, Dir
    <3>2. \/ d = "f" /\ pc[n] = "awaiting"
          \/ d = "b" /\ pc[n] = "reading"
      BY <3>1 DEF Asks, Reader, Dir
    <3> QED BY <1>1, <1>4, <3>2, GotoStays
  <2>2. CASE Reader(l, d) # n
    BY <1>1, <1>4, <2>2, GotoStays
  <2> QED BY <2>1, <2>2
<1> QED BY <1>3, <1>4

\* A node writes the chain to the next one.
LEMMA ForwardWires ==
  ASSUME IInv, NEW n \in Links, ForwardChain(n), NEW l \in Links, NEW d \in Dir
  PROVE  Stays(l, d)
<1>0. TypeOK /\ HopsHeld /\ NobodyAhead /\ chan \in ChanType
  BY TypedChan DEF IInv
<1>1. /\ pc[n] = "forwarding" /\ Goto(n, "awaiting") /\ cut' = cut
      /\ chan' = After(n, "f", Chain(Tail(hops[n])))
  BY DEF ForwardChain, others
<1>2. /\ n \in Nodes /\ n + 1 \in Nodes /\ n \in Int /\ N \in Int /\ n # N /\ n < N /\ n # n + 1
      /\ "f" \in Dir /\ "b" \in Dir
  BY <1>0, <1>1, EndPlaces, Directions DEF HopsHeld, Links
<1>3. /\ chan[n]["f"] = << >> /\ pc[n + 1] \in {"reading", "failed"}
  BY <1>0, <1>1 DEF NobodyAhead
<1>4. pc[n] \notin Gone /\ "awaiting" \notin Gone
  BY <1>1 DEF Gone
<1>5. CASE l = n /\ d = "f"
  <2>1. Tail(hops[n]) \in Seq(Address)
    <3>1. hops[n] = Rest(n)
      BY <1>0, <1>1 DEF HopsHeld, Links, Tasks
    <3> QED BY <3>1, RestType
  <2>2. Chain(Tail(hops[n])) \in Frame /\ Chain(Tail(hops[n])).type \in Control("f")
    BY <2>1, FrameTypes DEF Chain, Control
  <2>3. pc'[n + 1] = pc[n + 1] /\ Reader(n, "f") = n + 1
    BY <1>0, <1>1, <1>2 DEF Goto, TypeOK, Reader
  <2>4. Broken(n, "f") \/ Asks(n, "f")'
    BY <1>2, <1>3, <2>3 DEF Broken, Asks, Gone
  <2>5. Broken(n, "f")' <=> Broken(n, "f")
    BY <1>1, <1>2, <2>3, ReaderKept
  <2> QED BY <1>0, <1>1, <1>2, <1>3, <1>5, <2>2, <2>4, <2>5, WireAnswers DEF Stays, Through
<1>6. CASE ~(l = n /\ d = "f")
  <2>1. chan'[l][d] = chan[l][d]
    BY <1>0, <1>1, <1>2, <1>6, AfterEffect
  <2>2. CASE l = n /\ d = "b"
    <3>1. SUFFICES ASSUME NEW c \in [Nodes -> Nat], Through(d, c)
                   PROVE  Wire(l, d, c)'
      BY DEF Stays
    <3>2. Wire(l, d, c) /\ ~Up(n + 1)
      BY <1>3, <3>1 DEF Through, Up
    <3>3. c[n + 1] = 0 /\ c[n] <= c[n + 1] /\ Writer(l, d) = n + 1 /\ Reader(l, d) = n
      BY <1>2, <2>2, <3>1, <3>2 DEF Through, Wire, Writer, Reader
    <3>4. ~Asks(l, d)
      BY <1>1, <2>2 DEF Asks
    <3>5. chan[l][d] = << >>
      <4>1. Prefix(l, d) = 0
        BY <3>4 DEF Prefix
      <4>2. ~Broken(l, d) => Len(chan[l][d]) = 0 + (c[n + 1] - c[n])
        BY <3>2, <3>3, <4>1 DEF Wire, Holding
      <4>3. c[n] \in Nat /\ chan[l][d] \in Seq(Frame)
        BY <1>0, <1>2 DEF ChanType
      <4> QED BY <3>2, <3>3, <4>2, <4>3 DEF Wire
    <3>6. Broken(l, d)' <=> Broken(l, d)
      BY <1>0, <1>1, <1>2, <1>4, GotoLink
    <3> QED BY <2>1, <3>2, <3>5, <3>6, WireKept
  <2>3. CASE ~(l = n /\ d = "b")
    <3>1. Reader(l, d) # n \/ d = "f"
      BY <2>3 DEF Reader, Dir
    <3> QED BY <1>0, <1>1, <1>2, <1>4, <2>1, <3>1, GotoStays
  <2> QED BY <2>2, <2>3
<1> QED BY <1>5, <1>6

\* The steps of the programs, except for the request.
LEMMA ProgramWires ==
  ASSUME IInv, Programs, AskedFor, AnswersKept, ProgramStep, NEW l \in Links, NEW d \in Dir,
         d = "f" => ~StartNetcat /\ ~ListenerReadsRequest
  PROVE  Stays(l, d)
<1> USE EndPlaces, Directions DEF others
<1>0. TypeOK /\ HopsHeld /\ ChainAlone /\ chan \in ChanType
  BY TypedChan DEF IInv
<1>1. ASSUME NEW t \in Tasks, ReadChain(t)
      PROVE  Stays(l, d)
  <2>1. /\ pc[t] = "reading" /\ Goto(t, "dialing") /\ cut' = cut
        /\ chan[t - 1]["f"] # << >> /\ chan' = Unread(t - 1, "f")
    BY <1>1 DEF ReadChain, Arrived
  <2>2. /\ t \in Nodes /\ t - 1 \in Links /\ t - 1 < N /\ t - 1 + 1 = t
    BY TaskPlaces DEF Tasks
  <2>3. Reader(t - 1, "f") = t /\ Asks(t - 1, "f")
    BY <2>1, <2>2 DEF Reader, Asks
  <2> QED BY <1>0, <2>1, <2>2, <2>3, ControlWires DEF Gone
<1>2. ASSUME NEW n \in Links, pc[n] = "awaiting", chan[n]["b"] # << >>, chan' = Unread(n, "b"),
             NEW label \in {"replying", "selecting"}, Goto(n, label), cut' = cut
      PROVE  Stays(l, d)
  <2>1. Reader(n, "b") = n /\ Asks(n, "b")
    BY <1>2 DEF Reader, Asks
  <2> QED BY <1>0, <1>2, <2>1, ControlWires DEF Gone
<1>3. CASE DialerReadsOk \/ \E t \in Tasks : AwaitOk(t)
  BY <1>2, <1>3, TaskPlaces DEF DialerReadsOk, AwaitOk, Arrived
<1>4. ASSUME NEW n \in Nodes, NEW label, pc[n] \notin Gone, label \notin Gone, Goto(n, label),
             cut' = cut, chan'[l][d] = chan[l][d],
             pc[n] # "awaiting", label # "awaiting",
             d = "f" => pc[n] # "reading" /\ label # "reading"
      PROVE  Stays(l, d)
  BY <1>0, <1>4, GotoStays DEF Dir
<1>5. CASE DialerConnect \/ \E t \in Tasks : SendDial(t)
  BY <1>4, <1>5, TaskPlaces DEF DialerConnect, SendDial, Gone
<1>6. CASE DialerOpen \/ \E t \in Tasks : OpenStream(t)
  BY <1>6, TaskPlaces, OpenWires DEF DialerOpen, OpenStream
<1>7. ASSUME NEW t \in Tasks, Reply(t)
      PROVE  Stays(l, d)
  <2>1. /\ pc[t] = "replying" /\ Goto(t, "bridging") /\ cut' = cut
        /\ chan' = After(t - 1, "b", Ok)
    BY <1>7 DEF Reply
  <2>2. /\ t \in Nodes /\ t - 1 \in Links /\ t - 1 \in Nodes /\ t - 1 + 1 = t /\ t - 1 # t
    BY TaskPlaces DEF Tasks
  <2>3. CASE l = t - 1 /\ d = "b"
    <3>1. pc'[l] = pc[l] /\ l + 1 \in Tasks /\ pc[l + 1] = "replying"
      BY <1>0, <2>1, <2>2, <2>3 DEF Goto, TypeOK
    <3> QED BY <2>1, <2>3, <3>1, AnswerStays
  <2>4. CASE ~(l = t - 1 /\ d = "b")
    <3>1. chan'[l][d] = chan[l][d]
      BY <1>0, <2>1, <2>2, <2>4, AfterEffect
    <3> QED BY <1>4, <2>1, <2>2, <3>1 DEF Gone
  <2> QED BY <2>3, <2>4
<1>8. CASE StartNetcat
  <2>1. /\ d = "b" /\ pc[0] = "selecting" /\ Goto(0, "bridging") /\ cut' = cut
        /\ chan' = After(0, "f", Req)
    BY <1>8 DEF StartNetcat, Dir
  <2>2. chan'[l][d] = chan[l][d]
    BY <1>0, <2>1, AfterEffect
  <2> QED BY <1>4, <2>1, <2>2 DEF Gone
<1>9. CASE ListenerReadsRequest
  <2>1. /\ d = "b" /\ pc[N + 1] = "reading" /\ Goto(N + 1, "bridging") /\ cut' = cut
        /\ chan' = Unread(N, "f")
    BY <1>9 DEF ListenerReadsRequest, Dir
  <2>2. chan'[l][d] = chan[l][d]
    BY <1>0, <2>1, UnreadEffect
  <2> QED BY <1>4, <2>1, <2>2 DEF Gone
<1> QED BY <1>1, <1>3, <1>5, <1>6, <1>7, <1>8, <1>9, ForwardWires DEF ProgramStep

-----------------------------------------------------------------------------
(* While nothing failed, ends come in before they are passed on.           *)

\* Every node is a task or one of the two ends.
LEMMA NodeCases ==
  ASSUME NEW n \in Nodes
  PROVE  n \in Tasks \/ \E d \in Dir : n = User(d)
<1>1. n \in Tasks \/ n = 0 \/ n = N + 1
  BY NType DEF Nodes, Tasks
<1>2. User("f") = 0 /\ User("b") = N + 1
  BY DEF User
<1> QED BY <1>1, <1>2, Directions

\* Whose session it is: the listener's began after the last relay's task
\* was up, and theirs after those beyond.
LEMMA RequestCame ==
  ASSUME InOrder, Up(N + 1)
  PROVE  Up(N)
<1>1. PICK c \in [Nodes -> 0..(sent["f"] + 1)] : Through("f", c)
  BY Directions DEF InOrder
<1>2. User(Opp("f")) = N + 1 /\ Reader(N, "f") = N + 1 /\ Writer(N, "f") = N
  BY DEF User, Opp, Reader, Writer
<1>3. c[N + 1] = Len(recv["f"]) + 1 /\ c[N + 1] <= c[N]
  BY <1>1, <1>2, EndPlaces DEF Through, Got, Wire
<1>4. c[N + 1] # 0
  BY <1>3
<1>5. ~Up(N) => c[N] = 0
  BY <1>1, EndPlaces DEF Through
<1> QED BY <1>3, <1>4, <1>5

\* Nobody fails beside a node that copies.
LEMMA Neighbours ==
  ASSUME IInv, AskedFor, InOrder, CleanEnds, Clean, NEW l \in Links, NEW n \in {l, l + 1},
         pc[n] = "bridging"
  PROVE  pc[l] # "failed" /\ pc[l + 1] # "failed"
<1>0. OkBacked /\ l \in Int /\ N \in Int /\ l >= 0 /\ l <= N
  BY EndPlaces DEF IInv, Links
<1>1. CASE n = l
  <2>1. l < N => l + 1 \in Tasks /\ l + 1 > l
    BY <1>0 DEF Tasks
  <2>2. Beyond(l)
    <3>1. CASE l = 0
      BY <1>1, <3>1 DEF AskedFor
    <3>2. CASE l # 0
      <4>1. l \in Tasks
        BY <1>0, <3>2 DEF Tasks
      <4> QED BY <1>0, <1>1, <4>1 DEF OkBacked
    <3> QED BY <3>1, <3>2
  <2>3. l < N => Up(l + 1)
    BY <2>1, <2>2 DEF Beyond
  <2>4. l = N => pc[l + 1] # "failed"
    BY DEF Clean
  <2> QED BY <1>0, <1>1, <2>3, <2>4 DEF Up
<1>2. CASE n = l + 1
  <2>1. CASE l = N
    <3>1. Up(N + 1)
      BY <1>2, <2>1 DEF Up
    <3> QED BY <1>2, <2>1, <3>1, RequestCame DEF Up
  <2>2. CASE l # N
    <3>1. PICK t \in Tasks : t = l + 1
      BY <1>0, <2>2 DEF Tasks
    <3>2. t - 1 = l
      BY <1>0, <3>1
    <3>3. pc[t] \notin {"none", "failed"} => pc[t - 1] # "failed"
      BY DEF CleanEnds
    <3> QED BY <1>2, <3>1, <3>2, <3>3
  <2> QED BY <2>1, <2>2
<1> QED BY <1>1, <1>2

\* Between two nodes that did not fail, an end is never dropped, and a reader
\* only ends when it came in.
LEMMA CleanLink ==
  ASSUME EndsKept, CleanEnds, Clean, NEW l \in Links, NEW d \in Dir,
         pc[l] # "failed", pc[l + 1] # "failed"
  PROVE  /\ end[l][d] # "gone"
         /\ pc[Reader(l, d)] \in Gone => end[l][d] = "shut"
<1>0. /\ Writer(l, d) \in Nodes /\ Reader(l, d) \in Nodes
      /\ pc[Writer(l, d)] # "failed" /\ pc[Reader(l, d)] # "failed"
  BY LinkPlaces
<1>1. pc[Writer(l, d)] = "closed" => end[l][d] = "shut"
  <2>1. CASE Writer(l, d) \in Tasks
    <3>1. l = To(Writer(l, d), d)
      BY <2>1, CopyPlaces
    <3> QED BY <2>1, <3>1 DEF CleanEnds
  <2>2. CASE Writer(l, d) = User(d)
    <3>1. l = First(d)
      BY <2>2, UserPlaces
    <3> QED BY <2>2, <3>1 DEF CleanEnds
  <2> QED BY <1>0, <2>1, <2>2, NodeCases, UserPlaces DEF Dir, Opp
<1>2. pc[Reader(l, d)] = "closed" => end[l][d] = "shut"
  <2>1. CASE Reader(l, d) \in Tasks
    <3>1. l = From(Reader(l, d), d)
      BY <2>1, CopyPlaces
    <3> QED BY <2>1, <3>1 DEF CleanEnds
  <2>2. CASE Reader(l, d) = User(Opp(d))
    <3>1. l = Last(d) /\ Opp(d) \in Dir /\ Opp(Opp(d)) = d
      BY <2>2, UserPlaces
    <3>2. pc[User(Opp(d))] = "closed" => heard[Opp(Opp(d))]
      BY <3>1 DEF CleanEnds
    <3> QED BY <2>2, <3>1, <3>2 DEF CleanEnds
  <2> QED BY <1>0, <2>1, <2>2, NodeCases, UserPlaces DEF Dir, Opp
<1>3. end[l][d] = "gone" => pc[Writer(l, d)] \in Gone
  BY DEF EndsKept
<1> QED BY <1>0, <1>1, <1>2, <1>3 DEF Gone

\* What is not clean stays so.
LEMMA CleanBefore ==
  ASSUME IInv, [Next]_vars, Clean'
  PROVE  Clean /\ faults' = faults
<1>1. TypeOK
  BY DEF IInv
<1>2. faults = 0 /\ faults' = faults
  BY <1>1, FaultsEffect DEF Clean
<1>3. pc[0] # "failed" /\ pc[N + 1] # "failed"
  BY UpStays, EndPlaces DEF Clean, Gone
<1> QED BY <1>2, <1>3 DEF Clean

\* An end that is shut stays shut.
LEMMA ShutStays ==
  ASSUME IInv, EndsKept, [Next]_vars, NEW l \in Links, NEW d \in Dir
  PROVE  /\ end[l][d] = "shut" => end'[l][d] = "shut"
         /\ end[l][d] \in {"shut", "gone"} => end'[l][d] \in {"shut", "gone"}
BY EndEffect DEF EndMove, EndsKept

\* What the users sent only grows, by one byte at a time, and not once their
\* input ended.
LEMMA SentEffect ==
  ASSUME TypeOK, [Next]_vars, NEW d \in Dir
  PROVE  /\ sent[d] \in Nat /\ sent'[d] \in Nat
         /\ sent'[d] = sent[d] \/ (Type(d) /\ sent'[d] = sent[d] + 1)
         /\ \/ recv'[d] = recv[d]
            \/ Show(d) /\ recv'[d] = Append(recv[d], Head(chan[Last(d)][d]).n)
<1>0. sent \in [Dir -> Nat] /\ recv \in [Dir -> Seq(Nat)]
  BY DEF TypeOK
<1>1. CASE QuietStep \/ ProgramStep \/ \E l \in Links : LoseStream(l)
  BY <1>0, <1>1, QuietEffect, ProgramEffect, LoseEffect
<1>2. CASE QuitStep
  <2>1. PICK S, c : Departs(S, c)
    BY <1>2, QuitEffect
  <2> QED BY <1>0, <2>1 DEF Departs
<1>3. ASSUME NEW x \in Dir, Type(x)
      PROVE  /\ sent'[d] = sent[d] \/ (Type(d) /\ sent'[d] = sent[d] + 1)
             /\ sent'[d] \in Nat /\ recv' = recv
  <2>1. sent' = [sent EXCEPT ![x] = @ + 1] /\ recv' = recv
    BY <1>3 DEF Type
  <2>2. CASE x = d
    BY <1>0, <1>3, <2>1, <2>2
  <2>3. CASE x # d
    BY <1>0, <2>1, <2>3
  <2> QED BY <2>2, <2>3
<1>4. ASSUME NEW x \in Dir, Show(x)
      PROVE  /\ sent' = sent
             /\ \/ recv'[d] = recv[d]
                \/ Show(d) /\ recv'[d] = Append(recv[d], Head(chan[Last(d)][d]).n)
  BY <1>0, <1>4 DEF Show, Last
<1>5. ASSUME NEW t \in Tasks, NEW x \in Dir, CopyData(t, x)
      PROVE  sent' = sent /\ recv' = recv
  BY <1>5 DEF CopyData, others, userVars
<1> QED BY <1>0, <1>1, <1>2, <1>3, <1>4, <1>5, StepKinds DEF DataStep

\* How many items there are: a count that grows, and is settled once its
\* user's input ended.
LEMMA PutEffect ==
  ASSUME IInv, EndsKept, SessionsKept, [Next]_vars, NEW d \in Dir
  PROVE  /\ Put(d) \in Nat /\ Put(d)' \in Nat
         /\ Put(d) <= Put(d)' /\ Put(d) <= sent[d] + 1 /\ Put(d)' <= sent'[d] + 1
         /\ end[First(d)][d] = "shut" => Put(d)' = Put(d)
<1>0. TypeOK /\ User("f") = 0 /\ User("b") = N + 1
  BY DEF IInv, User
<1>1. /\ sent[d] \in Nat /\ sent'[d] \in Nat
      /\ sent'[d] = sent[d] \/ (Type(d) /\ sent'[d] = sent[d] + 1)
  BY <1>0, SentEffect
<1>2. Up(0) => Up(0)'
  BY UpStays, EndPlaces
<1>3. end[First(d)][d] = "shut" => Up(User(d)) /\ ~Type(d)
  <2>1. First(d) \in Links /\ Writer(First(d), d) = User(d)
    BY UserPlaces
  <2>2. end[First(d)][d] = "shut" => Up(Writer(First(d), d))
    BY <2>1 DEF EndsKept
  <2> QED BY <2>1, <2>2 DEF Type, First
<1>4. CASE d = "b"
  BY <1>1, <1>3, <1>4 DEF Put
<1>5. CASE d = "f"
  <2>1. Put(d) = IF Up(0) THEN sent[d] + 1 ELSE 0
    BY <1>5 DEF Put
  <2>2. Put(d)' = IF Up(0)' THEN sent'[d] + 1 ELSE 0
    BY <1>5 DEF Put
  <2>3. end[First(d)][d] = "shut" => Up(0) /\ sent'[d] = sent[d]
    BY <1>0, <1>1, <1>3, <1>5
  <2> QED BY <1>1, <1>2, <2>1, <2>2, <2>3
<1> QED BY <1>4, <1>5 DEF Dir

\* While nothing failed, an end is passed on behind everything else.
LEMMA EndBehindStep ==
  ASSUME IInv, AskedFor, EndsKept, InOrder, SessionsKept, CleanEnds, [Next]_vars,
         NEW d \in Dir, NEW c \in [Nodes -> Nat], Through(d, c), NEW e \in [Nodes -> Nat],
         \A n \in Nodes : c[n] <= e[n] /\ e[n] <= Put(d)', e[User(d)] = Put(d)'
  PROVE  EndBehind(d, e)'
<1> SUFFICES ASSUME Clean', NEW l \in Links, end'[l][d] = "shut"
             PROVE  end'[First(d)][d] = "shut" /\ e[Writer(l, d)] = Put(d)'
  BY DEF EndBehind
<1>0. TypeOK /\ chan \in ChanType
  BY TypedChan DEF IInv
<1>1. Clean /\ faults' = faults
  BY CleanBefore
<1>2. ASSUME NEW k \in Links, end[k][d] = "shut"
      PROVE  end[First(d)][d] = "shut" /\ c[Writer(k, d)] = Put(d)
  BY <1>1, <1>2 DEF Through, EndBehind
<1>3. First(d) \in Links /\ Writer(First(d), d) = User(d) /\ User(d) \in Nodes
  BY UserPlaces
<1>4. ASSUME end[First(d)][d] = "shut", NEW w \in Nodes, c[w] = Put(d)
      PROVE  end'[First(d)][d] = "shut" /\ e[w] = Put(d)'
  <2>1. Put(d)' = Put(d) /\ Put(d) \in Nat
    BY <1>4, PutEffect
  <2>2. c[w] <= e[w] /\ e[w] <= Put(d)' /\ e[w] \in Nat
    OBVIOUS
  <2> QED BY <1>3, <1>4, <2>1, <2>2, ShutStays
<1>5. CASE end[l][d] = "shut"
  BY <1>2, <1>4, <1>5, LinkPlaces
<1>6. CASE end[l][d] # "shut"
  <2>1. /\ pc[Writer(l, d)] = "bridging" /\ Shuts(l, d)
    <3>1. end[l][d] # "none" => pc[l + 1] # "none"
      BY DEF EndsKept
    <3> QED BY <1>6, EndEffect DEF EndMove
  <2>2. CASE StdinEof(d) /\ l = To(User(d), d)
    <3>1. l = First(d)
      BY <2>2 DEF First
    <3> QED BY <1>3, <3>1
  <2>3. ASSUME NEW t \in Tasks, CopyEof(t, d), l = To(t, d)
        PROVE  end'[First(d)][d] = "shut" /\ e[Writer(l, d)] = Put(d)'
    <3> DEFINE a == From(t, d)
    <3>1. /\ a \in Links /\ Reader(a, d) = t /\ Writer(l, d) = t /\ t \in {a, a + 1} /\ t \in Nodes
      BY <2>3, CopyPlaces, LinkPlaces, TaskPlaces
    <3>2. pc[t] = "bridging" /\ AtEof(a, d)
      BY <2>3 DEF CopyEof
    <3>3. pc[a] # "failed" /\ pc[a + 1] # "failed"
      BY <1>1, <3>1, <3>2, Neighbours
    <3>4. end[a][d] # "gone" /\ cut = {}
      BY <1>1, <3>1, <3>3, CleanLink DEF Clean, EndsKept
    <3>5. end[a][d] = "shut" /\ chan[a][d] = << >>
      BY <3>2, <3>4 DEF AtEof
    <3>6. end[First(d)][d] = "shut" /\ c[Writer(a, d)] = Put(d)
      BY <1>2, <3>1, <3>5
    <3>7. ~Broken(a, d)
      BY <3>1, <3>2, <3>4 DEF Broken, Gone
    <3>8. c[t] = Put(d)
      BY <3>1, <3>5, <3>6, <3>7, WireDrained DEF Through
    <3> QED BY <1>4, <3>1, <3>6, <3>8
  <2> QED BY <2>1, <2>2, <2>3 DEF Shuts
<1> QED BY <1>5, <1>6

\* Counts that fit the next state.
Fits(d, c, e) ==
  /\ e \in [Nodes -> Nat]
  /\ \A n \in Nodes : \/ e[n] = c[n]
                      \/ e[n] = c[n] + 1 /\ Up(n)' /\ e[n] <= Put(d)'
  /\ e[User(d)] = Put(d)' /\ e[User(Opp(d))] = Got(d)'
  /\ \A l \in Links : Wire(l, d, e)'

LEMMA CountsFit ==
  ASSUME IInv, AskedFor, EndsKept, InOrder, SessionsKept, CleanEnds, [Next]_vars,
         NEW d \in Dir, NEW c \in [Nodes -> Nat], Through(d, c), NEW e, Fits(d, c, e)
  PROVE  \E f \in [Nodes -> 0..(sent'[d] + 1)] : Through(d, f)'
<1>1. /\ Put(d) \in Nat /\ Put(d)' \in Nat /\ sent'[d] \in Nat
      /\ Put(d) <= Put(d)' /\ Put(d)' <= sent'[d] + 1
  BY PutEffect, SentEffect DEF IInv
<1>2. e \in [Nodes -> Nat]
  BY DEF Fits
<1>3. ASSUME NEW n \in Nodes
      PROVE  c[n] <= e[n] /\ e[n] <= Put(d)' /\ (~Up(n)' => e[n] = 0)
  <2>1. c[n] \in Nat /\ c[n] <= Put(d) /\ (~Up(n) => c[n] = 0)
    BY DEF Through
  <2>2. e[n] = c[n] \/ (e[n] = c[n] + 1 /\ Up(n)' /\ e[n] <= Put(d)')
    BY DEF Fits
  <2>3. Up(n) => Up(n)'
    BY UpStays
  <2> QED BY <1>1, <2>1, <2>2, <2>3
<1>4. EndBehind(d, e)'
  BY <1>2, <1>3, EndBehindStep DEF Fits
<1>5. Through(d, e)'
  BY <1>3, <1>4 DEF Fits, Through
<1>6. e \in [Nodes -> 0..(sent'[d] + 1)]
  BY <1>1, <1>2, <1>3
<1> QED BY <1>5, <1>6

\* A direction in which no count changes.
LEMMA SameCounts ==
  ASSUME IInv, AskedFor, EndsKept, InOrder, SessionsKept, CleanEnds, [Next]_vars,
         NEW d \in Dir, \A l \in Links : Stays(l, d), Put(d)' = Put(d), Got(d)' = Got(d)
  PROVE  \E f \in [Nodes -> 0..(sent'[d] + 1)] : Through(d, f)'
<1>1. PICK c \in [Nodes -> 0..(sent[d] + 1)] : Through(d, c)
  BY DEF InOrder
<1>2. c \in [Nodes -> Nat]
  BY SentEffect DEF IInv
<1>3. Fits(d, c, c)
  BY <1>1, <1>2 DEF Fits, Through, Stays
<1> QED BY <1>1, <1>2, <1>3, CountsFit

-----------------------------------------------------------------------------
(* Bytes arrive in order.                                                  *)

\* Who writes items writes behind the control frame, or when it was read.
LEMMA WriterReady ==
  ASSUME IInv, AskedFor, AnswersKept, NEW l \in Links, NEW d \in Dir,
         pc[Writer(l, d)] = "bridging" \/ (l = 0 /\ d = "f" /\ pc[0] = "selecting"),
         ~Broken(l, d)
  PROVE  ~Asks(l, d) \/ chan[l][d] # << >>
<1>0. OkBacked /\ l \in Int /\ N \in Int /\ l >= 0 /\ l <= N
  BY EndPlaces DEF IInv, Links
<1>1. CASE d = "f"
  <2>1. Writer(l, d) = l
    BY <1>1 DEF Writer
  <2>2. Beyond(l)
    <3>1. CASE l = 0
      BY <2>1, <3>1 DEF AskedFor
    <3>2. CASE l # 0
      <4>1. l \in Tasks
        BY <1>0, <3>2 DEF Tasks
      <4> QED BY <1>0, <2>1, <3>2, <4>1 DEF OkBacked
    <3> QED BY <3>1, <3>2
  <2>3. l < N => Up(l + 1)
    BY <1>0, <2>2 DEF Beyond, Tasks
  <2> QED BY <1>1, <2>3 DEF Asks, Up
<1>2. CASE d = "b"
  <2>1. pc[l + 1] = "bridging" /\ l \notin cut
    BY <1>2 DEF Writer, Broken
  <2> QED BY <1>2, <2>1 DEF Asks, AnswersKept, Up
<1> QED BY <1>1, <1>2 DEF Dir

\* How a session begins.
LEMMA Rises ==
  ASSUME IInv, [Next]_vars
  PROVE  /\ Up(0)' => Up(0) \/ StartNetcat
         /\ Up(N + 1)' => Up(N + 1) \/ ListenerReadsRequest
<1> USE EndPlaces DEF Gone, Goto, Open, Up
<1>0. TypeOK /\ pc \in [Nodes -> DialerPC \cup TaskPC \cup Gone] /\ 0 # N + 1
  BY DEF IInv, TypeOK
<1>1. CASE QuietStep \/ DataStep \/ \E l \in Links : LoseStream(l)
  <2>1. pc' = pc
    BY <1>1, QuietEffect, DataEffect, LoseEffect
  <2> QED BY <2>1
<1>2. CASE QuitStep
  <2>1. PICK S, c : Departs(S, c)
    BY <1>0, <1>2, QuitEffect
  <2>2. \A n \in Nodes : pc'[n] # pc[n] => pc'[n] = "failed" \/ Up(n)
    BY <2>1 DEF Departs, Leave
  <2> QED BY <2>2
<1>3. ASSUME NEW t \in Tasks,
             ReadChain(t) \/ SendDial(t) \/ OpenStream(t) \/ AwaitOk(t) \/ Reply(t)
      PROVE  (Up(0)' => Up(0)) /\ (Up(N + 1)' => Up(N + 1))
  <2>1. t # 0 /\ t # N + 1 /\ t \in Nodes /\ t + 1 \in Nodes /\ t + 1 # 0
    BY TaskPlaces DEF Tasks
  <2> QED BY <1>0, <1>3, <2>1 DEF ReadChain, SendDial, OpenStream, AwaitOk, Reply
<1>4. ASSUME NEW m \in Links, ForwardChain(m)
      PROVE  (Up(0)' => Up(0)) /\ (Up(N + 1)' => Up(N + 1))
  BY <1>0, <1>4 DEF ForwardChain
<1>5. CASE DialerConnect \/ DialerOpen \/ DialerReadsOk
  BY <1>0, <1>5 DEF DialerConnect, DialerOpen, DialerReadsOk
<1>6. CASE StartNetcat
  BY <1>0, <1>6 DEF StartNetcat
<1>7. CASE ListenerReadsRequest
  BY <1>0, <1>7 DEF ListenerReadsRequest
<1> QED BY <1>1, <1>2, <1>3, <1>4, <1>5, <1>6, <1>7, StepKinds DEF ProgramStep

\* A direction nobody reads from or writes to.
LEMMA OtherDirection ==
  ASSUME IInv, AskedFor, EndsKept, InOrder, SessionsKept, CleanEnds, [Next]_vars,
         NEW d \in Dir, UNCHANGED <<pc, cut>>, sent'[d] = sent[d], recv'[d] = recv[d],
         \A l \in Links : chan'[l][d] = chan[l][d]
  PROVE  \E f \in [Nodes -> 0..(sent'[d] + 1)] : Through(d, f)'
<1>1. ASSUME NEW l \in Links
      PROVE  Stays(l, d)
  BY StaysKept
<1>2. Put(d)' = Put(d) /\ Got(d)' = Got(d)
  BY DEF Put, Got, Up
<1> QED BY <1>1, <1>2, SameCounts

\* A reader at work waits for no control frame.
LEMMA ReaderReady ==
  ASSUME NEW l \in Links, NEW d \in Dir, pc[Reader(l, d)] = "bridging"
  PROVE  ~Asks(l, d)
BY DEF Asks, Reader, Dir

\* A task copies an item.
LEMMA CopyInOrder ==
  ASSUME IInv, AskedFor, AnswersKept, EndsKept, InOrder, SessionsKept, CleanEnds, [Next]_vars,
         NEW t \in Tasks, NEW x \in Dir, CopyData(t, x), NEW d \in Dir
  PROVE  \E f \in [Nodes -> 0..(sent'[d] + 1)] : Through(d, f)'
<1>0. TypeOK /\ chan \in ChanType
  BY TypedChan DEF IInv
<1>1. /\ UNCHANGED <<pc, cut, sent, recv>> /\ pc[t] = "bridging" /\ chan[From(t, x)][x] # << >>
  BY DEF CopyData, others, userVars
<1>a. Head(chan[From(t, x)][x]) \in Frame /\ To(t, x) \in Links
  BY <1>0, CopyEffect, CopyPlaces
<1>2. CASE d # x
  <2>1. \A l \in Links : chan'[l][d] = chan[l][d]
    BY <1>0, <1>a, <1>2, CopyEffect, AfterEffect
  <2> QED BY <1>1, <2>1, OtherDirection
<1>3. CASE d = x
  <2> DEFINE a == From(t, d)
             b == To(t, d)
  <2>1. /\ a \in Links /\ b \in Links /\ Reader(a, d) = t /\ Writer(b, d) = t /\ t \in Nodes
        /\ Writer(a, d) \in Nodes /\ Reader(b, d) \in Nodes
        /\ Writer(a, d) # t /\ Reader(b, d) # t
        /\ \A l \in Links : /\ Writer(l, d) = t => l = b
                            /\ Reader(l, d) = t => l = a
    BY CopyPlaces, LinkPlaces, TaskPlaces
  <2>2. PICK c \in [Nodes -> 0..(sent[d] + 1)] : Through(d, c)
    BY DEF InOrder
  <2>3. c \in [Nodes -> Nat]
    BY <1>0, SentEffect
  <2>4. \A l \in Links : Wire(l, d, c)
    BY <2>2 DEF Through
  <2>5. pc[t] = "bridging" /\ chan[a][d] # << >>
    BY <1>1, <1>3
  <2>6. ~Asks(a, d)
    BY <2>1, <2>5, ReaderReady
  <2>7. c[t] < c[Writer(a, d)] /\ Head(chan[a][d]) = Nth(d, c[t] + 1)
    BY <1>0, <2>1, <2>3, <2>4, <2>5, <2>6, NextItem
  <2> DEFINE g == [c EXCEPT ![t] = @ + 1]
  <2>8. /\ g \in [Nodes -> Nat] /\ g[t] = c[t] + 1
        /\ \A n \in Nodes : n # t => g[n] = c[n]
    BY <2>1, <2>3
  <2> HIDE DEF g
  <2>9. ASSUME NEW l \in Links
        PROVE  (Broken(l, d)' <=> Broken(l, d)) /\ (Asks(l, d)' <=> Asks(l, d))
    BY <1>1, ReaderKept
  <2>10. Wire(a, d, g)'
    <3>1. chan'[a][d] = Tail(chan[a][d])
      BY <1>0, <1>3, <2>1, CopyEffect
    <3> QED BY <1>0, <2>1, <2>3, <2>4, <2>5, <2>6, <2>8, <2>9, <3>1, WireTakes
  <2>11. a # b
    BY <2>1
  <2>12. Wire(b, d, g)'
    <3>1. chan'[b][d] = After(b, d, Nth(d, c[t] + 1))[b][d]
      BY <1>0, <1>3, <2>1, <2>7, <2>11, CopyEffect
    <3>2. ~Broken(b, d) => ~Asks(b, d) \/ chan[b][d] # << >>
      BY <2>1, <2>5, WriterReady
    <3> QED BY <1>0, <2>1, <2>3, <2>4, <2>8, <2>9, <3>1, <3>2, WireSends
  <2>13. ASSUME NEW l \in Links, l # a, l # b
         PROVE  Wire(l, d, g)'
    <3>1. g[Reader(l, d)] = c[Reader(l, d)] /\ g[Writer(l, d)] = c[Writer(l, d)]
      BY <2>1, <2>8, <2>13, LinkPlaces
    <3>2. chan'[l][d] = chan[l][d]
      BY <1>0, <1>3, <1>a, <2>13, CopyEffect, AfterEffect
    <3> QED BY <2>4, <2>9, <3>1, <3>2, WireKept
  <2>14. Put(d)' = Put(d) /\ Got(d)' = Got(d) /\ Put(d) \in Nat
    <3>1. Put(d)' = Put(d) /\ Got(d)' = Got(d)
      BY <1>1 DEF Put, Got, Up
    <3> QED BY <3>1, PutEffect
  <2>15. g[User(d)] = Put(d)' /\ g[User(Opp(d))] = Got(d)'
    <3>1. User(d) \in Nodes /\ User(Opp(d)) \in Nodes /\ t # User(d) /\ t # User(Opp(d))
      BY UserPlaces
    <3>2. c[User(d)] = Put(d) /\ c[User(Opp(d))] = Got(d)
      BY <2>2 DEF Through
    <3> QED BY <2>8, <2>14, <3>1, <3>2
  <2>16. Up(t)' /\ g[t] <= Put(d)'
    <3>1. c[Writer(a, d)] <= Put(d)
      BY <2>1, <2>2 DEF Through
    <3>2. c[t] \in Nat /\ c[Writer(a, d)] \in Nat
      BY <2>1, <2>3
    <3> QED BY <1>1, <2>7, <2>8, <2>14, <3>1, <3>2 DEF Up
  <2>17. Fits(d, c, g)
    BY <2>8, <2>10, <2>12, <2>13, <2>15, <2>16 DEF Fits
  <2> QED BY <2>2, <2>3, <2>17, CountsFit
<1> QED BY <1>2, <1>3

\* A user sends an item: a byte, or the dialer its request.
LEMMA UserSends ==
  ASSUME IInv, AskedFor, AnswersKept, EndsKept, InOrder, SessionsKept, CleanEnds, [Next]_vars,
         NEW d \in Dir,
         pc[User(d)] = "bridging" \/ (d = "f" /\ pc[0] = "selecting"), Up(User(d))',
         chan'[First(d)][d] = After(First(d), d, Nth(d, Put(d) + 1))[First(d)][d],
         Broken(First(d), d)' <=> Broken(First(d), d),
         Asks(First(d), d)' <=> Asks(First(d), d),
         \A l \in Links : l # First(d) => Stays(l, d),
         Put(d)' = Put(d) + 1, Got(d)' = Got(d)
  PROVE  \E f \in [Nodes -> 0..(sent'[d] + 1)] : Through(d, f)'
<1> DEFINE u == User(d)
           b == First(d)
<1>0. TypeOK /\ chan \in ChanType
  BY TypedChan DEF IInv
<1>1. /\ b \in Links /\ u \in Nodes /\ Writer(b, d) = u /\ Reader(b, d) # u
      /\ Reader(b, d) \in Nodes /\ User(Opp(d)) \in Nodes /\ User(Opp(d)) # u
      /\ \A l \in Links : Reader(l, d) # u /\ (Writer(l, d) = u => l = b)
  BY UserPlaces, LinkPlaces
<1>2. PICK c \in [Nodes -> 0..(sent[d] + 1)] : Through(d, c)
  BY DEF InOrder
<1>3. c \in [Nodes -> Nat] /\ Put(d) \in Nat
  BY <1>0, SentEffect, PutEffect
<1>4. /\ c[u] = Put(d) /\ c[User(Opp(d))] = Got(d)
      /\ \A l \in Links : Wire(l, d, c)
  BY <1>2 DEF Through
<1> DEFINE g == [c EXCEPT ![u] = @ + 1]
<1>5. /\ g \in [Nodes -> Nat] /\ g[u] = c[u] + 1
      /\ \A n \in Nodes : n # u => g[n] = c[n]
  BY <1>1, <1>3
<1> HIDE DEF g
<1>6. Wire(b, d, g)'
  <2>1. ~Broken(b, d) => ~Asks(b, d) \/ chan[b][d] # << >>
    <3>1. d = "f" => b = 0 /\ Writer(b, d) = 0
      BY DEF First, To, User, Writer
    <3> QED BY <1>1, <3>1, WriterReady
  <2>2. chan'[b][d] = After(b, d, Nth(d, c[Writer(b, d)] + 1))[b][d]
    BY <1>1, <1>4
  <2>3. (Broken(b, d)' <=> Broken(b, d)) /\ (Asks(b, d)' <=> Asks(b, d))
    OBVIOUS
  <2>4. g[Reader(b, d)] = c[Reader(b, d)] /\ g[Writer(b, d)] = c[Writer(b, d)] + 1
    BY <1>1, <1>5
  <2> QED BY <1>0, <1>1, <1>3, <1>4, <1>5, <2>1, <2>2, <2>3, <2>4, WireSends
<1>7. ASSUME NEW l \in Links, l # b
      PROVE  Wire(l, d, g)'
  <2>1. Wire(l, d, c)'
    BY <1>2, <1>3, <1>7 DEF Stays
  <2>2. g[Reader(l, d)] = c[Reader(l, d)] /\ g[Writer(l, d)] = c[Writer(l, d)]
    BY <1>1, <1>5, <1>7, LinkPlaces
  <2> QED BY <2>1, <2>2 DEF Wire
<1>8. Fits(d, c, g)
  <2>1. g[u] = Put(d)' /\ g[User(Opp(d))] = Got(d)'
    BY <1>1, <1>4, <1>5
  <2>2. \A n \in Nodes : g[n] = c[n] \/ (g[n] = c[n] + 1 /\ Up(n)' /\ g[n] <= Put(d)')
    BY <1>3, <1>4, <1>5
  <2> QED BY <1>5, <1>6, <1>7, <2>1, <2>2 DEF Fits
<1> QED BY <1>2, <1>3, <1>8, CountsFit

\* A user takes an item: a byte, or the listener the request.
LEMMA UserTakes ==
  ASSUME IInv, AskedFor, AnswersKept, EndsKept, InOrder, SessionsKept, CleanEnds, [Next]_vars,
         NEW d \in Dir, Up(User(Opp(d)))',
         ~Asks(Last(d), d), ~Asks(Last(d), d)',
         chan[Last(d)][d] # << >>, chan'[Last(d)][d] = Tail(chan[Last(d)][d]),
         Broken(Last(d), d)' <=> Broken(Last(d), d),
         \A l \in Links : l # Last(d) => Stays(l, d),
         Put(d)' = Put(d), Got(d)' = Got(d) + 1
  PROVE  \E f \in [Nodes -> 0..(sent'[d] + 1)] : Through(d, f)'
<1> DEFINE u == User(Opp(d))
           a == Last(d)
<1>0. TypeOK /\ chan \in ChanType
  BY TypedChan DEF IInv
<1>1. /\ a \in Links /\ u \in Nodes /\ Reader(a, d) = u /\ Writer(a, d) # u
      /\ Writer(a, d) \in Nodes /\ User(d) \in Nodes /\ User(d) # u
      /\ \A l \in Links : Writer(l, d) # u /\ (Reader(l, d) = u => l = a)
  BY UserPlaces, LinkPlaces
<1>2. PICK c \in [Nodes -> 0..(sent[d] + 1)] : Through(d, c)
  BY DEF InOrder
<1>3. c \in [Nodes -> Nat] /\ Put(d) \in Nat
  BY <1>0, SentEffect, PutEffect
<1>4. /\ c[User(d)] = Put(d) /\ c[u] = Got(d) /\ c[Writer(a, d)] <= Put(d)
      /\ \A l \in Links : Wire(l, d, c)
  BY <1>1, <1>2 DEF Through
<1> DEFINE g == [c EXCEPT ![u] = @ + 1]
<1>5. /\ g \in [Nodes -> Nat] /\ g[u] = c[u] + 1
      /\ \A n \in Nodes : n # u => g[n] = c[n]
  BY <1>1, <1>3
<1> HIDE DEF g
<1>6. c[u] < c[Writer(a, d)]
  BY <1>0, <1>1, <1>3, <1>4, NextItem
<1>7. Wire(a, d, g)'
  <2>1. g[Reader(a, d)] = c[Reader(a, d)] + 1 /\ g[Writer(a, d)] = c[Writer(a, d)]
    BY <1>1, <1>5
  <2> QED BY <1>0, <1>1, <1>3, <1>4, <1>5, <2>1, WireTakes
<1>8. ASSUME NEW l \in Links, l # a
      PROVE  Wire(l, d, g)'
  <2>1. Wire(l, d, c)'
    BY <1>2, <1>3, <1>8 DEF Stays
  <2>2. g[Reader(l, d)] = c[Reader(l, d)] /\ g[Writer(l, d)] = c[Writer(l, d)]
    BY <1>1, <1>5, <1>8, LinkPlaces
  <2> QED BY <2>1, <2>2 DEF Wire
<1>9. Fits(d, c, g)
  <2>1. g[User(d)] = Put(d)' /\ g[u] = Got(d)'
    BY <1>1, <1>4, <1>5
  <2>2. c[u] \in Nat /\ c[Writer(a, d)] \in Nat
    BY <1>1, <1>3
  <2>3. \A n \in Nodes : g[n] = c[n] \/ (g[n] = c[n] + 1 /\ Up(n)' /\ g[n] <= Put(d)')
    BY <1>3, <1>4, <1>5, <1>6, <2>2
  <2> QED BY <1>5, <1>7, <1>8, <2>1, <2>3 DEF Fits
<1> QED BY <1>2, <1>3, <1>9, CountsFit

\* A user types a byte.
LEMMA TypeInOrder ==
  ASSUME IInv, AskedFor, AnswersKept, EndsKept, InOrder, SessionsKept, CleanEnds, [Next]_vars,
         NEW x \in Dir, Type(x), NEW d \in Dir
  PROVE  \E f \in [Nodes -> 0..(sent'[d] + 1)] : Through(d, f)'
<1>0. TypeOK /\ chan \in ChanType /\ sent \in [Dir -> Nat]
  BY TypedChan DEF IInv, TypeOK
<1>1. /\ UNCHANGED <<pc, cut, recv>> /\ pc[User(x)] = "bridging"
      /\ sent' = [sent EXCEPT ![x] = @ + 1]
      /\ chan' = After(First(x), x, Data(sent[x] + 1))
  BY DEF Type, First
<1>a. Data(sent[x] + 1) \in Frame /\ First(x) \in Links
  BY <1>0, FrameTypes, UserPlaces
<1>2. CASE d # x
  <2>1. \A l \in Links : chan'[l][d] = chan[l][d]
    BY <1>0, <1>1, <1>a, <1>2, AfterEffect
  <2> QED BY <1>0, <1>1, <1>2, <2>1, OtherDirection
<1>3. CASE d = x
  <2>1. d = "f" => User(d) = 0
    BY DEF User
  <2>2. /\ sent'[d] = sent[d] + 1 /\ sent[d] \in Nat
    BY <1>0, <1>1, <1>3
  <2>3. Put(d)' = Put(d) + 1 /\ Nth(d, Put(d) + 1) = Data(sent[d] + 1)
    <3>1. CASE d = "b"
      BY <2>2, <3>1 DEF Put, Nth
    <3>2. CASE d = "f"
      <4>1. Up(0) /\ Up(0)'
        BY <1>1, <1>3, <2>1, <3>2 DEF Up
      <4>2. Put(d) = sent[d] + 1 /\ Put(d)' = sent[d] + 1 + 1
        BY <2>2, <3>2, <4>1 DEF Put
      <4> QED BY <2>2, <3>2, <4>2 DEF Nth
    <3> QED BY <3>1, <3>2 DEF Dir
  <2>4. Got(d)' = Got(d)
    BY <1>1 DEF Got, Up
  <2>5. ASSUME NEW l \in Links, l # First(d)
        PROVE  Stays(l, d)
    <3>1. chan'[l][d] = chan[l][d]
      BY <1>0, <1>1, <1>a, <1>3, <2>5, AfterEffect
    <3> QED BY <1>1, <3>1, StaysKept
  <2>6. /\ Broken(First(d), d)' <=> Broken(First(d), d)
        /\ Asks(First(d), d)' <=> Asks(First(d), d)
    BY <1>1, <1>a, <1>3, ReaderKept
  <2>7. Up(User(d))'
    BY <1>1, <1>3 DEF Up
  <2> QED BY <1>1, <1>3, <2>3, <2>4, <2>5, <2>6, <2>7, UserSends
<1> QED BY <1>2, <1>3

\* A user is shown a byte.
LEMMA ShowInOrder ==
  ASSUME IInv, AskedFor, AnswersKept, EndsKept, InOrder, SessionsKept, CleanEnds, [Next]_vars,
         NEW x \in Dir, Show(x), NEW d \in Dir
  PROVE  \E f \in [Nodes -> 0..(sent'[d] + 1)] : Through(d, f)'
<1>0. TypeOK /\ chan \in ChanType /\ recv \in [Dir -> Seq(Nat)]
  BY TypedChan DEF IInv, TypeOK
<1>1. /\ UNCHANGED <<pc, cut, sent>> /\ pc[User(Opp(x))] = "bridging"
      /\ chan[Last(x)][x] # << >> /\ Head(chan[Last(x)][x]).type = "data"
      /\ recv' = [recv EXCEPT ![x] = Append(@, Head(chan[Last(x)][x]).n)]
      /\ chan' = Unread(Last(x), x)
  BY DEF Show, Last, Arrived
<1>a. Last(x) \in Links /\ Reader(Last(x), x) = User(Opp(x))
  BY UserPlaces
<1>2. CASE d # x
  <2>1. \A l \in Links : chan'[l][d] = chan[l][d]
    BY <1>0, <1>1, <1>a, <1>2, UnreadEffect
  <2>2. recv'[d] = recv[d]
    BY <1>0, <1>1, <1>2
  <2> QED BY <1>1, <2>1, <2>2, OtherDirection
<1>3. CASE d = x
  <2>1. Len(recv'[d]) = Len(recv[d]) + 1
    <3>1. recv'[d] = Append(recv[d], Head(chan[Last(x)][x]).n) /\ recv[d] \in Seq(Nat)
      BY <1>0, <1>1, <1>3
    <3>2. Head(chan[Last(x)][x]).n \in Nat
      BY <1>0, <1>1, <1>a, ArrivedType DEF Frame
    <3> QED BY <3>1, <3>2
  <2>2. Got(d)' = Got(d) + 1
    <3>1. Len(recv[d]) \in Nat
      BY <1>0
    <3>2. CASE d = "b"
      BY <2>1, <3>2 DEF Got
    <3>3. CASE d = "f"
      <4>1. Up(N + 1) /\ Up(N + 1)'
        BY <1>1, <1>3, <3>3 DEF Up, User, Opp
      <4> QED BY <2>1, <3>1, <3>3, <4>1 DEF Got
    <3> QED BY <3>2, <3>3 DEF Dir
  <2>3. Put(d)' = Put(d)
    BY <1>1 DEF Put, Up
  <2>4. ASSUME NEW l \in Links, l # Last(d)
        PROVE  Stays(l, d)
    <3>1. chan'[l][d] = chan[l][d]
      BY <1>0, <1>1, <1>a, <1>3, <2>4, UnreadEffect
    <3> QED BY <1>1, <3>1, StaysKept
  <2>5. /\ Broken(Last(d), d)' <=> Broken(Last(d), d)
        /\ Asks(Last(d), d)' <=> Asks(Last(d), d)
    BY <1>1, <1>a, <1>3, ReaderKept
  <2>6. ~Asks(Last(d), d)
    BY <1>1, <1>a, <1>3, ReaderReady
  <2>7. chan'[Last(d)][d] = Tail(chan[Last(d)][d])
    BY <1>0, <1>1, <1>a, <1>3, UnreadEffect
  <2>8. Up(User(Opp(d)))'
    BY <1>1, <1>3 DEF Up
  <2> QED BY <1>1, <1>3, <2>2, <2>3, <2>4, <2>5, <2>6, <2>7, <2>8, UserTakes
<1> QED BY <1>2, <1>3

\* The dialer writes its request: the first item.
LEMMA RequestInOrder ==
  ASSUME IInv, AskedFor, AnswersKept, EndsKept, InOrder, SessionsKept, CleanEnds, [Next]_vars,
         StartNetcat
  PROVE  \E f \in [Nodes -> 0..(sent'["f"] + 1)] : Through("f", f)'
<1>0. TypeOK /\ chan \in ChanType /\ "f" \in Dir /\ Req \in Frame
  BY TypedChan, Directions, FrameTypes DEF IInv
<1>1. /\ pc[0] = "selecting" /\ Goto(0, "bridging") /\ UNCHANGED <<cut, sent, recv>>
      /\ chan' = After(0, "f", Req)
  BY DEF StartNetcat, others, userVars
<1>2. First("f") = 0 /\ User("f") = 0 /\ 0 \in Links /\ 0 \in Nodes /\ N + 1 \in Nodes /\ N + 1 # 0
  BY EndPlaces DEF First, To, User
<1>3. pc'[0] = "bridging" /\ pc'[N + 1] = pc[N + 1]
  BY <1>0, <1>1, <1>2 DEF Goto, TypeOK
<1>4. Put("f") = 0 /\ Put("f")' = 1 /\ Nth("f", 1) = Req
  <2>1. ~Up(0) /\ Up(0)'
    BY <1>1, <1>3 DEF Up
  <2>2. sent["f"] = 0
    BY <2>1 DEF SessionsKept
  <2> QED BY <1>1, <2>1, <2>2 DEF Put, Nth
<1>5. Got("f")' = Got("f")
  BY <1>1, <1>3 DEF Got, Up
<1>6. /\ Broken(0, "f")' <=> Broken(0, "f")
      /\ Asks(0, "f")' <=> Asks(0, "f")
  BY <1>0, <1>1, <1>2, GotoLink DEF Gone
<1>7. ASSUME NEW l \in Links, l # 0
      PROVE  Stays(l, "f")
  <2>1. chan'[l]["f"] = chan[l]["f"]
    BY <1>0, <1>1, <1>2, <1>7, AfterEffect
  <2> QED BY <1>0, <1>1, <1>2, <2>1, GotoStays DEF Gone
<1>8. Put("f") + 1 = 1 /\ Up(User("f"))'
  BY <1>2, <1>3, <1>4 DEF Up
<1>9. chan'[0]["f"] = After(0, "f", Nth("f", Put("f") + 1))[0]["f"]
  BY <1>1, <1>4, <1>8
<1> QED BY <1>0, <1>1, <1>2, <1>4, <1>5, <1>6, <1>7, <1>8, <1>9, UserSends

\* The listener reads it.
LEMMA AttachInOrder ==
  ASSUME IInv, AskedFor, AnswersKept, EndsKept, InOrder, SessionsKept, CleanEnds, [Next]_vars,
         ListenerReadsRequest
  PROVE  \E f \in [Nodes -> 0..(sent'["f"] + 1)] : Through("f", f)'
<1>0. TypeOK /\ chan \in ChanType /\ "f" \in Dir
  BY TypedChan, Directions DEF IInv
<1>1. /\ pc[N + 1] = "reading" /\ Goto(N + 1, "bridging") /\ UNCHANGED <<cut, sent, recv>>
      /\ chan[N]["f"] # << >> /\ chan' = Unread(N, "f")
  BY DEF ListenerReadsRequest, Arrived, others, userVars
<1>2. /\ Last("f") = N /\ User(Opp("f")) = N + 1 /\ N \in Links
      /\ 0 \in Nodes /\ N + 1 \in Nodes /\ N + 1 # 0
      /\ \A l \in Links : l # N => Reader(l, "f") # N + 1
  BY EndPlaces DEF Last, From, User, Opp, Reader
<1>3. pc'[N + 1] = "bridging" /\ pc'[0] = pc[0]
  BY <1>0, <1>1, <1>2 DEF Goto, TypeOK
<1>4. Got("f") = 0 /\ Got("f")' = 1
  <2>1. ~Up(N + 1) /\ Up(N + 1)'
    BY <1>1, <1>3 DEF Up
  <2>2. recv["f"] = << >>
    BY <2>1 DEF SessionsKept
  <2> QED BY <1>1, <2>1, <2>2 DEF Got
<1>5. Put("f")' = Put("f")
  BY <1>1, <1>3 DEF Put, Up
<1>6. /\ Broken(N, "f")' <=> Broken(N, "f")
      /\ ~Asks(N, "f") /\ ~Asks(N, "f")'
  <2>1. Broken(N, "f")' <=> Broken(N, "f")
    BY <1>0, <1>1, <1>2, GotoLink DEF Gone
  <2> QED BY <2>1, EndPlaces DEF Asks
<1>7. ASSUME NEW l \in Links, l # N
      PROVE  Stays(l, "f")
  <2>1. chan'[l]["f"] = chan[l]["f"]
    BY <1>0, <1>1, <1>2, <1>7, UnreadEffect
  <2> QED BY <1>0, <1>1, <1>2, <1>7, <2>1, GotoStays DEF Gone
<1>8. Got("f") + 1 = 1 /\ Up(User(Opp("f")))'
  BY <1>2, <1>3, <1>4 DEF Up
<1>9. chan'[N]["f"] = Tail(chan[N]["f"])
  BY <1>0, <1>1, <1>2, UnreadEffect
<1> QED BY <1>0, <1>1, <1>2, <1>4, <1>5, <1>6, <1>7, <1>8, <1>9, UserTakes

\* Bytes arrive in order.
LEMMA InOrderStep ==
  ASSUME IInv, Programs, AskedFor, AnswersKept, EndsKept, InOrder, SessionsKept, CleanEnds,
         [Next]_vars
  PROVE  InOrder'
<1> SUFFICES ASSUME NEW d \in Dir
             PROVE  \E f \in [Nodes -> 0..(sent'[d] + 1)] : Through(d, f)'
  BY DEF InOrder
<1>0. TypeOK
  BY DEF IInv
<1>1. ASSUME \A l \in Links : Stays(l, d), UNCHANGED <<sent, recv>>,
             d = "f" => ~StartNetcat /\ ~ListenerReadsRequest
      PROVE  \E f \in [Nodes -> 0..(sent'[d] + 1)] : Through(d, f)'
  <2>1. /\ d = "f" => (Up(0)' <=> Up(0)) /\ (Up(N + 1)' <=> Up(N + 1))
    BY <1>1, Rises, UpStays, EndPlaces
  <2>2. Put(d)' = Put(d) /\ Got(d)' = Got(d)
    BY <1>1, <2>1 DEF Put, Got, Dir
  <2> QED BY <1>1, <2>2, SameCounts
<1>2. CASE QuietStep
  BY <1>2, QuietEffect, QuietWires, OtherDirection
<1>3. CASE QuitStep
  <2>1. PICK S, c : Departs(S, c)
    BY <1>0, <1>3, QuitEffect
  <2>2. UNCHANGED <<sent, recv>> /\ \A l \in Links : Stays(l, d)
    BY <1>3, <2>1, QuitWires DEF Departs
  <2>3. ASSUME NEW n \in Nodes
        PROVE  Up(n)' <=> Up(n)
    BY <2>1, <2>3, UpStays DEF Departs, Leave, Up
  <2>4. Put(d)' = Put(d) /\ Got(d)' = Got(d)
    BY <2>2, <2>3, EndPlaces DEF Put, Got
  <2> QED BY <2>2, <2>4, SameCounts
<1>4. CASE \E l \in Links : LoseStream(l)
  <2>1. UNCHANGED <<pc, sent, recv>> /\ \A l \in Links : Stays(l, d)
    BY <1>0, <1>4, LoseEffect, LoseWires
  <2>2. Put(d)' = Put(d) /\ Got(d)' = Got(d)
    BY <2>1 DEF Put, Got, Up
  <2> QED BY <2>1, <2>2, SameCounts
<1>5. CASE ProgramStep
  <2>1. UNCHANGED <<sent, recv>>
    BY <1>5, ProgramEffect
  <2>2. CASE d = "f" /\ (StartNetcat \/ ListenerReadsRequest)
    BY <2>2, RequestInOrder, AttachInOrder
  <2>3. CASE ~(d = "f" /\ (StartNetcat \/ ListenerReadsRequest))
    <3>1. \A l \in Links : Stays(l, d)
      BY <1>5, <2>3, ProgramWires
    <3> QED BY <1>1, <2>1, <2>3, <3>1
  <2> QED BY <2>2, <2>3
<1>6. CASE DataStep
  BY <1>6, CopyInOrder, TypeInOrder, ShowInOrder DEF DataStep
<1> QED BY <1>2, <1>3, <1>4, <1>5, <1>6, StepKinds

-----------------------------------------------------------------------------
(* Answers.                                                                *)

\* The direction towards the dialer of one stream at each step.
AnswerMove(l) ==
  \/ /\ chan'[l]["b"] = chan[l]["b"]
     /\ pc[l + 1] = "replying" => pc'[l + 1] # "bridging"
  \/ /\ chan[l]["b"] # << >> /\ chan'[l]["b"] = Tail(chan[l]["b"])
     /\ pc'[l] # "awaiting"
  \/ /\ chan'[l]["b"] = << >>
     /\ pc'[l] \in Gone \/ l \in cut'
  \/ /\ pc'[l + 1] \in Gone \cup {"bridging"}
     /\ \E m \in Frame : chan'[l]["b"] = After(l, "b", m)[l]["b"]

LEMMA AnswerEffect ==
  ASSUME IInv, [Next]_vars, NEW l \in Links
  PROVE  AnswerMove(l)
<1> USE DEF others
<1>0. /\ TypeOK /\ chan \in ChanType /\ pc \in [Nodes -> DialerPC \cup TaskPC \cup Gone]
      /\ l \in Nodes /\ l + 1 \in Nodes /\ l \in Int /\ l + 1 # 0
      /\ 0 \in Nodes /\ 1 \in Nodes /\ N + 1 \in Nodes /\ 0 \in Links /\ N \in Links
      /\ \A n \in Links : n \in Nodes
  <2>1. TypeOK
    BY DEF IInv
  <2>2. pc \in [Nodes -> DialerPC \cup TaskPC \cup Gone]
    BY <2>1 DEF TypeOK
  <2> QED BY <2>1, <2>2, TypedChan, EndPlaces
<1>a. chan \in ChanType /\ "f" \in Dir /\ "b" \in Dir /\ 0 \in Links /\ N \in Links
  BY <1>0, Directions
<1>b. ASSUME NEW k \in Links, NEW d \in Dir, NEW m
      PROVE  /\ Unread(k, d)[l]["b"] = IF l = k /\ d = "b" THEN Tail(chan[l]["b"]) ELSE chan[l]["b"]
             /\ ~(l = k /\ d = "b") => After(k, d, m)[l]["b"] = chan[l]["b"]
  BY <1>a, UnreadEffect, AfterEffect
<1>1. ASSUME chan'[l]["b"] = chan[l]["b"],
             pc[l + 1] = "replying" => pc'[l + 1] # "bridging"
      PROVE  AnswerMove(l)
  BY <1>1 DEF AnswerMove
<1>2. ASSUME NEW k \in Links, NEW n \in Nodes, NEW label, Goto(n, label), pc'[k] # "awaiting",
             label = "bridging" => pc[n] # "replying",
             chan[k]["b"] # << >>, chan' = Unread(k, "b")
      PROVE  AnswerMove(l)
  <2>1. CASE l = k
    <3>1. chan'[l]["b"] = Tail(chan[l]["b"])
      BY <1>a, <1>b, <1>2, <2>1
    <3> QED BY <1>2, <2>1, <3>1 DEF AnswerMove
  <2>2. CASE l # k
    <3>1. chan'[l]["b"] = chan[l]["b"]
      BY <1>a, <1>b, <1>2, <2>2
    <3>2. pc[l + 1] = "replying" => pc'[l + 1] # "bridging"
      BY <1>0, <1>2 DEF Goto
    <3> QED BY <1>1, <3>1, <3>2
  <2> QED BY <2>1, <2>2
<1>3. ASSUME NEW k \in Links, NEW m \in Frame, chan' = After(k, "b", m),
             pc'[k + 1] = "bridging",
             k # l => (pc[l + 1] = "replying" => pc'[l + 1] # "bridging")
      PROVE  AnswerMove(l)
  <2>1. CASE l = k
    BY <1>3, <2>1 DEF AnswerMove
  <2>2. CASE l # k
    <3>1. chan'[l]["b"] = chan[l]["b"]
      BY <1>a, <1>b, <1>3, <2>2
    <3> QED BY <1>1, <1>3, <2>2, <3>1
  <2> QED BY <2>1, <2>2
<1>4. CASE QuietStep
  BY <1>1, <1>4, QuietEffect
<1>5. CASE QuitStep
  <2>1. PICK S, c : Departs(S, c)
    BY <1>0, <1>5, QuitEffect
  <2>2. /\ chan'[l]["b"] = IF l \in S THEN << >> ELSE c[l]["b"]
        /\ \/ c[l]["b"] = chan[l]["b"]
           \/ S = {l + 1} /\ c = After(l, "b", Err)
    <3>1. Reader(l, "b") = l
      BY DEF Reader
    <3> QED BY <1>a, <2>1, <3>1, DepartStreams
  <2>3. /\ l \in S => pc'[l] \in Gone
        /\ l + 1 \in S => pc'[l + 1] \in Gone
        /\ pc'[l + 1] = "bridging" => pc[l + 1] = "bridging"
    BY <1>0, <2>1 DEF Departs, Leave, Gone
  <2>4. CASE l \in S
    BY <2>2, <2>3, <2>4 DEF AnswerMove
  <2>5. CASE l \notin S /\ c[l]["b"] = chan[l]["b"]
    BY <1>1, <2>2, <2>3, <2>5
  <2>6. CASE l \notin S /\ S = {l + 1} /\ c = After(l, "b", Err)
    <3>1. Err \in Frame /\ chan'[l]["b"] = After(l, "b", Err)[l]["b"]
      BY <2>2, <2>6, FrameTypes
    <3> QED BY <2>3, <2>6, <3>1 DEF AnswerMove
  <2> QED BY <2>2, <2>4, <2>5, <2>6
<1>6. ASSUME NEW k \in Links, LoseStream(k)
      PROVE  AnswerMove(l)
  <2>1. /\ cut' = cut \cup {k} /\ pc' = pc
        /\ chan' = [chan EXCEPT ![k] = [d \in Dir |-> << >>]]
    BY <1>6, LoseEffect
  <2>2. IF l = k THEN chan'[l]["b"] = << >> ELSE chan'[l]["b"] = chan[l]["b"]
    BY <1>a, <2>1 DEF ChanType
  <2> QED BY <1>1, <2>1, <2>2 DEF AnswerMove
<1>7. ASSUME NEW t \in Tasks, ReadChain(t) \/ SendDial(t) \/ OpenStream(t)
      PROVE  AnswerMove(l)
  <2>1. chan'[l]["b"] = chan[l]["b"]
    BY <1>a, <1>b, <1>7, TaskPlaces DEF ReadChain, SendDial, OpenStream
  <2>2. pc[l + 1] = "replying" => pc'[l + 1] # "bridging"
    BY <1>0, <1>7, TaskPlaces DEF ReadChain, SendDial, OpenStream, Goto, Open
  <2> QED BY <1>1, <2>1, <2>2
<1>8. ASSUME NEW t \in Tasks, AwaitOk(t)
      PROVE  AnswerMove(l)
  <2>1. /\ t \in Nodes /\ t \in Links /\ Goto(t, "replying") /\ chan[t]["b"] # << >>
        /\ chan' = Unread(t, "b")
    BY <1>8, TaskPlaces DEF AwaitOk, Arrived
  <2>2. pc'[t] # "awaiting"
    BY <1>0, <2>1 DEF Goto
  <2> QED BY <1>2, <2>1, <2>2
<1>9. CASE DialerReadsOk
  <2>1. pc[0] = "awaiting" /\ Goto(0, "selecting") /\ chan[0]["b"] # << >> /\ chan' = Unread(0, "b")
    BY <1>9 DEF DialerReadsOk, Arrived
  <2>2. pc'[0] # "awaiting" /\ 0 \in Nodes /\ 0 \in Links
    BY <1>0, <2>1 DEF Goto
  <2> QED BY <1>2, <2>1, <2>2
<1>10. ASSUME NEW t \in Tasks, Reply(t)
       PROVE  AnswerMove(l)
  <2>1. /\ t - 1 \in Links /\ t \in Nodes /\ t - 1 + 1 = t /\ Goto(t, "bridging")
        /\ chan' = After(t - 1, "b", Ok) /\ Ok \in Frame
    BY <1>10, TaskPlaces, FrameTypes DEF Reply, Tasks
  <2>2. pc'[t] = "bridging" /\ (l + 1 # t => pc'[l + 1] = pc[l + 1])
    BY <1>0, <2>1 DEF Goto
  <2>3. t - 1 # l => l + 1 # t
    BY <1>0, <2>1
  <2>4. pc'[t - 1 + 1] = "bridging"
    BY <2>1, <2>2
  <2>5. t - 1 # l => (pc[l + 1] = "replying" => pc'[l + 1] # "bridging")
    BY <2>2, <2>3
  <2> QED BY <1>3, <2>1, <2>4, <2>5
<1>11. ASSUME NEW n \in Links, ForwardChain(n)
       PROVE  AnswerMove(l)
  <2>1. chan' = After(n, "f", Chain(Tail(hops[n]))) /\ Goto(n, "awaiting")
    BY <1>11 DEF ForwardChain
  <2>2. chan'[l]["b"] = chan[l]["b"]
    BY <1>a, <1>b, <2>1
  <2>3. pc[l + 1] = "replying" => pc'[l + 1] # "bridging"
    BY <1>0, <2>1 DEF Goto
  <2> QED BY <1>1, <2>2, <2>3
<1>12. CASE DialerConnect \/ DialerOpen \/ StartNetcat \/ ListenerReadsRequest
  <2>1. chan'[l]["b"] = chan[l]["b"]
    BY <1>a, <1>b, <1>12
       DEF DialerConnect, DialerOpen, StartNetcat, ListenerReadsRequest
  <2>2. pc[l + 1] = "replying" => pc'[l + 1] # "bridging"
    BY <1>0, <1>12 DEF DialerConnect, DialerOpen, StartNetcat, ListenerReadsRequest, Goto, Open
  <2> QED BY <1>1, <2>1, <2>2
<1>13. ASSUME NEW t \in Tasks, NEW d \in Dir, CopyData(t, d)
       PROVE  AnswerMove(l)
  <2> DEFINE m == Head(chan[From(t, d)][d])
  <2>0. chan[From(t, d)][d] # << >>
    BY <1>13 DEF CopyData
  <2>1. /\ m \in Frame
        /\ chan'[l]["b"] = IF l = From(t, d) /\ "b" = d THEN Tail(chan[l]["b"])
                           ELSE After(To(t, d), d, m)[l]["b"]
    BY <1>0, <1>13, CopyEffect, Directions
  <2>2. pc[t] = "bridging" /\ pc' = pc
    BY <1>13 DEF CopyData
  <2> HIDE DEF m
  <2>3. CASE l = From(t, d) /\ "b" = d
    <3>1. l = t
      BY <2>3 DEF From
    <3> QED BY <2>0, <2>1, <2>2, <2>3, <3>1 DEF AnswerMove
  <2>4. CASE l = To(t, d) /\ "b" = d
    <3>1. l + 1 = t /\ l # From(t, d)
      BY <2>4, TaskPlaces DEF To, From, Tasks
    <3> QED BY <2>1, <2>2, <2>4, <3>1 DEF AnswerMove
  <2>5. CASE ~(l = From(t, d) /\ "b" = d) /\ ~(l = To(t, d) /\ "b" = d)
    <3>1. chan'[l]["b"] = chan[l]["b"]
      BY <1>b, <2>1, <2>5, TaskPlaces
    <3> QED BY <1>1, <2>2, <3>1
  <2> QED BY <2>3, <2>4, <2>5
<1>14. ASSUME NEW d \in Dir, Show(d)
       PROVE  AnswerMove(l)
  <2>1. /\ pc' = pc /\ pc[User(Opp(d))] = "bridging" /\ chan' = Unread(Last(d), d)
        /\ chan[Last(d)][d] # << >> /\ Last(d) \in Links
        /\ d = "b" => Last(d) = User(Opp(d))
    BY <1>14, UserPlaces DEF Show, Arrived, Last, From
  <2>2. chan'[l]["b"] = IF l = Last(d) /\ "b" = d THEN Tail(chan[l]["b"]) ELSE chan[l]["b"]
    BY <1>b, <2>1
  <2>3. CASE l = Last(d) /\ "b" = d
    BY <2>1, <2>2, <2>3 DEF AnswerMove
  <2>4. CASE ~(l = Last(d) /\ "b" = d)
    BY <1>1, <2>1, <2>2, <2>4
  <2> QED BY <2>3, <2>4
<1>15. ASSUME NEW d \in Dir, Type(d)
       PROVE  AnswerMove(l)
  <2> DEFINE m == Data(sent[d] + 1)
  <2>1. /\ pc' = pc /\ pc[User(d)] = "bridging" /\ First(d) \in Links
        /\ chan' = After(First(d), d, m)
        /\ d = "b" => First(d) + 1 = User(d)
    <3>1. d = "b" => First(d) + 1 = User(d)
      BY NType DEF First, To, User
    <3> QED BY <1>15, <3>1, UserPlaces DEF Type, First
  <2>2. m \in Frame
    BY <1>0, FrameTypes DEF TypeOK
  <2> HIDE DEF m
  <2>3. CASE d = "b"
    BY <1>3, <2>1, <2>2, <2>3
  <2>4. CASE d = "f"
    <3>1. chan'[l]["b"] = chan[l]["b"]
      BY <1>b, <2>1, <2>4
    <3> QED BY <1>1, <2>1, <3>1
  <2> QED BY <2>3, <2>4 DEF Dir
<1> QED BY <1>4, <1>5, <1>6, <1>7, <1>8, <1>9, <1>10, <1>11, <1>12, <1>13, <1>14, <1>15,
           StepKinds DEF ProgramStep, DataStep

\* A task answers once, and its answer stays until it is read or lost.
LEMMA AnswersKeptStep ==
  ASSUME IInv, Programs, AnswersKept, [Next]_vars
  PROVE  AnswersKept'
<1> SUFFICES ASSUME NEW l \in Links
             PROVE  /\ pc'[l + 1] \notin Gone \cup {"bridging"} => chan'[l]["b"] = << >>
                    /\ pc'[l] = "awaiting" /\ Up(l + 1)' /\ l \notin cut' =>
                         chan'[l]["b"] # << >>
  BY DEF AnswersKept
<1>0. /\ HopsHeld /\ NobodyAhead /\ TypeOK /\ chan \in ChanType /\ chan[l]["b"] \in Seq(Frame)
      /\ l \in Nodes /\ l + 1 \in Nodes /\ l + 1 # 0 /\ l \in Int /\ N \in Int
  BY TypedChan, EndPlaces, Directions DEF IInv, ChanType
<1>1. AnswerMove(l) /\ PcMove(l) /\ PcMove(l + 1) /\ cut \subseteq cut'
  BY <1>0, AnswerEffect, PcEffect, FaultsEffect
<1>2. ASSUME pc'[l + 1] \notin Gone \cup {"bridging"}
      PROVE  chan'[l]["b"] = << >>
  <2>1. pc[l + 1] \notin Gone \cup {"bridging"}
    BY <1>1, <1>2 DEF PcMove, Gone
  <2>2. chan[l]["b"] = << >>
    BY <2>1 DEF AnswersKept
  <2> QED BY <1>1, <1>2, <2>2 DEF AnswerMove
<1>3. ASSUME pc'[l] = "awaiting", Up(l + 1)', l \notin cut'
      PROVE  chan'[l]["b"] # << >>
  <2>1. pc[l] = "awaiting"
    <3>1. pc[l] \in {"awaiting", "forwarding"}
      BY <1>1, <1>3 DEF PcMove
    <3>2. CASE pc[l] = "forwarding"
      <4>1. pc[l + 1] \in {"reading", "failed"} /\ l # N
        BY <1>0, <3>2 DEF NobodyAhead, HopsHeld
      <4>2. l + 1 # N + 1
        BY <1>0, <4>1
      <4> QED BY <1>0, <1>1, <1>3, <4>1, <4>2 DEF PcMove, Up
    <3> QED BY <3>1, <3>2
  <2>2. l # N
    BY <2>1 DEF Programs
  <2>3. Up(l + 1) \/ (pc[l + 1] = "replying" /\ pc'[l + 1] = "bridging")
    <3>1. l + 1 # N + 1
      BY <1>0, <2>2
    <3> QED BY <1>0, <1>1, <1>3, <3>1 DEF PcMove, Up
  <2>4. Up(l + 1) => chan[l]["b"] # << >>
    BY <1>1, <1>3, <2>1 DEF AnswersKept
  <2>5. CASE chan'[l]["b"] = chan[l]["b"] /\ (pc[l + 1] = "replying" => pc'[l + 1] # "bridging")
    BY <2>3, <2>4, <2>5
  <2>6. ASSUME NEW m \in Frame, chan'[l]["b"] = After(l, "b", m)[l]["b"]
        PROVE  chan'[l]["b"] # << >>
    <3>1. ~Broken(l, "b")
      BY <1>1, <1>3, <2>1 DEF Broken, Reader, Gone
    <3>2. chan'[l]["b"] = Append(chan[l]["b"], m)
      BY <1>0, <2>6, <3>1, Directions DEF After, ChanType
    <3> QED BY <1>0, <3>2
  <2> QED BY <1>1, <1>3, <2>5, <2>6 DEF AnswerMove, Gone
<1> QED BY <1>2, <1>3

-----------------------------------------------------------------------------
(* What the users' processes heard.                                        *)

\* The end of a stream, once read up to, stays its end: nobody who writes to
\* it has anything to write any more.
LEMMA EofStays ==
  ASSUME IInv, EndsKept, [Next]_vars, NEW l \in Links, NEW d \in Dir, AtEof(l, d)
  PROVE  AtEof(l, d)'
<1> USE DEF others
<1>0. /\ TypeOK /\ HopsHeld /\ chan \in ChanType /\ "f" \in Dir /\ "b" \in Dir
      /\ 0 \in Links /\ N \in Links
  BY TypedChan, Directions, EndPlaces DEF IInv
<1>1. /\ chan[l][d] = << >>
      /\ end[l][d] \in {"shut", "gone"} \/ l \in cut
      /\ end[l][d] \in {"shut", "gone"} => pc[Writer(l, d)] \in Gone \cup {"bridging"}
  <2>1. end[l][d] \in {"shut", "gone"} => pc[Writer(l, d)] \in Gone \cup {"bridging"}
    BY DEF EndsKept, Up, Gone
  <2> QED BY <2>1 DEF AtEof
<1>a. ASSUME NEW k \in Links, NEW e \in Dir, NEW m,
             end[k][e] = "open" \/ pc[Writer(k, e)] \notin Gone \cup {"bridging"}
      PROVE  After(k, e, m)[l][d] = << >>
  <2>1. CASE l = k /\ d = e
    <3>1. l \in cut
      BY <1>1, <1>a, <2>1
    <3>2. Broken(k, e)
      BY <2>1, <3>1 DEF Broken
    <3> QED BY <1>1, <2>1, <3>2 DEF After
  <2>2. CASE ~(l = k /\ d = e)
    BY <1>0, <1>1, <2>2, AfterEffect
  <2> QED BY <2>1, <2>2
<1>b. ASSUME NEW k \in Links, NEW e \in Dir, chan[k][e] # << >>
      PROVE  Unread(k, e)[l][d] = << >>
  BY <1>0, <1>1, <1>b, UnreadEffect
<1>2. chan'[l][d] = << >>
  <2>1. CASE QuietStep
    BY <1>1, <2>1, QuietEffect
  <2>2. CASE QuitStep
    <3>1. PICK S, c : Departs(S, c)
      BY <1>0, <2>2, QuitEffect
    <3>2. /\ chan'[l][d] = IF Reader(l, d) \in S THEN << >> ELSE c[l][d]
          /\ \/ c[l][d] = chan[l][d]
             \/ d = "b" /\ Reports(l + 1) /\ c = After(l, "b", Err)
      BY <1>0, <3>1, DepartStreams
    <3>3. CASE d = "b" /\ Reports(l + 1) /\ c = After(l, "b", Err)
      <4>1. pc[Writer(l, "b")] \notin Gone \cup {"bridging"}
        BY <3>3 DEF Writer, Reports, OpenFails, AwaitErr, Gone
      <4>2. c[l][d] = << >>
        BY <1>0, <1>a, <3>3, <4>1
      <4> QED BY <3>2, <4>2
    <3> QED BY <1>1, <3>2, <3>3
  <2>3. ASSUME NEW k \in Links, LoseStream(k)
        PROVE  chan'[l][d] = << >>
    <3>1. chan' = [chan EXCEPT ![k] = [x \in Dir |-> << >>]]
      BY <2>3, LoseEffect
    <3> QED BY <1>0, <1>1, <3>1 DEF ChanType
  <2>4. CASE ProgramStep
    <3>1. ASSUME NEW t \in Tasks, ReadChain(t) \/ AwaitOk(t)
          PROVE  chan'[l][d] = << >>
      BY <1>0, <1>b, <3>1, TaskPlaces DEF ReadChain, AwaitOk, Arrived
    <3>2. CASE DialerReadsOk \/ ListenerReadsRequest
      BY <1>0, <1>b, <3>2 DEF DialerReadsOk, ListenerReadsRequest, Arrived
    <3>3. ASSUME NEW t \in Tasks, Reply(t)
          PROVE  chan'[l][d] = << >>
      <4>1. t - 1 \in Links /\ t - 1 + 1 = t
        BY TaskPlaces DEF Tasks
      <4>2. pc[Writer(t - 1, "b")] = "replying" /\ chan' = After(t - 1, "b", Ok)
        BY <3>3, <4>1 DEF Reply, Writer
      <4> QED BY <1>0, <1>a, <4>1, <4>2 DEF Gone
    <3>4. ASSUME NEW n \in Links, NEW m, pc[n] \in {"forwarding", "selecting"},
                 chan' = After(n, "f", m)
          PROVE  chan'[l][d] = << >>
      BY <1>0, <1>a, <3>4 DEF Writer, Gone
    <3>5. CASE StartNetcat \/ \E n \in Links : ForwardChain(n)
      BY <1>0, <3>4, <3>5 DEF StartNetcat, ForwardChain
    <3>6. CASE DialerConnect \/ DialerOpen \/ \E t \in Tasks : SendDial(t) \/ OpenStream(t)
      BY <1>1, <3>6 DEF DialerConnect, DialerOpen, SendDial, OpenStream
    <3> QED BY <2>4, <3>1, <3>2, <3>3, <3>5, <3>6 DEF ProgramStep
  <2>5. ASSUME NEW t \in Tasks, NEW e \in Dir, CopyData(t, e)
        PROVE  chan'[l][d] = << >>
    <3>1. /\ To(t, e) \in Links /\ end[To(t, e)][e] = "open"
          /\ chan[From(t, e)][e] # << >>
      BY <2>5, TaskPlaces DEF CopyData
    <3>2. chan'[l][d] = IF l = From(t, e) /\ d = e THEN Tail(chan[l][d])
                        ELSE After(To(t, e), e, Head(chan[From(t, e)][e]))[l][d]
      BY <1>0, <2>5, CopyEffect
    <3>3. ~(l = From(t, e) /\ d = e)
      BY <1>1, <3>1
    <3> QED BY <1>a, <3>1, <3>2, <3>3
  <2>6. ASSUME NEW e \in Dir, Show(e) \/ Type(e)
        PROVE  chan'[l][d] = << >>
    <3>1. First(e) \in Links /\ Last(e) \in Links
      BY UserPlaces
    <3>2. \/ chan[Last(e)][e] # << >> /\ chan' = Unread(Last(e), e)
          \/ end[First(e)][e] = "open" /\ \E m : chan' = After(First(e), e, m)
      BY <2>6 DEF Show, Type, First, Last, Arrived
    <3> QED BY <1>a, <1>b, <3>1, <3>2
  <2> QED BY <2>1, <2>2, <2>3, <2>4, <2>5, <2>6, StepKinds DEF DataStep
<1>3. end'[l][d] \in {"shut", "gone"} \/ l \in cut'
  BY <1>0, <1>1, ShutStays, FaultsEffect
<1> QED BY <1>2, <1>3 DEF AtEof

\* Who hears the end reads it.
LEMMA HeardEffect ==
  ASSUME TypeOK, [Next]_vars, NEW d \in Dir
  PROVE  \/ heard'[d] = heard[d]
         \/ OutputEof(d) /\ ~heard[d] /\ heard'[d] = TRUE
<1> USE DEF vars, taskVars, others, swarmVars, userVars
<1>0. heard \in [Dir -> BOOLEAN]
  BY DEF TypeOK
<1>1. ASSUME NEW x \in Dir, OutputEof(x)
      PROVE  \/ heard'[d] = heard[d]
             \/ OutputEof(d) /\ ~heard[d] /\ heard'[d] = TRUE
  <2>1. heard' = [heard EXCEPT ![x] = TRUE] /\ ~heard[x]
    BY <1>1 DEF OutputEof
  <2> QED BY <1>0, <1>1, <2>1
<1>2. CASE QuietStep
  <2>1. \/ heard' = heard
        \/ \E x \in Dir : OutputEof(x)
    BY <1>2 DEF QuietStep, RetryOpen, CopyEof, StdinEof, SwarmStep, SwarmDial, DialOutcome
  <2> QED BY <1>1, <2>1
<1>3. CASE QuitStep
  BY <1>3, QuitEffect DEF Departs
<1>4. CASE ProgramStep \/ DataStep \/ \E l \in Links : LoseStream(l)
  BY <1>4, ProgramEffect, DataEffect, LoseEffect
<1> QED BY <1>2, <1>3, <1>4, StepKinds

\* What a user's process heard as the end is one.
LEMMA SessionsKeptStep ==
  ASSUME IInv, EndsKept, SessionsKept, [Next]_vars
  PROVE  SessionsKept'
<1>0. TypeOK /\ "f" \in Dir /\ User("f") = 0 /\ User(Opp("f")) = N + 1
  BY Directions DEF IInv, User, Opp
<1>1. ASSUME ~Up(0)'
      PROVE  sent'["f"] = 0
  <2>1. ~Up(0)
    BY <1>1, UpStays, EndPlaces
  <2>2. ~Type("f")
    BY <1>0, <2>1 DEF Type, Up
  <2> QED BY <1>0, <2>1, <2>2, SentEffect DEF SessionsKept
<1>2. ASSUME ~Up(N + 1)'
      PROVE  recv'["f"] = << >>
  <2>1. ~Up(N + 1)
    BY <1>2, UpStays, EndPlaces
  <2>2. ~Show("f")
    BY <1>0, <2>1 DEF Show, Up
  <2> QED BY <1>0, <2>1, <2>2, SentEffect DEF SessionsKept
<1>3. ASSUME NEW d \in Dir, heard'[d]
      PROVE  /\ Up(User(Opp(d)))' /\ chan'[Last(d)][d] = << >>
             /\ end'[Last(d)][d] \in {"shut", "gone"} \/ Last(d) \in cut'
  <2>1. Last(d) \in Links /\ User(Opp(d)) \in Nodes
    BY UserPlaces
  <2>2. AtEof(Last(d), d) /\ Up(User(Opp(d)))
    <3>1. CASE heard'[d] = heard[d]
      BY <1>3, <3>1 DEF SessionsKept, AtEof
    <3>2. CASE OutputEof(d)
      BY <3>2 DEF OutputEof, Last, Up
    <3> QED BY <1>0, <3>1, <3>2, HeardEffect
  <2>3. AtEof(Last(d), d)' /\ Up(User(Opp(d)))'
    BY <2>1, <2>2, EofStays, UpStays
  <2> QED BY <2>3 DEF AtEof
<1> QED BY <1>1, <1>2, <1>3 DEF SessionsKept

-----------------------------------------------------------------------------
(* Nobody ends early while nothing failed.                                 *)

\* Without a fault one node returns at a time, each for its own reason.
LEMMA LeaverEffect ==
  ASSUME IInv, [Next]_vars, faults' = faults, NEW n \in Nodes, pc'[n] \in Gone, pc'[n] # pc[n]
  PROVE  /\ \A m \in Nodes : m # n => pc'[m] = pc[m]
         /\ \/ /\ n \in Tasks
               /\ \/ RefuseChain(n) \/ OpenFails(n) \/ AwaitErr(n) \/ TaskIoFails(n)
                  \/ CopyDone(n) \/ \E d \in Dir : CopyError(n, d)
            \/ n \in {0, N + 1} /\ pc[n] # "bridging"
            \/ \E d \in Dir : n = User(d) /\ (NetcatDone(d) \/ NetcatError(d))
<1>0. TypeOK /\ faults \in Nat
  BY DEF IInv, TypeOK
<1>1. CASE QuietStep \/ DataStep \/ \E l \in Links : LoseStream(l)
  <2>1. pc' = pc
    BY <1>1, QuietEffect, DataEffect, LoseEffect
  <2> QED BY <2>1
<1>2. CASE ProgramStep
  BY <1>0, <1>2, ProgramPc
<1>3. CASE QuitStep
  <2>1. ASSUME NEW x \in Nodes, NEW c, Leave({x}, c)
        PROVE  x = n /\ \A m \in Nodes : m # n => pc'[m] = pc[m]
    BY <2>1 DEF Leave
  <2>2. ASSUME NEW t \in Tasks,
               \/ RefuseChain(t) \/ OpenFails(t) \/ AwaitErr(t) \/ TaskIoFails(t)
               \/ CopyDone(t) \/ \E d \in Dir : CopyError(t, d)
        PROVE  t = n /\ \A m \in Nodes : m # n => pc'[m] = pc[m]
    <3>1. t \in Nodes
      BY TaskPlaces
    <3>2. \E c : Leave({t}, c)
      BY <2>2 DEF RefuseChain, OpenFails, AwaitErr, TaskIoFails, CopyDone, CopyError,
                  FailUpstream, Return
    <3> QED BY <2>1, <3>1, <3>2
  <2>3. CASE DialerGivesUp \/ DialerIoFails \/ DialerFails \/ DialerBails
    <3>1. pc[0] # "bridging" /\ \E c : Leave({0}, c)
      BY <2>3 DEF DialerGivesUp, DialerIoFails, DialerFails, DialerBails, Return
    <3>2. 0 = n /\ \A m \in Nodes : m # n => pc'[m] = pc[m]
      BY <2>1, <3>1, EndPlaces
    <3> QED BY <3>1, <3>2
  <2>4. CASE ListenerRefuses
    <3>1. pc[N + 1] # "bridging" /\ \E c : Leave({N + 1}, c)
      BY <2>4 DEF ListenerRefuses, Return
    <3>2. N + 1 = n /\ \A m \in Nodes : m # n => pc'[m] = pc[m]
      BY <2>1, <3>1, EndPlaces
    <3> QED BY <3>1, <3>2
  <2>5. ASSUME NEW d \in Dir, NetcatDone(d) \/ NetcatError(d)
        PROVE  n = User(d) /\ \A m \in Nodes : m # n => pc'[m] = pc[m]
    <3>1. \E c : Leave({User(d)}, c)
      BY <2>5 DEF NetcatDone, NetcatError, Return
    <3> QED BY <2>1, <3>1, UserPlaces
  <2>6. ASSUME (\E d \in Dir : ExitUser(d)) \/ (\E p \in RelayPeers : CrashRelay(p))
        PROVE  FALSE
    <3>1. faults' = faults + 1
      BY <2>6 DEF ExitUser, CrashRelay
    <3> QED BY <1>0, <3>1
  <2> QED BY <1>3, <2>2, <2>3, <2>4, <2>5, <2>6 DEF QuitStep
<1> QED BY <1>1, <1>2, <1>3, StepKinds

\* While nothing failed, the end of what a working node reads came in order.
LEMMA CleanEof ==
  ASSUME IInv, AskedFor, EndsKept, InOrder, CleanEnds, Clean, NEW l \in Links, NEW d \in Dir
  PROVE  /\ pc[Reader(l, d)] = "bridging" /\ AtEof(l, d) => end[l][d] = "shut"
         /\ pc[Reader(l, d)] = "bridging" => ~Reset(l, d)
         /\ pc[Writer(l, d)] = "bridging" /\ end[l][d] = "open" => ~Broken(l, d)
<1>1. cut = {}
  BY DEF Clean, EndsKept
<1>2. Reader(l, d) \in {l, l + 1} /\ Writer(l, d) \in {l, l + 1}
  BY LinkPlaces
<1>3. ASSUME pc[Reader(l, d)] = "bridging" \/ pc[Writer(l, d)] = "bridging"
      PROVE  /\ end[l][d] # "gone"
             /\ pc[Reader(l, d)] \in Gone => end[l][d] = "shut"
  <2>1. pc[l] # "failed" /\ pc[l + 1] # "failed"
    BY <1>2, <1>3, Neighbours
  <2> QED BY <2>1, CleanLink
<1>4. pc[Reader(l, d)] = "bridging" => end[l][d] # "gone"
  BY <1>3
<1>5. pc[Writer(l, d)] = "bridging" /\ end[l][d] = "open" => pc[Reader(l, d)] \notin Gone
  BY <1>3
<1> QED BY <1>1, <1>4, <1>5 DEF AtEof, Reset, Broken

\* A working node is not stopped by an error then.
LEMMA CleanLeave ==
  ASSUME IInv, AskedFor, EndsKept, InOrder, CleanEnds, Clean, NEW d \in Dir
  PROVE  /\ \A t \in Tasks : ~CopyError(t, d)
         /\ ~NetcatError(d)
<1>1. ASSUME NEW t \in Tasks
      PROVE  ~CopyError(t, d)
  <2>1. /\ From(t, d) \in Links /\ To(t, d) \in Links
        /\ Reader(From(t, d), d) = t /\ Writer(To(t, d), d) = t
    BY CopyPlaces
  <2> QED BY <2>1, CleanEof DEF CopyError
<1>2. ~NetcatError(d)
  <2>1. /\ First(d) \in Links /\ Last(Opp(d)) \in Links /\ Opp(d) \in Dir
        /\ Writer(First(d), d) = User(d) /\ Reader(Last(Opp(d)), Opp(d)) = User(d)
        /\ Opp(Opp(d)) = d
    BY UserPlaces
  <2>2. /\ pc[User(d)] = "bridging" /\ end[First(d)][d] = "open" => ~Broken(First(d), d)
        /\ pc[User(d)] = "bridging" => ~Reset(Last(Opp(d)), Opp(d))
    BY <2>1, CleanEof
  <2> QED BY <2>1, <2>2 DEF NetcatError, First, Last
<1> QED BY <1>1, <1>2

\* Who fails takes nobody's chain down that is up.
LEMMA FailStep ==
  ASSUME IInv, NobodyBeyond, AskedFor, ErrBacked, EndsKept, AnswersKept, CleanEnds, [Next]_vars,
         Clean', NEW t \in Tasks, pc'[t] \notin {"none", "failed"}
  PROVE  pc'[t - 1] # "failed"
<1> SUFFICES ASSUME pc'[t - 1] = "failed"
             PROVE  FALSE
  OBVIOUS
<1> DEFINE u == t - 1
<1>0. /\ u \in Nodes /\ u \in Links /\ t \in Nodes /\ u + 1 = t /\ u # t
      /\ NobodyAhead /\ Clean /\ faults' = faults /\ cut = {}
      /\ TypeOK /\ chan \in ChanType
  <2>1. u \in Nodes /\ u \in Links /\ t \in Nodes /\ u + 1 = t /\ u # t
    BY TaskPlaces DEF Tasks
  <2>2. Clean /\ faults' = faults
    BY CleanBefore
  <2> QED BY <2>1, <2>2, TypedChan DEF Clean, EndsKept, IInv
<1>1. PcMove(t) /\ PcMove(u)
  BY <1>0, PcEffect
<1>2. CASE pc[u] = "failed"
  <2>1. pc[t] \in {"none", "failed"}
    BY <1>0, <1>2 DEF CleanEnds
  <2> QED BY <1>1, <1>2, <2>1 DEF PcMove
<1>3. CASE pc[u] # "failed"
  <2>1. u \in Tasks
    BY <1>0 DEF Clean, Tasks, Links
  <2>2. /\ \A m \in Nodes : m # u => pc'[m] = pc[m]
        /\ \/ RefuseChain(u) \/ OpenFails(u) \/ AwaitErr(u) \/ TaskIoFails(u)
           \/ CopyDone(u) \/ \E d \in Dir : CopyError(u, d)
           \/ u \in {0, N + 1}
           \/ \E d \in Dir : u = User(d)
    BY <1>0, <1>3, LeaverEffect DEF Gone
  <2>3. pc'[t] = pc[t] /\ u \notin {0, N + 1} /\ \A d \in Dir : u # User(d)
    <3>1. pc'[t] = pc[t]
      BY <1>0, <2>2
    <3>2. u # 0 /\ u # N + 1
      BY <2>1, NType DEF Tasks
    <3>3. \A d \in Dir : u # User(d)
      BY <2>1, UserPlaces
    <3> QED BY <3>1, <3>2, <3>3
  <2>4. ~CopyDone(u) /\ ~(\E d \in Dir : CopyError(u, d))
    BY <1>0, <1>1, <1>3 DEF PcMove, CopyDone, CopyError
  <2>5. pc[t] \notin {"none", "failed"}
    BY <2>3
  <2>6. CASE pc[u] \in {"reading", "opening"}
    BY <1>0, <2>5, <2>6 DEF NobodyAhead, NotYetOpen
  <2>7. CASE AwaitErr(u)
    <3>1. Holds(chan[u]["b"], "err")
      BY <1>0, <2>7, HoldsTail, Directions DEF AwaitErr, Arrived, ChanType
    <3>2. PICK v \in Tasks : v > u /\ \A w \in (u + 1)..v : pc[w] = "failed"
      BY <1>0, <3>1 DEF ErrBacked, GaveUp
    <3>3. t \in (u + 1)..v
      BY <1>0, <2>1, <3>2 DEF Tasks
    <3> QED BY <2>5, <3>2, <3>3
  <2>8. CASE pc[u] = "awaiting" /\ AtEof(u, "b")
    <3>1. chan[u]["b"] = << >> /\ end[u]["b"] \in {"shut", "gone"}
      BY <1>0, <2>8 DEF AtEof
    <3>2. Writer(u, "b") = t
      BY <1>0 DEF Writer
    <3>3. Up(t)
      BY <1>0, <2>5, <3>1, <3>2, Directions DEF EndsKept, Up, Gone
    <3> QED BY <1>0, <2>8, <3>1, <3>3 DEF AnswersKept
  <2>9. CASE pc[u] = "forwarding" /\ Broken(u, "f")
    <3>1. pc[t] \in Gone
      BY <1>0, <2>9 DEF Broken, Reader
    <3> QED BY <1>0, <2>5, <2>9, <3>1 DEF NobodyAhead, Gone
  <2>10. CASE pc[u] = "replying" /\ Broken(u - 1, "b")
    <3>1. pc[u - 1] \in Gone
      BY <1>0, <2>10 DEF Broken, Reader
    <3>2. pc[u - 1] = "failed"
      BY <2>1, <2>10, <3>1 DEF AskedFor, Gone
    <3> QED BY <1>0, <2>1, <2>10, <3>2 DEF CleanEnds
  <2> QED BY <2>2, <2>3, <2>4, <2>6, <2>7, <2>8, <2>9, <2>10
          DEF RefuseChain, OpenFails, TaskIoFails
<1> QED BY <1>2, <1>3

\* Nobody ends before both directions do.
LEMMA CleanEndsStep ==
  ASSUME IInv, NobodyBeyond, AskedFor, ErrBacked, EndsKept, AnswersKept, InOrder, CleanEnds,
         [Next]_vars
  PROVE  CleanEnds'
<1> SUFFICES ASSUME Clean'
             PROVE
    /\ \A t \in Tasks : pc'[t] \notin {"none", "failed"} => pc'[t - 1] # "failed"
    /\ \A t \in Tasks, d \in Dir :
         /\ pc'[t] = "closed" => end'[To(t, d)][d] = "shut"
         /\ end'[To(t, d)][d] = "shut" => end'[From(t, d)][d] = "shut"
    /\ \A d \in Dir :
         /\ pc'[User(d)] = "closed" => end'[First(d)][d] = "shut" /\ heard'[Opp(d)]
         /\ heard'[d] => end'[Last(d)][d] = "shut"
  BY DEF CleanEnds
<1>0. Clean /\ faults' = faults /\ TypeOK
  BY CleanBefore DEF IInv
<1>1. ASSUME NEW t \in Tasks, NEW d \in Dir, pc'[t] = "closed"
      PROVE  end'[To(t, d)][d] = "shut"
  <2>1. To(t, d) \in Links /\ t \in Nodes /\ t # 0 /\ t # N + 1 /\ \A e \in Dir : t # User(e)
    BY TaskPlaces, UserPlaces, NType DEF Tasks
  <2>2. end[To(t, d)][d] = "shut"
    <3>1. CASE pc[t] = "closed"
      BY <1>0, <3>1 DEF CleanEnds
    <3>2. CASE pc[t] # "closed"
      <4>1. pc[t] = "bridging"
        BY <1>1, <2>1, <3>2, UpStays
      <4>2. \/ RefuseChain(t) \/ OpenFails(t) \/ AwaitErr(t) \/ TaskIoFails(t)
            \/ CopyDone(t) \/ \E e \in Dir : CopyError(t, e)
        BY <1>0, <1>1, <2>1, <3>2, LeaverEffect DEF Gone
      <4>3. CopyDone(t)
        BY <1>0, <4>1, <4>2, CleanLeave DEF RefuseChain, OpenFails, AwaitErr, TaskIoFails
      <4> QED BY <4>3 DEF CopyDone
    <3> QED BY <3>1, <3>2
  <2> QED BY <2>1, <2>2, ShutStays
<1>2. ASSUME NEW t \in Tasks, NEW d \in Dir, end'[To(t, d)][d] = "shut"
      PROVE  end'[From(t, d)][d] = "shut"
  <2>1. /\ To(t, d) \in Links /\ From(t, d) \in Links
        /\ Writer(To(t, d), d) = t /\ Reader(From(t, d), d) = t
    BY CopyPlaces
  <2>2. end[From(t, d)][d] = "shut"
    <3>1. CASE end[To(t, d)][d] = "shut"
      BY <1>0, <3>1 DEF CleanEnds
    <3>2. CASE end[To(t, d)][d] # "shut"
      <4>1. Shuts(To(t, d), d)
        BY <1>2, <2>1, <3>2, EndEffect DEF EndMove
      <4>2. \/ To(t, d) = First(d)
            \/ \E v \in Tasks : CopyEof(v, d) /\ To(t, d) = To(v, d)
        BY <4>1 DEF Shuts, First
      <4>3. To(t, d) # First(d)
        BY <2>1, UserPlaces
      <4>4. CopyEof(t, d)
        <5>1. \A v \in Tasks : Writer(To(v, d), d) = v
          BY CopyPlaces
        <5> QED BY <2>1, <4>2, <4>3, <5>1
      <4> QED BY <1>0, <2>1, <4>4, CleanEof DEF CopyEof
    <3> QED BY <3>1, <3>2
  <2> QED BY <2>1, <2>2, ShutStays
<1>3. ASSUME NEW d \in Dir, pc'[User(d)] = "closed"
      PROVE  end'[First(d)][d] = "shut" /\ heard'[Opp(d)]
  <2>1. /\ User(d) \in Nodes /\ First(d) \in Links /\ Opp(d) \in Dir
        /\ \A e \in Dir : User(e) = User(d) => e = d
    BY UserPlaces, NType DEF User, Dir
  <2>2. end[First(d)][d] = "shut" /\ heard[Opp(d)]
    <3>1. CASE pc[User(d)] = "closed"
      BY <1>0, <3>1 DEF CleanEnds
    <3>2. CASE pc[User(d)] # "closed"
      <4>1. pc[User(d)] = "bridging"
        BY <1>3, <2>1, <3>2, UpStays
      <4>2. User(d) \notin Tasks
        BY UserPlaces
      <4>3. \E e \in Dir : User(d) = User(e) /\ (NetcatDone(e) \/ NetcatError(e))
        BY <1>0, <1>3, <2>1, <3>2, <4>1, <4>2, LeaverEffect DEF Gone
      <4>4. NetcatDone(d)
        BY <1>0, <2>1, <4>3, CleanLeave
      <4> QED BY <4>4 DEF NetcatDone, First
    <3> QED BY <3>1, <3>2
  <2> QED BY <1>0, <2>1, <2>2, ShutStays, HeardEffect
<1>4. ASSUME NEW d \in Dir, heard'[d]
      PROVE  end'[Last(d)][d] = "shut"
  <2>1. Last(d) \in Links /\ Reader(Last(d), d) = User(Opp(d))
    BY UserPlaces
  <2>2. end[Last(d)][d] = "shut"
    <3>1. CASE heard[d]
      BY <1>0, <3>1 DEF CleanEnds
    <3>2. CASE OutputEof(d)
      <4>1. pc[User(Opp(d))] = "bridging" /\ AtEof(Last(d), d)
        BY <3>2 DEF OutputEof, Last
      <4> QED BY <1>0, <2>1, <4>1, CleanEof
    <3> QED BY <1>0, <1>4, <3>1, <3>2, HeardEffect
  <2> QED BY <2>1, <2>2, ShutStays
<1> QED BY <1>1, <1>2, <1>3, <1>4, FailStep

-----------------------------------------------------------------------------
(* The theorems.                                                           *)

\* In the beginning nothing is there.
LEMMA InitPipe == Init => PipeInv
<1> SUFFICES ASSUME Init
             PROVE  PipeInv
  OBVIOUS
<1>0. /\ N \in Nat /\ N > 0 /\ N \in Nodes /\ N + 1 \in Nodes /\ N # 0 /\ N + 1 # 0 /\ 0 \in Nodes
      /\ \A t \in Tasks : t \in Nodes /\ t # 0
      /\ \A n \in Links : n \in Nodes /\ n + 1 \in Nodes /\ n + 1 # 0 /\ n \in Int
  BY EndPlaces, TaskPlaces DEF Tasks, Links
<1>1. /\ \A n \in Nodes : pc[n] = IF n = 0 THEN "connecting" ELSE "none"
      /\ \A l \in Links, d \in Dir : chan[l][d] = << >> /\ end[l][d] = "none"
      /\ \A d \in Dir : sent[d] = 0 /\ recv[d] = << >> /\ heard[d] = FALSE
      /\ verdict = "none" /\ cut = {} /\ faults = 0
  BY DEF Init
<1> HIDE DEF Init
<1>2. Programs
  BY <1>0, <1>1 DEF Programs, DialerPC, TaskPC
<1>3. NobodyBeyond
  <2>1. \A n \in Links, m \in Nodes : m > n => m # 0
    BY DEF Links, Nodes
  <2> QED BY <1>1, <2>1 DEF NobodyBeyond
<1>4. AskedFor
  BY <1>0, <1>1 DEF AskedFor
<1>5. ErrBacked
  BY <1>1, HoldsEmpty, Directions DEF ErrBacked
<1>6. EndsKept
  BY <1>0, <1>1 DEF EndsKept
<1>7. AnswersKept
  BY <1>0, <1>1, Directions DEF AnswersKept
<1>8. InOrder
  <2> SUFFICES ASSUME NEW d \in Dir
               PROVE  \E c \in [Nodes -> 0..(sent[d] + 1)] : Through(d, c)
    BY DEF InOrder
  <2> DEFINE c == [n \in Nodes |-> 0]
  <2>1. c \in [Nodes -> 0..(sent[d] + 1)] /\ \A n \in Nodes : c[n] = 0
    BY <1>1
  <2> HIDE DEF c
  <2>2. ~Up(0) /\ ~Up(N + 1) /\ Put(d) = 0 /\ Got(d) = 0
    BY <1>0, <1>1 DEF Up, Put, Got
  <2>3. ASSUME NEW l \in Links
        PROVE  Wire(l, d, c)
    <3>1. c[Reader(l, d)] = 0 /\ c[Writer(l, d)] = 0 /\ chan[l][d] = << >> /\ Prefix(l, d) = 0
      BY <1>1, <2>1, LinkPlaces DEF Prefix
    <3>2. Holding(<< >>, d, 0, 0, 0)
      BY HoldingEmpty
    <3> QED BY <3>1, <3>2 DEF Wire
  <2>4. EndBehind(d, c)
    BY <1>1 DEF EndBehind
  <2>5. Through(d, c)
    BY <2>1, <2>2, <2>3, <2>4, UserPlaces DEF Through
  <2> QED BY <2>1, <2>5
<1>9. SessionsKept
  BY <1>1, Directions DEF SessionsKept
<1>10. CleanEnds
  <2>1. \A t \in Tasks : pc[t] = "none"
    BY <1>0, <1>1
  <2>2. \A d \in Dir : pc[User(d)] # "closed"
    BY <1>1, UserPlaces
  <2>3. \A t \in Tasks, d \in Dir : end[To(t, d)][d] = "none"
    BY <1>1, TaskPlaces
  <2> QED BY <1>1, <2>1, <2>2, <2>3 DEF CleanEnds
<1> QED BY <1>2, <1>3, <1>4, <1>5, <1>6, <1>7, <1>8, <1>9, <1>10 DEF PipeInv

\* A step keeps all of it.
LEMMA PipeStep ==
  ASSUME IInv, PipeInv, [Next]_vars
  PROVE  PipeInv'
BY ProgramsStep, NobodyBeyondStep, AskedForStep, ErrBackedStep, EndsKeptStep, AnswersKeptStep,
   InOrderStep, SessionsKeptStep, CleanEndsStep DEF PipeInv

(***************************************************************************)
(* What the streams between the nodes hold, in either direction, at every  *)
(* moment: the control frames their readers wait for, then the items       *)
(* between what their writer and their reader have passed on; and nothing  *)
(* ends ahead of what is under way while nothing failed.                   *)
(***************************************************************************)
THEOREM PipeInvariant == Spec => []PipeInv
<1>1. IInv /\ PipeInv /\ [Next]_vars => PipeInv'
  BY PipeStep
<1> QED BY InitPipe, InductiveInvariant, <1>1, PTL DEF Spec

(***************************************************************************)
(* A dialer reports that the chain failed only when a relay gave up after  *)
(* its last attempt (relay.rs:237-241, 255-258), for every number of       *)
(* relays.                                                                 *)
(***************************************************************************)
THEOREM ErrorGenuine == Spec => []ErrorIsGenuine
<1>1. PipeInv => ErrorIsGenuine
  <2> SUFFICES ASSUME PipeInv, verdict = "err"
               PROVE  \E t \in Tasks :
                        /\ \A u \in 1..t : pc[u] = "failed"
                        /\ attempt[t] = MaxAttempts - 1
                        /\ \A u \in (t + 1)..(N + 1) : pc[u] = "none"
    BY DEF ErrorIsGenuine
  <2>1. GaveUp(0)
    BY DEF PipeInv, ErrBacked
  <2>2. 0 + 1 = 1
    OBVIOUS
  <2> QED BY <2>1, <2>2 DEF GaveUp
<1> QED BY PipeInvariant, <1>1, PTL

\* What a reader that waits for a control frame reads is one.
LEMMA ControlNext ==
  ASSUME IInv, PipeInv, NEW l \in Links, NEW d \in Dir, Asks(l, d)
  PROVE  Next1(l, d) \in {"nothing"} \cup Control(d)
<1>1. PICK c \in [Nodes -> 0..(sent[d] + 1)] : Wire(l, d, c)
  BY DEF PipeInv, InOrder, Through
<1>2. chan[l][d] # << >> => Head(chan[l][d]).type \in Control(d)
  BY <1>1 DEF Wire, Prefix
<1> QED BY <1>2 DEF Next1

\* What another reads is the next item of the direction, of which the user at
\* its end knows the number.
LEMMA ItemNext ==
  ASSUME IInv, PipeInv, NEW l \in Links, NEW d \in Dir, ~Asks(l, d)
  PROVE  /\ Next1(l, d) \in IF d = "f" THEN {"nothing", "req", "data"} ELSE {"nothing", "data"}
         /\ chan[l][d] # << >> /\ Reader(l, d) = User(Opp(d)) =>
              /\ Got(d) \in Nat /\ Put(d) \in Nat /\ Got(d) < Put(d)
              /\ Head(chan[l][d]) = Nth(d, Got(d) + 1)
<1>0. chan \in ChanType /\ sent[d] \in Nat
  BY TypedChan DEF IInv, TypeOK
<1>1. PICK c \in [Nodes -> 0..(sent[d] + 1)] : Through(d, c)
  BY DEF PipeInv, InOrder
<1>2. c \in [Nodes -> Nat] /\ Wire(l, d, c)
  BY <1>0, <1>1 DEF Through
<1>3. /\ c[Reader(l, d)] \in Nat /\ c[Writer(l, d)] \in Nat
      /\ c[Writer(l, d)] <= Put(d) /\ c[User(Opp(d))] = Got(d)
      /\ c[User(d)] = Put(d) /\ c[User(d)] \in Nat
  BY <1>1, <1>2, LinkPlaces, UserPlaces DEF Through
<1>4. ASSUME chan[l][d] # << >>
      PROVE  /\ c[Reader(l, d)] < c[Writer(l, d)]
             /\ Head(chan[l][d]) = Nth(d, c[Reader(l, d)] + 1)
  BY <1>0, <1>2, <1>4, NextItem
<1>5. Next1(l, d) \in IF d = "f" THEN {"nothing", "req", "data"} ELSE {"nothing", "data"}
  <2>1. ASSUME chan[l][d] # << >>
        PROVE  /\ Head(chan[l][d]).type \in {"req", "data"}
               /\ d = "b" => Head(chan[l][d]).type = "data"
    <3>1. PICK j \in Nat : Head(chan[l][d]) = Nth(d, j + 1)
      BY <1>3, <1>4, <2>1
    <3>2. j + 1 \in Nat /\ j + 1 > 0
      OBVIOUS
    <3>3. Head(chan[l][d]).type \in {"req", "data"}
      BY <3>1, <3>2, NthType
    <3>4. d = "b" => Head(chan[l][d]).type = "data"
      BY <3>1 DEF Nth, Data
    <3> QED BY <3>3, <3>4
  <2> QED BY <2>1 DEF Next1, Dir
<1>6. ASSUME chan[l][d] # << >>, Reader(l, d) = User(Opp(d))
      PROVE  /\ Got(d) \in Nat /\ Put(d) \in Nat /\ Got(d) < Put(d)
             /\ Head(chan[l][d]) = Nth(d, Got(d) + 1)
  BY <1>3, <1>4, <1>6
<1> QED BY <1>5, <1>6

(***************************************************************************)
(* The stream that carried the control frames then carries the data, and   *)
(* no node reads a frame meant for another moment (FramesInStep), for      *)
(* every number of relays: jump.rs leaves nothing of a frame behind, and   *)
(* each side reads exactly what the other wrote.                           *)
(***************************************************************************)
THEOREM InStep == Spec => []FramesInStep
<1>1. ASSUME IInv, PipeInv
      PROVE  FramesInStep
  <2>0. "f" \in Dir /\ "b" \in Dir /\ 0 \in Links /\ N \in Links /\ N \in Nat
    BY Directions, EndPlaces
  <2>1. ASSUME NEW t \in Tasks, pc[t] = "reading"
        PROVE  Next1(t - 1, "f") \in {"nothing", "chain"}
    <3>1. t - 1 \in Links /\ t - 1 < N /\ t - 1 + 1 = t
      BY <2>0 DEF Tasks, Links
    <3>2. Asks(t - 1, "f")
      BY <2>1, <3>1 DEF Asks
    <3> QED BY <1>1, <2>0, <3>1, <3>2, ControlNext DEF Control
  <2>2. ASSUME NEW n \in Links, pc[n] = "awaiting"
        PROVE  Next1(n, "b") \in {"nothing", "ok", "err"}
    <3>1. Asks(n, "b")
      BY <2>2 DEF Asks
    <3> QED BY <1>1, <2>0, <3>1, ControlNext DEF Control
  <2>3. ASSUME NEW n \in Links, pc[n] = "bridging"
        PROVE  Next1(n, "b") \in {"nothing", "data"}
    <3>1. ~Asks(n, "b")
      BY <2>3 DEF Asks
    <3> QED BY <1>1, <2>0, <3>1, ItemNext
  <2>4. ASSUME NEW t \in Tasks, pc[t] = "bridging"
        PROVE  Next1(t - 1, "f") \in {"nothing", "req", "data"}
    <3>1. t - 1 \in Links /\ t - 1 + 1 = t
      BY TaskPlaces DEF Tasks
    <3>2. ~Asks(t - 1, "f")
      BY <2>4, <3>1 DEF Asks
    <3> QED BY <1>1, <2>0, <3>1, <3>2, ItemNext
  <2>5. /\ pc[N + 1] = "reading" => Next1(N, "f") \in {"nothing", "req"}
        /\ pc[N + 1] = "bridging" => Next1(N, "f") \in {"nothing", "data"}
    <3>1. ~Asks(N, "f") /\ Reader(N, "f") = User(Opp("f"))
      BY <2>0 DEF Asks, Reader, User, Opp
    <3>2. chan[N]["f"] # << >> => Got("f") \in Nat /\ Head(chan[N]["f"]) = Nth("f", Got("f") + 1)
      BY <1>1, <2>0, <3>1, ItemNext
    <3>3. CASE pc[N + 1] = "reading"
      <4>1. Got("f") = 0
        BY <3>3 DEF Got, Up
      <4>2. chan[N]["f"] # << >> => Head(chan[N]["f"]) = Req
        BY <3>2, <4>1 DEF Nth
      <4> QED BY <3>3, <4>2 DEF Next1, Req
    <3>4. CASE pc[N + 1] = "bridging"
      <4>1. Got("f") = Len(recv["f"]) + 1 /\ Len(recv["f"]) \in Nat
        BY <1>1, <2>0, <3>4 DEF Got, Up, IInv, TypeOK
      <4>2. chan[N]["f"] # << >> => Head(chan[N]["f"]).type = "data"
        BY <3>2, <4>1 DEF Nth, Data
      <4> QED BY <3>4, <4>2 DEF Next1
    <3> QED BY <3>3, <3>4
  <2> QED BY <2>0, <2>1, <2>2, <2>3, <2>4, <2>5, TaskPlaces DEF FramesInStep
<1> QED BY <1>1, PipeInvariant, InductiveInvariant, PTL

-----------------------------------------------------------------------------
(* The chain implements the pipe (TunnelPipe).                             *)

\* The pipe as PipeRefinement reads it off the chain: its phase, and whether
\* the input of direction d has ended, for one direction and for both.
Phase == IF Up(N + 1) THEN "attached" ELSE IF Up(0) THEN "requested" ELSE "setup"
Closed(d) == end[First(d)][d] \in {"shut", "gone"}
Inputs == [d \in Dir |-> end[To(User(d), d)][d] \in {"shut", "gone"}]

LEMMA InputsClosed ==
  /\ Inputs = [d \in Dir |-> Closed(d)] /\ Inputs' = [d \in Dir |-> Closed(d)']
  /\ Inputs \in [Dir -> BOOLEAN] /\ Inputs' \in [Dir -> BOOLEAN]
BY DEF Inputs, Closed, First

\* A listener's session follows the dialer's, and only a session sends.
LEMMA SessionsFollow ==
  ASSUME IInv, PipeInv
  PROVE  /\ Up(N + 1) => Up(0)
         /\ ~Up(N + 1) => sent["b"] = 0 /\ recv["b"] = << >>
<1>0. /\ sent \in [Dir -> Nat] /\ recv \in [Dir -> Seq(Nat)] /\ "f" \in Dir /\ "b" \in Dir
      /\ 0 \in Nodes /\ N + 1 \in Nodes
  BY Directions, EndPlaces DEF IInv, TypeOK
<1>1. /\ User("f") = 0 /\ User("b") = N + 1
      /\ User(Opp("f")) = N + 1 /\ User(Opp("b")) = 0
  BY DEF User, Opp
<1>2. ASSUME Up(N + 1)
      PROVE  Up(0)
  <2>1. PICK c \in [Nodes -> 0..(sent["f"] + 1)] : Through("f", c)
    BY <1>0 DEF PipeInv, InOrder
  <2>2. c[N + 1] = Len(recv["f"]) + 1 /\ c[N + 1] <= Put("f") /\ Len(recv["f"]) \in Nat
    BY <1>0, <1>1, <1>2, <2>1 DEF Through, Got
  <2>3. Put("f") # 0
    BY <2>2
  <2> QED BY <2>3 DEF Put
<1>3. ASSUME ~Up(N + 1)
      PROVE  sent["b"] = 0 /\ recv["b"] = << >>
  <2>1. PICK c \in [Nodes -> 0..(sent["b"] + 1)] : Through("b", c)
    BY <1>0 DEF PipeInv, InOrder
  <2>2. /\ c[N + 1] = sent["b"] /\ c[N + 1] = 0
        /\ c[0] = Len(recv["b"]) /\ c[0] <= sent["b"]
    BY <1>0, <1>1, <1>3, <2>1 DEF Through, Put, Got
  <2>3. Len(recv["b"]) = 0 /\ recv["b"] \in Seq(Nat)
    BY <1>0, <2>2
  <2> QED BY <2>2, <2>3
<1> QED BY <1>2, <1>3

\* The end of an input is the user's, or that of their program.
LEMMA ClosedEffect ==
  ASSUME IInv, EndsKept, [Next]_vars, NEW d \in Dir
  PROVE  \/ Closed(d)' <=> Closed(d)
         \/ /\ ~Closed(d) /\ Closed(d)'
            /\ \/ StdinEof(d)
               \/ QuitStep /\ pc'[User(d)] # pc[User(d)]
<1>1. First(d) \in Links /\ Writer(First(d), d) = User(d) /\ User(d) \in Nodes
  BY UserPlaces
<1>2. EndMove(First(d), d)
  BY <1>1, EndEffect
<1>3. /\ end[First(d)][d] = "none" <=> pc[First(d) + 1] = "none"
      /\ end[First(d)][d] = "open" => pc[User(d)] \notin Gone
  BY <1>1 DEF EndsKept
<1>4. CASE end[First(d)][d] = "open" /\ end'[First(d)][d] = "gone" /\ pc'[User(d)] \in Gone
  <2>1. pc'[User(d)] # pc[User(d)]
    BY <1>3, <1>4
  <2>2. QuitStep
    <3>1. CASE QuietStep \/ DataStep \/ \E l \in Links : LoseStream(l)
      <4>1. pc' = pc
        BY <3>1, QuietEffect, DataEffect, LoseEffect
      <4> QED BY <2>1, <4>1
    <3>2. CASE ProgramStep
      <4>1. TypeOK
        BY DEF IInv
      <4> QED BY <1>1, <1>4, <2>1, <3>2, <4>1, ProgramPc
    <3> QED BY <3>1, <3>2, StepKinds
  <2> QED BY <1>4, <2>1, <2>2 DEF Closed
<1>5. CASE end[First(d)][d] = "open" /\ end'[First(d)][d] = "shut" /\ Shuts(First(d), d)
  <2>1. \A t \in Tasks : First(d) # To(t, d)
    BY <1>1, UserPlaces, CopyPlaces
  <2> QED BY <1>5, <2>1 DEF Closed, Shuts
<1> QED BY <1>1, <1>2, <1>3, <1>4, <1>5 DEF EndMove, Closed

\* What a loss is to the pipe.
LEMMA PipeBreaks ==
  ASSUME IInv, PipeInv, [Next]_vars, faults' = faults + 1,
         UNCHANGED <<sent, recv, heard>>, \A n \in Nodes : Up(n)' <=> Up(n)
  PROVE  Pipe!Break
<1>1. faults + 1 > 0
  BY DEF IInv, TypeOK
<1>2. Phase' = Phase
  BY EndPlaces DEF Phase
<1>3. \A d \in Dir : Closed(d) => Closed(d)'
  BY ShutStays, UserPlaces DEF Closed, PipeInv, IInv
<1>4. Inputs' \in [Dir -> BOOLEAN] /\ \A d \in Dir : Inputs[d] => Inputs'[d]
  BY <1>3, InputsClosed
<1>5. (faults > 0)' = TRUE
  BY <1>1
<1> QED BY <1>2, <1>4, <1>5 DEF Pipe!Break, Phase, Inputs, Pipe!Dir, Dir

\* An end reaches a user's process.
LEMMA PipeHears ==
  ASSUME IInv, PipeInv, [Next]_vars, NEW d \in Dir, OutputEof(d)
  PROVE  Pipe!HearEof(d)
<1>0. /\ TypeOK /\ chan \in ChanType /\ sent \in [Dir -> Nat] /\ recv \in [Dir -> Seq(Nat)]
      /\ heard \in [Dir -> BOOLEAN] /\ faults \in Nat
  BY TypedChan DEF IInv, TypeOK
<1>1. /\ AskedFor /\ EndsKept /\ InOrder /\ CleanEnds /\ SessionsKept
  BY DEF PipeInv
<1>2. /\ pc[User(Opp(d))] = "bridging" /\ ~heard[d] /\ AtEof(Last(d), d)
      /\ heard' = [heard EXCEPT ![d] = TRUE]
      /\ UNCHANGED <<pc, end, sent, recv, faults>>
  BY DEF OutputEof, Last
<1>3. /\ First(d) \in Links /\ Last(d) \in Links
      /\ Reader(Last(d), d) = User(Opp(d))
  BY UserPlaces
<1>4. ASSUME faults = 0
      PROVE  Closed(d) /\ Len(recv[d]) = sent[d]
  <2>1. CASE Clean
    <3>1. end[Last(d)][d] = "shut"
      BY <1>1, <1>2, <1>3, <2>1, CleanEof
    <3>2. ~Broken(Last(d), d) /\ chan[Last(d)][d] = << >>
      <4>1. cut = {}
        BY <1>1, <1>4 DEF EndsKept
      <4> QED BY <1>2, <1>3, <4>1 DEF Broken, AtEof, Gone
    <3>3. PICK c \in [Nodes -> 0..(sent[d] + 1)] : Through(d, c)
      BY <1>1 DEF InOrder
    <3>4. c \in [Nodes -> Nat] /\ Wire(Last(d), d, c)
      BY <1>0, <1>3, <3>3 DEF Through
    <3>5. /\ c[Reader(Last(d), d)] = c[Writer(Last(d), d)]
      BY <1>3, <3>2, <3>4, WireDrained
    <3>6. end[First(d)][d] = "shut" /\ c[Writer(Last(d), d)] = Put(d)
      BY <1>3, <2>1, <3>1, <3>3 DEF Through, EndBehind
    <3>7. Got(d) = Put(d)
      BY <1>3, <3>3, <3>5, <3>6 DEF Through
    <3>8. Len(recv[d]) = sent[d]
      <4>1. Len(recv[d]) \in Nat /\ sent[d] \in Nat
        BY <1>0
      <4>2. CASE d = "b"
        BY <3>7, <4>2 DEF Put, Got
      <4>3. CASE d = "f"
        <5>1. Up(N + 1)
          BY <1>2, <4>3 DEF User, Opp, Up
        <5>2. Up(0)
          BY <5>1, SessionsFollow
        <5> QED BY <3>7, <4>1, <4>3, <5>1, <5>2 DEF Put, Got
      <4> QED BY <4>2, <4>3 DEF Dir
    <3> QED BY <3>6, <3>8 DEF Closed
  <2>2. CASE ~Clean
    <3>1. pc[0] = "failed" \/ pc[N + 1] = "failed"
      BY <1>4, <2>2 DEF Clean
    <3>2. d # "f"
      <4>1. CASE d = "f"
        <5>1. Up(N + 1) /\ pc[N + 1] # "failed"
          BY <1>2, <4>1 DEF User, Opp, Up
        <5>2. Up(0)
          BY <5>1, SessionsFollow
        <5> QED BY <3>1, <5>1, <5>2 DEF Up
      <4> QED BY <4>1
    <3>3. d = "b" /\ pc[0] = "bridging" /\ pc[N + 1] = "failed"
      <4>1. d = "b"
        BY <3>2 DEF Dir
      <4>2. pc[0] = "bridging"
        BY <1>2, <4>1 DEF User, Opp
      <4> QED BY <3>1, <4>1, <4>2
    <3>4. ~Up(N + 1)
      BY <3>3 DEF Up
    <3>5. sent["b"] = 0 /\ recv["b"] = << >>
      BY <3>4, SessionsFollow
    <3>6. First("b") = N /\ N \in Links /\ Writer(N, "b") = N + 1 /\ "b" \in Dir
      BY EndPlaces, Directions DEF First, To, User, Writer
    <3>7. end[N]["b"] \in {"shut", "gone"}
      <4>1. end[N]["b"] \in {"none", "open", "shut", "gone"}
        BY <1>0, <3>6 DEF TypeOK
      <4>2. end[N]["b"] # "none" /\ end[N]["b"] # "open"
        BY <1>1, <3>3, <3>6 DEF EndsKept, Gone
      <4> QED BY <4>1, <4>2
    <3> QED BY <3>3, <3>5, <3>6, <3>7 DEF Closed
  <2> QED BY <2>1, <2>2
<1>5. (faults > 0) \/ (Inputs[d] /\ Len(recv[d]) = sent[d])
  BY <1>0, <1>4, InputsClosed
<1>6. Phase' = Phase /\ Inputs' = Inputs /\ (faults > 0)' = (faults > 0)
  BY <1>2 DEF Phase, Up, Inputs
<1> QED BY <1>2, <1>5, <1>6 DEF Pipe!HearEof, Phase, Inputs

\* A user's input ends.
LEMMA PipeCloses ==
  ASSUME NEW d \in Dir, ~Closed(d), Closed(d)', \A e \in Dir : e # d => (Closed(e)' <=> Closed(e)),
         Phase' = Phase, UNCHANGED <<sent, recv, heard, faults>>
  PROVE  Pipe!Close(d)
<1>1. ~Inputs[d]
  BY InputsClosed
<1>2. Inputs' = [Inputs EXCEPT ![d] = TRUE]
  <2>1. \A e \in Dir : Inputs'[e] = IF e = d THEN TRUE ELSE Inputs[e]
    BY InputsClosed
  <2> QED BY <2>1, InputsClosed
<1>3. (faults > 0)' = (faults > 0)
  OBVIOUS
<1> QED BY <1>1, <1>2, <1>3 DEF Pipe!Close, Phase, Inputs

\* A user types a byte.
LEMMA PipeSends ==
  ASSUME IInv, PipeInv, NEW d \in Dir, Type(d)
  PROVE  Pipe!Send(d)
<1>1. /\ pc[User(d)] = "bridging" /\ end[First(d)][d] = "open"
      /\ sent' = [sent EXCEPT ![d] = @ + 1]
      /\ UNCHANGED <<pc, end, recv, heard, faults>>
  BY DEF Type, First
<1>2. Phase \in (IF d = "f" THEN {"requested", "attached"} ELSE {"attached"})
  BY <1>1 DEF Phase, User, Up
<1>3. ~Inputs[d]
  BY <1>1, InputsClosed DEF Closed
<1>4. Phase' = Phase /\ Inputs' = Inputs /\ (faults > 0)' = (faults > 0)
  BY <1>1 DEF Phase, Up, Inputs
<1> QED BY <1>1, <1>2, <1>3, <1>4 DEF Pipe!Send, Phase, Inputs

\* A user is shown a byte.
LEMMA PipeDelivers ==
  ASSUME IInv, PipeInv, NEW d \in Dir, Show(d)
  PROVE  Pipe!Deliver(d)
<1>0. sent \in [Dir -> Nat] /\ recv \in [Dir -> Seq(Nat)] /\ Len(recv[d]) \in Nat
  BY DEF IInv, TypeOK
<1>1. /\ pc[User(Opp(d))] = "bridging" /\ chan[Last(d)][d] # << >>
      /\ recv' = [recv EXCEPT ![d] = Append(@, Head(chan[Last(d)][d]).n)]
      /\ UNCHANGED <<pc, end, sent, heard, faults>>
  BY DEF Show, Last, Arrived
<1>2. Last(d) \in Links /\ Reader(Last(d), d) = User(Opp(d))
  BY UserPlaces
<1>3. /\ Got(d) < Put(d) /\ Head(chan[Last(d)][d]) = Nth(d, Got(d) + 1)
  BY <1>1, <1>2, ReaderReady, ItemNext
<1>4. /\ Phase = "attached" /\ Len(recv[d]) < sent[d]
      /\ Head(chan[Last(d)][d]).n = Len(recv[d]) + 1
  <2>1. CASE d = "f"
    <3>1. Up(N + 1)
      BY <1>1, <2>1 DEF User, Opp, Up
    <3>2. Up(0)
      BY <3>1, SessionsFollow
    <3>3. Got(d) = Len(recv[d]) + 1 /\ Put(d) = sent[d] + 1 /\ sent[d] \in Nat
      BY <1>0, <2>1, <3>1, <3>2 DEF Got, Put
    <3>4. Nth(d, Got(d) + 1) = Data(Len(recv[d]) + 1)
      BY <1>0, <2>1, <3>3 DEF Nth
    <3> QED BY <1>0, <1>3, <3>1, <3>3, <3>4 DEF Phase, Data
  <2>2. CASE d = "b"
    <3>1. Got(d) = Len(recv[d]) /\ Put(d) = sent[d]
      BY <2>2 DEF Got, Put
    <3>2. sent[d] # 0
      BY <1>0, <1>3, <3>1
    <3>3. Up(N + 1)
      BY <2>2, <3>2, SessionsFollow
    <3> QED BY <1>3, <2>2, <3>1, <3>3 DEF Phase, Nth, Data
  <2> QED BY <2>1, <2>2 DEF Dir
<1>5. ~heard[d]
  BY <1>1 DEF PipeInv, SessionsKept
<1>6. recv' = [recv EXCEPT ![d] = Append(@, Len(@) + 1)]
  BY <1>0, <1>1, <1>4
<1>7. Phase' = Phase /\ Inputs' = Inputs /\ (faults > 0)' = (faults > 0)
  BY <1>1 DEF Phase, Up, Inputs
<1> QED BY <1>1, <1>4, <1>5, <1>6, <1>7 DEF Pipe!Deliver, Phase, Inputs

\* The dialer's request, and the listener's taking it.
LEMMA PipeBegins ==
  ASSUME IInv, PipeInv, StartNetcat \/ ListenerReadsRequest
  PROVE  Pipe!Request \/ Pipe!Attach
<1> USE DEF taskVars, others, userVars
<1>0. /\ TypeOK /\ pc \in [Nodes -> DialerPC \cup TaskPC \cup Gone]
      /\ 0 \in Nodes /\ N + 1 \in Nodes /\ N + 1 # 0 /\ N \in Links /\ N \in Nat
  BY EndPlaces DEF IInv, TypeOK
<1>1. CASE StartNetcat
  <2>1. /\ pc[0] = "selecting" /\ Goto(0, "bridging")
        /\ UNCHANGED <<end, sent, recv, heard, faults>>
    BY <1>1 DEF StartNetcat
  <2>2. ~Up(0) /\ Up(0)' /\ (Up(N + 1)' <=> Up(N + 1))
    BY <1>0, <2>1 DEF Up, Goto
  <2>3. ~Up(N + 1)
    BY <2>2, SessionsFollow
  <2>4. Phase = "setup" /\ Phase' = "requested"
    BY <2>2, <2>3 DEF Phase
  <2>5. Inputs' = Inputs /\ (faults > 0)' = (faults > 0)
    BY <2>1 DEF Inputs
  <2>6. Pipe!Request
    BY <2>1, <2>4, <2>5 DEF Pipe!Request, Phase, Inputs
  <2> QED BY <2>6
<1>2. CASE ListenerReadsRequest
  <2>1. /\ pc[N + 1] = "reading" /\ Goto(N + 1, "bridging") /\ chan[N]["f"] # << >>
        /\ UNCHANGED <<end, sent, recv, heard, faults>>
    BY <1>2 DEF ListenerReadsRequest, Arrived
  <2>2. ~Up(N + 1) /\ Up(N + 1)' /\ (Up(0)' <=> Up(0))
    BY <1>0, <2>1 DEF Up, Goto
  <2>3. Up(0)
    <3>1. ~Asks(N, "f") /\ Reader(N, "f") = User(Opp("f"))
      BY <1>0 DEF Asks, Reader, User, Opp
    <3>2. Got("f") < Put("f") /\ Got("f") \in Nat
      BY <1>0, <2>1, <3>1, ItemNext, Directions
    <3>3. Put("f") # 0
      BY <3>2
    <3> QED BY <3>3 DEF Put
  <2>4. Phase = "requested" /\ Phase' = "attached"
    BY <2>2, <2>3 DEF Phase
  <2>5. Inputs' = Inputs /\ (faults > 0)' = (faults > 0)
    BY <2>1 DEF Inputs
  <2>6. Pipe!Attach
    BY <2>1, <2>4, <2>5 DEF Pipe!Attach, Phase, Inputs
  <2> QED BY <2>6
<1> QED BY <1>1, <1>2

\* A user ends their input.
LEMMA PipeStdin ==
  ASSUME IInv, NEW d \in Dir, StdinEof(d)
  PROVE  Pipe!Close(d)
<1>0. end \in [Links -> [Dir -> {"none", "open", "shut", "gone"}]] /\ First(d) \in Links
  BY UserPlaces DEF IInv, TypeOK
<1>1. /\ end[First(d)][d] = "open"
      /\ end' = [end EXCEPT ![First(d)][d] = "shut"]
      /\ UNCHANGED <<pc, sent, recv, heard, faults>>
  BY DEF StdinEof, First, others, userVars
<1>2. ~Closed(d) /\ Closed(d)'
  BY <1>0, <1>1 DEF Closed
<1>3. ASSUME NEW e \in Dir, e # d
      PROVE  Closed(e)' <=> Closed(e)
  <2>1. First(e) \in Links
    BY UserPlaces
  <2>2. end'[First(e)][e] = end[First(e)][e]
    BY <1>0, <1>1, <1>3, <2>1
  <2> QED BY <2>2 DEF Closed
<1>4. Phase' = Phase
  BY <1>1 DEF Phase, Up
<1> QED BY <1>1, <1>2, <1>3, <1>4, PipeCloses

\* What a fault leaves to the pipe.
LEMMA FaultEffect ==
  ASSUME TypeOK, [Next]_vars, faults' # faults
  PROVE  /\ faults' = faults + 1
         /\ UNCHANGED <<sent, recv, heard>>
         /\ \A n \in Nodes : Up(n)' <=> Up(n)
<1>1. faults' = faults + 1
  BY FaultsEffect
<1>2. CASE QuietStep \/ ProgramStep \/ DataStep
  BY <1>2, QuietEffect, ProgramEffect, DataEffect
<1>3. CASE QuitStep
  <2>1. PICK S, c : Departs(S, c)
    BY <1>3, QuitEffect
  <2>2. \A n \in Nodes : pc'[n] # pc[n] =>
          pc'[n] = IF pc[n] = "bridging" THEN "closed" ELSE "failed"
    BY <2>1 DEF Departs, Leave
  <2>3. \A n \in Nodes : pc'[n] # pc[n] => pc[n] # "closed"
    BY <2>1 DEF Departs, Leave, Live, Gone
  <2> QED BY <1>1, <2>1, <2>2, <2>3 DEF Departs, Up
<1>4. ASSUME NEW l \in Links, LoseStream(l)
      PROVE  UNCHANGED <<sent, recv, heard, pc>>
  BY <1>4, LoseEffect
<1> QED BY <1>1, <1>2, <1>3, <1>4, StepKinds DEF Up

\* The steps the users see nothing of, but that a program may end on one.
Unseen ==
  /\ faults' = faults
  /\ ~StartNetcat /\ ~ListenerReadsRequest
  /\ \A d \in Dir : ~Type(d) /\ ~Show(d) /\ ~OutputEof(d) /\ ~StdinEof(d)

LEMMA UnseenEffect ==
  ASSUME IInv, [Next]_vars, Unseen
  PROVE  Phase' = Phase /\ UNCHANGED <<sent, recv, heard, faults>>
<1>0. TypeOK /\ TypeOK'
  BY TypeStep DEF IInv
<1>1. Phase' = Phase
  <2>1. (Up(0)' <=> Up(0)) /\ (Up(N + 1)' <=> Up(N + 1))
    BY Rises, UpStays, EndPlaces DEF Unseen
  <2> QED BY <2>1 DEF Phase
<1>2. sent' = sent
  <2>1. \A d \in Dir : sent'[d] = sent[d]
    BY <1>0, SentEffect DEF Unseen
  <2> QED BY <1>0, <2>1 DEF TypeOK
<1>3. recv' = recv
  <2>1. \A d \in Dir : recv'[d] = recv[d]
    BY <1>0, SentEffect DEF Unseen
  <2> QED BY <1>0, <2>1 DEF TypeOK
<1>4. heard' = heard
  <2>1. \A d \in Dir : heard'[d] = heard[d]
    BY <1>0, HeardEffect DEF Unseen
  <2> QED BY <1>0, <2>1 DEF TypeOK
<1> QED BY <1>1, <1>2, <1>3, <1>4 DEF Unseen

\* Without a fault at most one program ends, and one input with it.
LEMMA PipeUnseen ==
  ASSUME IInv, PipeInv, [Next]_vars, Unseen
  PROVE  UNCHANGED Pipe!vars \/ \E d \in Dir : Pipe!Close(d)
<1>0. TypeOK /\ EndsKept /\ N + 1 # 0
  BY EndPlaces DEF IInv, PipeInv
<1>1. Phase' = Phase /\ UNCHANGED <<sent, recv, heard, faults>>
  BY UnseenEffect
<1>2. CASE \A d \in Dir : Closed(d)' <=> Closed(d)
  <2>1. \A d \in Dir : Inputs'[d] = Inputs[d]
    BY <1>2, InputsClosed
  <2>2. Inputs' = Inputs /\ (faults > 0)' = (faults > 0)
    BY <1>1, <2>1, InputsClosed
  <2> QED BY <1>1, <2>2 DEF Pipe!vars, Phase, Inputs
<1>3. ASSUME NEW d \in Dir, ~(Closed(d)' <=> Closed(d))
      PROVE  Pipe!Close(d)
  <2>1. \A e \in Dir : \/ Closed(e)' <=> Closed(e)
                       \/ ~Closed(e) /\ Closed(e)' /\ QuitStep /\ pc'[User(e)] # pc[User(e)]
    BY <1>0, ClosedEffect DEF Unseen
  <2>2. PICK S, c : Departs(S, c)
    BY <1>0, <1>3, <2>1, QuitEffect
  <2>3. faults \in Nat
    BY <1>0 DEF TypeOK
  <2>4. PICK n \in Nodes : S = {n}
    BY <2>2, <2>3 DEF Departs, Unseen
  <2>5. \A e \in Dir : pc'[User(e)] # pc[User(e)] => User(e) = n
    <3>1. \A e \in Dir : User(e) \in Nodes
      BY UserPlaces
    <3> QED BY <2>2, <2>4, <3>1 DEF Departs, Leave
  <2>6. \A e \in Dir : e # d => User(e) # User(d)
    BY <1>0 DEF User, Dir
  <2>7. \A e \in Dir : e # d => (Closed(e)' <=> Closed(e))
    BY <1>3, <2>1, <2>5, <2>6
  <2> QED BY <1>1, <1>3, <2>1, <2>7, PipeCloses
<1> QED BY <1>2, <1>3

\* Every step of the chain is one of the pipe, or none.
LEMMA PipeNext ==
  ASSUME IInv, PipeInv, [Next]_vars
  PROVE  [Pipe!Next]_(Pipe!vars)
<1>0. TypeOK
  BY DEF IInv
<1>1. CASE faults' # faults
  <2>1. Pipe!Break
    BY <1>0, <1>1, FaultEffect, PipeBreaks
  <2> QED BY <2>1 DEF Pipe!Next
<1>2. CASE StartNetcat \/ ListenerReadsRequest
  BY <1>2, PipeBegins DEF Pipe!Next
<1>3. ASSUME NEW d \in Dir, Type(d) \/ Show(d) \/ OutputEof(d) \/ StdinEof(d)
      PROVE  Pipe!Next
  <2>1. Pipe!Send(d) \/ Pipe!Deliver(d) \/ Pipe!HearEof(d) \/ Pipe!Close(d)
    BY <1>3, PipeSends, PipeDelivers, PipeHears, PipeStdin
  <2>2. d \in Pipe!Dir
    BY DEF Pipe!Dir, Dir
  <2> QED BY <2>1, <2>2 DEF Pipe!Next
<1>4. CASE Unseen
  <2>1. UNCHANGED Pipe!vars \/ \E d \in Dir : Pipe!Close(d)
    BY <1>4, PipeUnseen
  <2>2. Pipe!Dir = Dir
    BY DEF Pipe!Dir, Dir
  <2> QED BY <2>1, <2>2 DEF Pipe!Next
<1> QED BY <1>1, <1>2, <1>3, <1>4 DEF Unseen

\* The chain starts as the pipe does.
LEMMA PipeInit == Init => Pipe!Init
<1> SUFFICES ASSUME Init PROVE Pipe!Init
  OBVIOUS
<1>1. /\ pc = [n \in Nodes |-> IF n = 0 THEN "connecting" ELSE "none"]
      /\ end = [l \in Links |-> [d \in Dir |-> "none"]]
      /\ sent = [d \in Dir |-> 0] /\ recv = [d \in Dir |-> << >>]
      /\ heard = [d \in Dir |-> FALSE] /\ faults = 0
  BY DEF Init
<1>2. Phase = "setup"
  BY <1>1, EndPlaces DEF Phase, Up
<1>3. Inputs = [d \in Dir |-> FALSE]
  <2>1. \A d \in Dir : ~Closed(d)
    BY <1>1, UserPlaces DEF Closed
  <2> QED BY <2>1, InputsClosed
<1>4. (faults > 0) = FALSE
  BY <1>1
<1>5. Pipe!Dir = Dir
  BY DEF Pipe!Dir, Dir
<1> QED BY <1>1, <1>2, <1>3, <1>4, <1>5 DEF Pipe!Init, Phase, Inputs

(***************************************************************************)
(* For every number of relays and whatever is lost, the copies of the      *)
(* relays (relay.rs:267-269) and the two ends (netcat.rs) are one pipe:    *)
(* what a user types arrives once and in order, nothing before the         *)
(* listener took the request, and no end of file ahead of data unless      *)
(* something was lost.                                                     *)
(***************************************************************************)
THEOREM Refines == Spec => PipeRefinement
<1>1. Init => Pipe!Init
  BY PipeInit
<1>2. IInv /\ PipeInv /\ [Next]_vars => [Pipe!Next]_(Pipe!vars)
  BY PipeNext
<1> QED BY <1>1, <1>2, InductiveInvariant, PipeInvariant, PTL DEF Spec, PipeRefinement, Pipe!Spec
=============================================================================
