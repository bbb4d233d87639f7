-------------------------- MODULE JumpChainProofs --------------------------
(***************************************************************************)
(* For every number of relays, every path, every allowlist and all bounds: *)
(* the types of JumpChain are kept, a dialer that reads Ok has a bridge    *)
(* through every relay it named (OkMeansBridged), and every hop takes      *)
(* exactly itself off the path (ChainShrinks).  First, facts about the     *)
(* constants and the streams, the one form of every way a node returns,    *)
(* and the types, action by action; then what one step does to one node    *)
(* and to one stream, the parts of the inductive invariant, the theorems.  *)
(***************************************************************************)
EXTENDS JumpChainInv, SequenceTheorems, MultiaddrProofs, TLAPS

ChanType == [Links -> [Dir -> Seq(Frame)]]

-----------------------------------------------------------------------------
(* The constants.                                                          *)

\* There is at least one relay task.
LEMMA NType == N \in Nat /\ N > 0
BY AddrsAssumption DEF N

\* The whole path: the -J addresses, then the target.
LEMMA AllType ==
  /\ All \in Seq(Address)
  /\ Len(All) = N + 1
  /\ \A i \in 1..N : All[i] = JumpAddrs[i]
  /\ All[N + 1] = TargetAddr
<1> DEFINE T == <<TargetAddr>>
<1>1. T \in Seq(Address) /\ Len(T) = 1 /\ T[1] = TargetAddr
  BY AddrsAssumption
<1>2. JumpAddrs \in Seq(Address)
  BY AddrsAssumption
<1> HIDE DEF T
<1>3. /\ JumpAddrs \o T \in Seq(Address)
      /\ Len(JumpAddrs \o T) = Len(JumpAddrs) + Len(T)
      /\ \A i \in 1..(Len(JumpAddrs) + Len(T)) :
           (JumpAddrs \o T)[i] = IF i <= Len(JumpAddrs) THEN JumpAddrs[i]
                                 ELSE T[i - Len(JumpAddrs)]
  BY <1>1, <1>2, ConcatProperties
<1>4. All = JumpAddrs \o T
  BY DEF All, T
<1> QED BY <1>1, <1>3, <1>4, NType DEF N

\* What is left of the path after node n: never empty, one shorter each hop.
LEMMA RestType ==
  ASSUME NEW n \in Links
  PROVE  /\ Rest(n) \in Seq(Address)
         /\ Len(Rest(n)) = N + 1 - n
         /\ Rest(n) # << >>
         /\ Rest(n)[1] = All[n + 1]
         /\ n < N => Tail(Rest(n)) = Rest(n + 1)
<1>1. /\ n + 1 \in 1..Len(All) /\ N + 1 \in (n + 1)..Len(All)
      /\ n \in Nat /\ N \in Nat
  BY NType, AllType DEF Links
<1>2. /\ Rest(n) \in Seq(Address)
      /\ Len(Rest(n)) = N + 1 - n
      /\ Rest(n)[1] = All[n + 1]
  <2>1. \A i \in (n + 1)..(N + 1) : All[i] \in Address
    BY <1>1, AllType, ElementOfSeq
  <2>2. /\ SubSeq(All, n + 1, N + 1) \in Seq(Address)
        /\ Len(SubSeq(All, n + 1, N + 1)) =
             IF n + 1 <= N + 1 THEN N + 1 - (n + 1) + 1 ELSE 0
        /\ \A i \in 1..(N + 1 - (n + 1) + 1) :
             SubSeq(All, n + 1, N + 1)[i] = All[n + 1 + i - 1]
    BY <1>1, <2>1, SubSeqProperties
  <2> QED BY <1>1, <2>2 DEF Rest
<1>3. Rest(n) # << >>
  BY <1>1, <1>2
<1>4. Tail(Rest(n)) = Rest(n + 1)
  BY <1>1, AllType, HeadTailOfSubSeq DEF Rest
<1> QED BY <1>2, <1>3, <1>4

\* Node 0 starts with the whole path.
LEMMA RestZero == Rest(0) = All
<1>1. SubSeq(All, 1, Len(All)) = All
  BY AllType, SubSeqFull
<1> QED BY <1>1, AllType DEF Rest

-----------------------------------------------------------------------------
(* Streams.                                                                *)

\* Writing a frame keeps the streams typed.
LEMMA AfterType ==
  ASSUME chan \in ChanType, NEW l \in Links, NEW d \in Dir, NEW m \in Frame
  PROVE  After(l, d, m) \in ChanType
BY DEF After, ChanType

\* Reading a frame keeps the streams typed.
LEMMA UnreadType ==
  ASSUME chan \in ChanType, NEW l \in Links, NEW d \in Dir, chan[l][d] # << >>
  PROVE  Unread(l, d) \in ChanType
BY DEF Unread, ChanType

\* Frames have their types.
LEMMA FrameTypes ==
  /\ Ok \in Frame /\ Err \in Frame /\ Req \in Frame
  /\ \A h \in Seq(Address) : Chain(h) \in Frame
  /\ \A i \in Nat : Data(i) \in Frame
BY DEF Ok, Err, Req, Chain, Data, Frame

\* What a stream holds once a frame is written to it.
LEMMA HoldsAppend ==
  ASSUME NEW s \in Seq(Frame), NEW m \in Frame, NEW type
  PROVE  Holds(Append(s, m), type) => Holds(s, type) \/ m.type = type
BY DEF Holds

\* What a stream held before a frame was read from it.
LEMMA HoldsTail ==
  ASSUME NEW s \in Seq(Frame), s # << >>, NEW type
  PROVE  /\ Holds(Tail(s), type) => Holds(s, type) /\ Len(s) # 1
         /\ Head(s).type = type => Holds(s, type)
<1>1. /\ Head(s) = s[1] /\ Len(s) \in Nat /\ Len(s) > 0
      /\ Len(Tail(s)) = Len(s) - 1
      /\ \A i \in 1..Len(Tail(s)) : Tail(s)[i] = s[i + 1]
  BY HeadTailProperties
<1> QED BY <1>1 DEF Holds

\* Reading the only frame leaves nothing.
LEMMA TailOfOne ==
  ASSUME NEW s \in Seq(Frame), Len(s) = 1
  PROVE  Tail(s) = << >>
<1>1. s # << >>
  BY EmptySeq
<1>2. Tail(s) \in Seq(Frame) /\ Len(Tail(s)) = 0
  BY <1>1, HeadTailProperties
<1> QED BY <1>2, EmptySeq

\* A drained stream holds no frame of any type.
LEMMA HoldsEmpty == \A type : ~Holds(<< >>, type)
BY DEF Holds

\* Every stream after a write to one of them: the frame is added or lost.
LEMMA AfterEffect ==
  ASSUME chan \in ChanType, NEW l \in Links, NEW d \in Dir, NEW m,
         NEW k \in Links, NEW e \in Dir
  PROVE  \/ After(l, d, m)[k][e] = chan[k][e]
         \/ k = l /\ e = d /\ After(l, d, m)[k][e] = Append(chan[k][e], m)
BY DEF After, ChanType

\* Every stream after a read from one of them.
LEMMA UnreadEffect ==
  ASSUME chan \in ChanType, NEW l \in Links, NEW d \in Dir,
         NEW k \in Links, NEW e \in Dir
  PROVE  Unread(l, d)[k][e] = IF k = l /\ e = d THEN Tail(chan[k][e]) ELSE chan[k][e]
BY DEF Unread, ChanType

\* A frame that arrived is a frame.
LEMMA ArrivedType ==
  ASSUME chan \in ChanType, NEW l \in Links, NEW d \in Dir, chan[l][d] # << >>
  PROVE  /\ Head(chan[l][d]) \in Frame
         /\ Head(chan[l][d]).type = "chain" => Head(chan[l][d]).hops \in Seq(Address)
         /\ Head(chan[l][d]).type = "data" => Head(chan[l][d]).n \in Nat
BY DEF ChanType, Frame

\* The streams are typed.
LEMMA TypedChan == TypeOK => chan \in ChanType
BY DEF TypeOK, ChanType

\* The nodes and links next to a task.
LEMMA TaskPlaces ==
  ASSUME NEW t \in Tasks
  PROVE  /\ t \in Nodes /\ t + 1 \in Nodes /\ t - 1 \in Nodes
         /\ t \in Links /\ t - 1 \in Links
         /\ \A d \in Dir : To(t, d) \in Links /\ From(t, d) \in Links /\ To(t, d) # From(t, d)
BY NType DEF Nodes, Tasks, Links, Dir, To, From

\* There are two directions.
LEMMA Directions == "f" \in Dir /\ "b" \in Dir
BY DEF Dir

\* Returning keeps the types of what it touches.
LEMMA LeaveType ==
  ASSUME TypeOK, NEW S, NEW c \in ChanType, Leave(S, c)
  PROVE  /\ pc' \in [Nodes -> DialerPC \cup TaskPC \cup Gone]
         /\ chan' \in ChanType
         /\ end' \in [Links -> [Dir -> {"none", "open", "shut", "gone"}]]
BY DEF TypeOK, Leave, ChanType, Gone

-----------------------------------------------------------------------------
(* Every way a node returns, by itself or with its process, in one form:   *)
(* nothing but a JumpResult::Error is written on the way out, and nobody   *)
(* returns on reading an Ok.                                               *)

Quits ==
  /\ \E S \in SUBSET Nodes, c \in ChanType :
       /\ Leave(S, c)
       /\ \A n \in S : Live(n)
       /\ c = chan \/ \E t \in Tasks : c = After(t - 1, "b", Err)
  /\ host' = host /\ hops' = hops
  /\ verdict' \in {verdict, "err", "eof"}

QuitStep ==
  \/ \E t \in Tasks : \/ RefuseChain(t) \/ OpenFails(t) \/ AwaitErr(t)
                      \/ TaskIoFails(t) \/ CopyDone(t)
                      \/ \E d \in Dir : CopyError(t, d)
  \/ DialerGivesUp \/ DialerIoFails \/ DialerFails \/ DialerBails
  \/ ListenerRefuses
  \/ \E d \in Dir : NetcatDone(d) \/ NetcatError(d) \/ ExitUser(d)
  \/ \E p \in RelayPeers : CrashRelay(p)

\* The nodes that return, and the streams they leave.
LEMMA QuitForms ==
  ASSUME TypeOK, QuitStep
  PROVE  Quits
<1> USE NType
<1>0. /\ chan \in ChanType
      /\ 0 \in Nodes /\ N + 1 \in Nodes /\ \A t \in Tasks : t \in Nodes /\ t - 1 \in Links
      /\ \A d \in Dir : User(d) \in Nodes
  BY DEF TypeOK, ChanType, Nodes, Tasks, Links, User
<1>1. ASSUME NEW n \in Nodes, Live(n), Leave({n}, chan),
             host' = host, hops' = hops, verdict' \in {verdict, "err", "eof"}
      PROVE  Quits
  <2>1. {n} \in SUBSET Nodes /\ \A x \in {n} : Live(x)
    BY <1>1
  <2> QED BY <1>0, <1>1, <2>1 DEF Quits
<1>2. ASSUME NEW t \in Tasks, Live(t), FailUpstream(t)
      PROVE  Quits
  <2>1. {t} \in SUBSET Nodes /\ \A x \in {t} : Live(x)
    BY <1>0, <1>2
  <2>2. After(t - 1, "b", Err) \in ChanType
    BY <1>0, AfterType, FrameTypes DEF Dir
  <2>3. Leave({t}, After(t - 1, "b", Err)) /\ host' = host /\ hops' = hops /\ verdict' = verdict
    BY <1>2 DEF FailUpstream, taskVars
  <2> QED BY <2>1, <2>2, <2>3 DEF Quits
<1>3. ASSUME NEW t \in Tasks, RefuseChain(t) \/ TaskIoFails(t) \/ CopyDone(t)
      PROVE  Quits
  BY <1>0, <1>1, <1>3 DEF Live, Gone, Return, taskVars, RefuseChain, TaskIoFails, CopyDone
<1>4. ASSUME NEW t \in Tasks, OpenFails(t) \/ AwaitErr(t)
      PROVE  Quits
  BY <1>2, <1>4 DEF Live, Gone, OpenFails, AwaitErr
<1>5. ASSUME NEW t \in Tasks, NEW d \in Dir, CopyError(t, d)
      PROVE  Quits
  BY <1>0, <1>1, <1>5 DEF Live, Gone, Return, taskVars, CopyError
<1>6. ASSUME DialerGivesUp \/ DialerIoFails \/ DialerFails \/ DialerBails
      PROVE  Quits
  BY <1>0, <1>1, <1>6 DEF Live, Gone, Return, taskVars, DialerGivesUp, DialerIoFails, DialerFails, DialerBails
<1>7. ASSUME ListenerRefuses
      PROVE  Quits
  BY <1>0, <1>1, <1>7 DEF Live, Gone, Return, taskVars, ListenerRefuses
<1>8. ASSUME NEW d \in Dir, NetcatDone(d) \/ NetcatError(d) \/ ExitUser(d)
      PROVE  Quits
  BY <1>0, <1>1, <1>8 DEF Live, Gone, Return, taskVars, NetcatDone, NetcatError, ExitUser
<1>9. ASSUME NEW p \in RelayPeers, CrashRelay(p)
      PROVE  Quits
  <2> DEFINE S == {t \in Tasks : Live(t) /\ host[t] = p}
  <2>1. S \in SUBSET Nodes /\ \A n \in S : Live(n)
    BY <1>0 DEF Live
  <2>2. Leave(S, chan) /\ host' = host /\ hops' = hops /\ verdict' = verdict
    BY <1>9 DEF CrashRelay, taskVars
  <2> QED BY <1>0, <2>1, <2>2 DEF Quits
<1> QED BY <1>3, <1>4, <1>5, <1>6, <1>7, <1>8, <1>9 DEF QuitStep

-----------------------------------------------------------------------------
(* Types.                                                                  *)

\* The types hold at first.
LEMMA TypeInit == Init => TypeOK
<1> SUFFICES ASSUME Init PROVE TypeOK
  OBVIOUS
<1>1. All \in Seq(Address)
  BY AllType
<1> QED BY <1>1, PeersAssumption, BoundsAssumption DEF Init, TypeOK, DialerPC, TaskPC, Gone

\* A node that returns.
LEMMA TypeReturn ==
  ASSUME TypeOK, NEW n \in Nodes, Return(n)
  PROVE  TypeOK'
<1>1. chan \in ChanType
  BY DEF TypeOK, ChanType
<1>2. Leave({n}, chan)
  BY DEF Return
<1> QED BY <1>1, <1>2, LeaveType
        DEF Return, TypeOK, ChanType, taskVars, others, swarmVars, userVars

\* The steps of a relay's task that set up the chain.
LEMMA TypeSetUp ==
  ASSUME TypeOK, HopsHeld, NEW t \in Tasks,
         \/ ReadChain(t) \/ RefuseChain(t) \/ SendDial(t) \/ OpenStream(t) \/ RetryOpen(t)
         \/ OpenFails(t) \/ AwaitOk(t) \/ AwaitErr(t) \/ Reply(t) \/ TaskIoFails(t)
  PROVE  TypeOK'
<1> USE DEF taskVars, others, swarmVars, userVars
<1>0. /\ chan \in ChanType /\ t \in Nodes /\ t + 1 \in Nodes /\ t \in Links /\ t - 1 \in Links
      /\ "f" \in Dir /\ "b" \in Dir
  BY TypedChan, TaskPlaces, Directions
<1>1. CASE ReadChain(t)
  <2>1. /\ chan' \in ChanType
        /\ Head(chan[t - 1]["f"]).hops \in Seq(Address)
    BY <1>0, <1>1, UnreadType, ArrivedType DEF ReadChain, Arrived
  <2> QED BY <1>0, <1>1, <2>1 DEF ReadChain, TypeOK, ChanType, Goto, TaskPC
<1>2. CASE RefuseChain(t) \/ TaskIoFails(t)
  BY <1>0, <1>2, TypeReturn DEF RefuseChain, TaskIoFails
<1>3. CASE SendDial(t)
  <2>1. hops[t] \in Seq(Address) /\ hops[t] # << >>
    BY <1>0, <1>3, RestType DEF SendDial, HopsHeld
  <2>2. hops[t][1] \in Address
    BY <2>1
  <2>3. dialq' \in [RelayPeers -> Seq(Address)]
    <3>1. dialq \in [RelayPeers -> Seq(Address)]
      BY DEF TypeOK
    <3>2. \A p \in RelayPeers : Append(dialq[p], hops[t][1]) \in Seq(Address)
      BY <2>2, <3>1, AppendProperties
    <3>3. dialq' = [dialq EXCEPT ![host[t]] = Append(dialq[host[t]], hops[t][1])]
      BY <1>3 DEF SendDial
    <3> QED BY <3>1, <3>2, <3>3
  <2> QED BY <1>0, <1>3, <2>3 DEF SendDial, TypeOK, Goto, TaskPC
<1>4. CASE OpenStream(t)
  <2>1. NextPeer(t) \in Peer
    BY <1>4, PeersAssumption DEF OpenStream, Serves
  <2> QED BY <1>0, <1>4, <2>1 DEF OpenStream, Open, TypeOK, TaskPC
<1>5. CASE RetryOpen(t)
  BY <1>5, BoundsAssumption DEF RetryOpen, TypeOK
<1>6. CASE OpenFails(t) \/ AwaitErr(t)
  <2>1. FailUpstream(t)
    BY <1>6 DEF OpenFails, AwaitErr
  <2>2. After(t - 1, "b", Err) \in ChanType
    BY <1>0, AfterType, FrameTypes
  <2>3. Leave({t}, After(t - 1, "b", Err))
    BY <2>1 DEF FailUpstream
  <2> QED BY <2>1, <2>2, <2>3, LeaveType DEF FailUpstream, TypeOK, ChanType
<1>7. CASE AwaitOk(t)
  <2>1. chan' \in ChanType
    BY <1>0, <1>7, UnreadType DEF AwaitOk, Arrived
  <2> QED BY <1>0, <1>7, <2>1 DEF AwaitOk, TypeOK, ChanType, Goto, TaskPC
<1>8. CASE Reply(t)
  <2>1. chan' \in ChanType
    BY <1>0, <1>8, AfterType, FrameTypes DEF Reply
  <2> QED BY <1>0, <1>8, <2>1 DEF Reply, TypeOK, ChanType, Goto, TaskPC
<1> QED BY <1>1, <1>2, <1>3, <1>4, <1>5, <1>6, <1>7, <1>8

\* The steps of copy_bidirectional in a relay's task.
LEMMA TypeCopy ==
  ASSUME TypeOK, NEW t \in Tasks,
         \/ CopyDone(t)
         \/ \E d \in Dir : CopyData(t, d) \/ CopyEof(t, d) \/ CopyError(t, d)
  PROVE  TypeOK'
<1> USE DEF taskVars, others, swarmVars, userVars
<1>0. /\ chan \in ChanType /\ t \in Nodes
      /\ \A d \in Dir : To(t, d) \in Links /\ From(t, d) \in Links /\ To(t, d) # From(t, d)
  BY TypedChan, TaskPlaces
<1>1. CASE CopyDone(t)
  BY <1>0, <1>1, TypeReturn DEF CopyDone
<1>2. ASSUME NEW d \in Dir, CopyData(t, d)
      PROVE  TypeOK'
  <2> DEFINE c == After(To(t, d), d, Head(chan[From(t, d)][d]))
  <2>1. c \in ChanType
    BY <1>0, <1>2, ArrivedType, AfterType DEF CopyData
  <2>2. c[From(t, d)][d] # << >>
    BY <1>0, <1>2 DEF CopyData, After, ChanType
  <2>3. chan' = [c EXCEPT ![From(t, d)][d] = Tail(@)]
    BY <1>2 DEF CopyData
  <2> HIDE DEF c
  <2>4. chan' \in ChanType
    BY <1>0, <2>1, <2>2, <2>3 DEF ChanType
  <2> QED BY <1>2, <2>4 DEF CopyData, TypeOK, ChanType
<1>3. ASSUME NEW d \in Dir, CopyEof(t, d)
      PROVE  TypeOK'
  BY <1>0, <1>3 DEF CopyEof, TypeOK
<1>4. ASSUME NEW d \in Dir, CopyError(t, d)
      PROVE  TypeOK'
  BY <1>0, <1>4, TypeReturn DEF CopyError
<1> QED BY <1>1, <1>2, <1>3, <1>4

\* The steps of a relay's swarm.
LEMMA TypeSwarm ==
  ASSUME TypeOK, NEW p \in RelayPeers, SwarmStep(p)
  PROVE  TypeOK'
<1> USE DEF taskVars, others, swarmVars, userVars
<1>1. CASE SwarmDial(p)
  <2>1. Head(dialq[p]) \in Address /\ Tail(dialq[p]) \in Seq(Address)
    BY <1>1 DEF SwarmDial, TypeOK
  <2>2. PeerIdFromMultiaddr(Head(dialq[p])) \in Peer \cup {NoPeer}
    BY <2>1, PeerIdType
  <2>3. dialing' \in [RelayPeers -> SUBSET (Peer \cup {NoPeer})]
    BY <1>1, <2>2 DEF SwarmDial, TypeOK
  <2> QED BY <1>1, <2>1, <2>3 DEF SwarmDial, TypeOK
<1>2. ASSUME NEW q \in Peer, DialOutcome(p, q)
      PROVE  TypeOK'
  <2>1. Connected(p, q) \in [RelayPeers -> SUBSET Peer]
    BY PeersAssumption DEF Connected, TypeOK
  <2>2. conn' \in [RelayPeers -> SUBSET Peer]
    BY <1>2, <2>1 DEF DialOutcome, TypeOK
  <2> QED BY <1>2, <2>2 DEF DialOutcome, TypeOK
<1> QED BY <1>1, <1>2 DEF SwarmStep

\* The steps of the dialer and of the listener's task.
LEMMA TypeEnds ==
  ASSUME TypeOK, HopsHeld, DialerStep \/ ListenerStep
  PROVE  TypeOK'
<1> USE DEF taskVars, others, swarmVars, userVars
<1>0. /\ chan \in ChanType /\ 0 \in Nodes /\ 1 \in Nodes /\ N + 1 \in Nodes
      /\ 0 \in Links /\ N \in Links /\ "f" \in Dir /\ "b" \in Dir
  BY NType DEF TypeOK, ChanType, Nodes, Links, Dir
<1>1. CASE DialerConnect
  BY <1>0, <1>1 DEF DialerConnect, Goto, TypeOK, DialerPC
<1>2. CASE DialerOpen
  BY <1>0, <1>2, PeersAssumption DEF DialerOpen, Open, TypeOK, TaskPC, DialerPC
<1>3. CASE DialerGivesUp \/ DialerIoFails \/ DialerBails \/ ListenerRefuses
  BY <1>0, <1>3, TypeReturn DEF DialerGivesUp, DialerIoFails, DialerBails, ListenerRefuses
<1>4. CASE ForwardChain(0)
  <2>1. Tail(hops[0]) \in Seq(Address)
    BY <1>0, RestType DEF HopsHeld
  <2>2. chan' \in ChanType
    BY <1>0, <1>4, <2>1, AfterType, FrameTypes DEF ForwardChain
  <2> QED BY <1>0, <1>4, <2>2 DEF ForwardChain, TypeOK, ChanType, Goto, DialerPC
<1>5. CASE DialerReadsOk
  <2>1. chan' \in ChanType
    BY <1>0, <1>5, UnreadType DEF DialerReadsOk, Arrived
  <2> QED BY <1>0, <1>5, <2>1 DEF DialerReadsOk, TypeOK, ChanType, Goto, DialerPC
<1>6. CASE DialerFails
  BY <1>0, <1>6, LeaveType DEF DialerFails, TypeOK, ChanType
<1>7. CASE StartNetcat
  <2>1. chan' \in ChanType
    BY <1>0, <1>7, AfterType, FrameTypes DEF StartNetcat
  <2> QED BY <1>0, <1>7, <2>1 DEF StartNetcat, TypeOK, ChanType, Goto, DialerPC
<1>8. CASE ListenerReadsRequest
  <2>1. chan' \in ChanType
    BY <1>0, <1>8, UnreadType DEF ListenerReadsRequest, Arrived
  <2> QED BY <1>0, <1>8, <2>1 DEF ListenerReadsRequest, TypeOK, ChanType, Goto, DialerPC
<1> QED BY <1>1, <1>2, <1>3, <1>4, <1>5, <1>6, <1>7, <1>8 DEF DialerStep, ListenerStep

\* The steps of run_netcat and of its users.
LEMMA TypeSession ==
  ASSUME TypeOK, NEW d \in Dir, SessionStep(d) \/ UserStep(d)
  PROVE  TypeOK'
<1> USE DEF taskVars, others, swarmVars, userVars
<1>0. /\ chan \in ChanType /\ Opp(d) \in Dir
      /\ \A x \in Dir : /\ User(x) \in Nodes /\ To(User(x), x) \in Links
                        /\ From(User(Opp(x)), x) \in Links
  BY NType DEF TypeOK, ChanType, Nodes, Links, Dir, To, From, User, Opp
<1>1. ASSUME NEW x \in Dir, Show(x)
      PROVE  TypeOK'
  <2> DEFINE l == From(User(Opp(x)), x)
  <2>1. l \in Links
    BY <1>0
  <2>2. /\ Arrived(l, x, "data") /\ chan' = Unread(l, x)
        /\ recv' = [recv EXCEPT ![x] = Append(@, Head(chan[l][x]).n)]
    BY <1>1 DEF Show
  <2> HIDE DEF l
  <2>3. chan' \in ChanType /\ Head(chan[l][x]).n \in Nat
    BY <1>0, <2>1, <2>2, UnreadType, ArrivedType DEF Arrived
  <2>4. recv' \in [Dir -> Seq(Nat)]
    BY <2>2, <2>3 DEF TypeOK
  <2> QED BY <1>1, <2>3, <2>4 DEF Show, TypeOK, ChanType
<1>2. ASSUME NEW x \in Dir, OutputEof(x)
      PROVE  TypeOK'
  BY <1>2 DEF OutputEof, TypeOK
<1>3. CASE NetcatDone(d) \/ NetcatError(d)
  BY <1>0, <1>3, TypeReturn DEF NetcatDone, NetcatError
<1>4. CASE Type(d)
  <2>1. chan' \in ChanType /\ sent[d] + 1 \in Nat
    BY <1>0, <1>4, AfterType, FrameTypes DEF Type, TypeOK
  <2> QED BY <1>4, <2>1 DEF Type, TypeOK, ChanType
<1>5. CASE StdinEof(d)
  BY <1>0, <1>5 DEF StdinEof, TypeOK
<1> QED BY <1>0, <1>1, <1>2, <1>3, <1>4, <1>5 DEF SessionStep, UserStep

\* The faults.
LEMMA TypeFault ==
  ASSUME TypeOK, FaultStep
  PROVE  TypeOK'
<1> USE DEF taskVars, others, swarmVars, userVars
<1>0. /\ chan \in ChanType /\ \A d \in Dir : User(d) \in Nodes
  BY NType DEF TypeOK, ChanType, Nodes, User
<1>1. ASSUME NEW l \in Links, LoseStream(l)
      PROVE  TypeOK'
  <2>1. chan' \in ChanType
    BY <1>0, <1>1 DEF LoseStream, ChanType
  <2> QED BY <1>1, <2>1 DEF LoseStream, TypeOK, ChanType
<1>2. ASSUME NEW p \in RelayPeers, CrashRelay(p)
      PROVE  TypeOK'
  <2> DEFINE S == {t \in Tasks : Live(t) /\ host[t] = p}
  <2>1. Leave(S, chan)
    BY <1>2 DEF CrashRelay
  <2>2. /\ pc' \in [Nodes -> DialerPC \cup TaskPC \cup Gone]
        /\ chan' \in ChanType
        /\ end' \in [Links -> [Dir -> {"none", "open", "shut", "gone"}]]
    BY <1>0, <2>1, LeaveType
  <2>3. /\ conn' \in [RelayPeers -> SUBSET Peer]
        /\ dialq' \in [RelayPeers -> Seq(Address)]
        /\ dialing' \in [RelayPeers -> SUBSET (Peer \cup {NoPeer})]
        /\ faults' \in Nat
    BY <1>2 DEF CrashRelay, TypeOK
  <2> QED BY <1>2, <2>2, <2>3 DEF CrashRelay, TypeOK, ChanType
<1>3. ASSUME NEW d \in Dir, ExitUser(d)
      PROVE  TypeOK'
  BY <1>0, <1>3, LeaveType DEF ExitUser, TypeOK, ChanType
<1> QED BY <1>1, <1>2, <1>3 DEF FaultStep

-----------------------------------------------------------------------------
(* The steps of Next, grouped by what they do to pc, chan, verdict, host   *)
(* and hops, the variables the inductive invariant is about.               *)

\* A step that touches none of them.
Still == UNCHANGED <<pc, chan, verdict, host, hops>>

\* Every step is one of these.
LEMMA StepCases ==
  ASSUME [Next]_vars
  PROVE  \/ Still
         \/ QuitStep
         \/ \E t \in Tasks : \/ ReadChain(t) \/ SendDial(t) \/ OpenStream(t)
                             \/ AwaitOk(t) \/ Reply(t)
                             \/ \E d \in Dir : CopyData(t, d)
         \/ \E n \in Links : ForwardChain(n)
         \/ DialerConnect \/ DialerOpen \/ DialerReadsOk \/ StartNetcat
         \/ ListenerReadsRequest
         \/ \E d \in Dir : Show(d) \/ Type(d)
         \/ \E l \in Links : LoseStream(l)
<1> USE DEF taskVars, others, Still
<1>0. 0 \in Links /\ \A t \in Tasks : t \in Links
  BY NType DEF Links, Tasks
<1>1. CASE UNCHANGED vars
  BY <1>1 DEF vars
<1>2. ASSUME NEW t \in Tasks, TaskStep(t),
             ~RefuseChain(t), ~OpenFails(t), ~AwaitErr(t), ~TaskIoFails(t), ~CopyDone(t),
             \A d \in Dir : ~CopyError(t, d),
             ~ReadChain(t), ~SendDial(t), ~OpenStream(t), ~AwaitOk(t), ~Reply(t),
             ~ForwardChain(t), \A d \in Dir : ~CopyData(t, d)
      PROVE  Still
  <2>1. RetryOpen(t) \/ \E d \in Dir : CopyEof(t, d)
    BY <1>2 DEF TaskStep
  <2> QED BY <2>1 DEF RetryOpen, CopyEof
<1>3. ASSUME NEW p \in RelayPeers, SwarmStep(p)
      PROVE  Still
  BY <1>3 DEF SwarmStep, SwarmDial, DialOutcome
<1>4. ASSUME NEW d \in Dir, OutputEof(d) \/ StdinEof(d)
      PROVE  Still
  BY <1>4 DEF OutputEof, StdinEof
<1>5. \A d \in Dir : Opp(d) \in Dir
  BY DEF Dir, Opp
<1>6. CASE \E t \in Tasks : TaskStep(t)
  BY <1>0, <1>2, <1>6 DEF QuitStep
<1>7. CASE DialerStep \/ ListenerStep
  BY <1>0, <1>7 DEF DialerStep, ListenerStep, QuitStep
<1>8. CASE \E d \in Dir : SessionStep(d) \/ UserStep(d)
  BY <1>4, <1>5, <1>8 DEF SessionStep, UserStep, QuitStep
<1>9. CASE FaultStep
  BY <1>9 DEF FaultStep, QuitStep
<1> QED BY <1>1, <1>3, <1>6, <1>7, <1>8, <1>9 DEF Next

\* Returning in terms of pc: who was bridging is closed, any other failed,
\* and who had returned, or does not exist, stays as it is.
LEMMA QuitPc ==
  ASSUME TypeOK, Quits, NEW n \in Nodes
  PROVE  \/ pc'[n] = pc[n]
         \/ pc'[n] = "closed" /\ pc[n] = "bridging"
         \/ pc'[n] = "failed" /\ pc[n] \notin {"none", "bridging", "closed", "failed"}
BY DEF Quits, Leave, TypeOK, Live, Gone

\* The chain a task is about to read is alone in the stream and is the rest
\* of the path from there.
LEMMA ChainHead ==
  ASSUME TypeOK, ChainAlone, NEW l \in Links,
         chan[l]["f"] # << >>, Head(chan[l]["f"]).type = "chain"
  PROVE  /\ l < N /\ Len(chan[l]["f"]) = 1
         /\ Head(chan[l]["f"]).hops = Rest(l + 1)
         /\ pc[l] \in {"awaiting", "failed"} /\ pc[l + 1] = "reading"
<1>1. chan[l]["f"] \in Seq(Frame)
  BY Directions DEF TypeOK
<1>2. Holds(chan[l]["f"], "chain")
  BY <1>1, HoldsTail
<1> QED BY <1>2 DEF ChainAlone

-----------------------------------------------------------------------------
(* Each part of the inductive invariant is kept by every step.             *)

\* Tasks hold the rest of the path.
LEMMA HopsHeldStep ==
  ASSUME IInv, [Next]_vars
  PROVE  HopsHeld'
<1> USE DEF taskVars, others
<1>0. TypeOK /\ HopsHeld /\ ChainAlone
  BY DEF IInv
<1>1. /\ N \in Nat /\ N > 0 /\ N \in Nodes /\ N \in Tasks
      /\ \A t \in Tasks : t \in Nodes /\ t \in Links /\ t - 1 \in Links /\ t - 1 + 1 = t /\ t # 0 /\ t # N + 1
  BY NType DEF Nodes, Tasks, Links
<1>2. CASE Still
  BY <1>0, <1>2 DEF Still, HopsHeld
<1>3. CASE QuitStep
  <2>1. Quits
    BY <1>0, <1>3, QuitForms
  <2>2. hops' = hops
    BY <2>1 DEF Quits
  <2>3. \A n \in Nodes : pc'[n] \notin {"none", "reading", "failed"} =>
          pc[n] \notin {"none", "reading", "failed"}
    BY <1>0, <2>1, QuitPc
  <2>4. pc'[N] # "forwarding"
    BY <1>0, <1>1, <2>1, QuitPc DEF HopsHeld
  <2> QED BY <1>0, <1>1, <2>2, <2>3, <2>4 DEF HopsHeld
<1>4. ASSUME NEW t \in Tasks, ReadChain(t)
      PROVE  HopsHeld'
  <2>1. /\ chan[t - 1]["f"] # << >> /\ Head(chan[t - 1]["f"]).type = "chain"
        /\ hops' = [hops EXCEPT ![t] = Head(chan[t - 1]["f"]).hops]
        /\ pc' = [pc EXCEPT ![t] = "dialing"]
    BY <1>4 DEF ReadChain, Arrived, Goto
  <2>2. Head(chan[t - 1]["f"]).hops = Rest(t)
    BY <1>0, <1>1, <2>1, ChainHead
  <2>3. hops \in [Links -> Seq(Address)] /\ pc \in [Nodes -> DialerPC \cup TaskPC \cup Gone]
    BY <1>0 DEF TypeOK
  <2>4. hops' = [hops EXCEPT ![t] = Rest(t)]
    BY <2>1, <2>2
  <2> QED BY <1>0, <1>1, <2>1, <2>3, <2>4 DEF HopsHeld
<1>5. ASSUME NEW t \in Tasks, SendDial(t) \/ AwaitOk(t) \/ Reply(t)
      PROVE  HopsHeld'
  BY <1>0, <1>1, <1>5 DEF SendDial, AwaitOk, Reply, Goto, HopsHeld, TypeOK
<1>6. ASSUME NEW t \in Tasks, OpenStream(t)
      PROVE  HopsHeld'
  <2>1. LastHop(t) <=> t = N
    <3>1. hops[t] = Rest(t)
      BY <1>0, <1>1, <1>6 DEF OpenStream, HopsHeld
    <3>2. Len(Rest(t)) = N + 1 - t
      BY <1>1, RestType
    <3>3. t \in Int
      BY DEF Tasks
    <3> QED BY <1>1, <3>1, <3>2, <3>3 DEF LastHop
  <2> QED BY <1>0, <1>1, <1>6, <2>1 DEF OpenStream, Open, HopsHeld, TypeOK
<1>7. ASSUME NEW n \in Links, ForwardChain(n)
      PROVE  HopsHeld'
  BY <1>0, <1>1, <1>7 DEF ForwardChain, Goto, HopsHeld, TypeOK
<1>8. CASE DialerConnect \/ DialerReadsOk \/ StartNetcat \/ ListenerReadsRequest
  BY <1>0, <1>1, <1>8
     DEF DialerConnect, DialerReadsOk, StartNetcat, ListenerReadsRequest, Goto, HopsHeld, TypeOK
<1>9. CASE DialerOpen
  BY <1>0, <1>1, <1>9 DEF DialerOpen, Open, HopsHeld, TypeOK
<1>10. CASE \/ \E t \in Tasks, d \in Dir : CopyData(t, d)
            \/ \E d \in Dir : Show(d) \/ Type(d)
            \/ \E l \in Links : LoseStream(l)
  <2>1. pc' = pc /\ hops' = hops
    BY <1>10 DEF CopyData, Show, Type, LoseStream
  <2> QED BY <1>0, <2>1 DEF HopsHeld
<1> QED BY <1>2, <1>3, <1>4, <1>5, <1>6, <1>7, <1>8, <1>9, <1>10, StepCases

-----------------------------------------------------------------------------
(* What one step does to one node and to one stream.                       *)

\* Node n moves on: it returns, or takes the next step of its program.
PcMove(n) ==
  \/ pc'[n] = pc[n]
  \/ pc[n] = "bridging" /\ pc'[n] = "closed"
  \/ pc[n] \notin {"none", "bridging", "closed", "failed"} /\ pc'[n] = "failed"
  \/ pc[n] = "connecting" /\ pc'[n] = "opening"
  \/ pc[n] = "dialing" /\ pc'[n] = "opening"
  \/ /\ pc[n] = "none" /\ pc'[n] = "reading"
     /\ n - 1 \in Links /\ pc[n - 1] = "opening" /\ pc'[n - 1] \in {"forwarding", "replying"}
     /\ host'[n] = PeerIdFromMultiaddr(All[n])
  \/ /\ pc[n] = "opening" /\ pc'[n] = (IF n = N THEN "replying" ELSE "forwarding")
     /\ n \in Links /\ pc'[n + 1] = "reading"
  \/ /\ pc[n] = "reading" /\ pc'[n] = "dialing"
     /\ n \in Tasks /\ chan[n - 1]["f"] # << >> /\ chan'[n - 1]["f"] = << >>
     /\ Holds(chan[n - 1]["f"], "chain")
  \/ pc[n] = "forwarding" /\ pc'[n] = "awaiting" /\ n \in Links
  \/ pc[n] = "awaiting" /\ pc'[n] = "replying" /\ n \in Tasks /\ Holds(chan[n]["b"], "ok")
  \/ pc[n] = "awaiting" /\ pc'[n] = "selecting" /\ n = 0 /\ Holds(chan[0]["b"], "ok")
  \/ pc[n] = "replying" /\ pc'[n] = "bridging" /\ n \in Tasks
  \/ pc[n] = "selecting" /\ pc'[n] = "bridging" /\ n = 0
  \/ pc[n] = "reading" /\ pc'[n] = "bridging" /\ n = N + 1

\* The nodes and links of the ends.
LEMMA EndPlaces ==
  /\ N \in Nat /\ N > 0 /\ N \in Tasks
  /\ 0 \in Nodes /\ 1 \in Nodes /\ N \in Nodes /\ N + 1 \in Nodes
  /\ 0 \in Links /\ N \in Links
  /\ \A n \in Links : n \in Nodes /\ n + 1 \in Nodes /\ n + 1 # 0
  /\ \A n \in Nodes : n \in Int /\ (n # N + 1 => n \in Links) /\ (n \in Links => n # N + 1)
BY NType DEF Nodes, Links, Tasks

\* Each node at each step.
LEMMA PcEffect ==
  ASSUME IInv, [Next]_vars, NEW n \in Nodes
  PROVE  PcMove(n)
<1> USE DEF taskVars, others
<1>0. TypeOK /\ HopsHeld /\ ChainAlone /\ NobodyAhead /\ chan \in ChanType
  BY TypedChan DEF IInv
<1>a. pc \in [Nodes -> DialerPC \cup TaskPC \cup Gone] /\ host \in [Nodes -> Peer \cup {NoPeer}]
  BY <1>0 DEF TypeOK
<1>1. CASE Still
  BY <1>1 DEF Still, PcMove
<1>2. CASE QuitStep
  BY <1>0, <1>2, QuitForms, QuitPc DEF PcMove
<1>3. ASSUME NEW t \in Tasks, ReadChain(t)
      PROVE  PcMove(n)
  <2>1. /\ pc[t] = "reading" /\ pc' = [pc EXCEPT ![t] = "dialing"]
        /\ chan[t - 1]["f"] # << >> /\ Head(chan[t - 1]["f"]).type = "chain"
        /\ chan' = Unread(t - 1, "f")
    BY <1>3 DEF ReadChain, Arrived, Goto
  <2>2. /\ chan[t - 1]["f"] \in Seq(Frame) /\ Len(chan[t - 1]["f"]) = 1
        /\ chan'[t - 1]["f"] = Tail(chan[t - 1]["f"])
    <3>1. Len(chan[t - 1]["f"]) = 1
      BY <1>0, <2>1, ChainHead, TaskPlaces
    <3>2. chan'[t - 1]["f"] = Tail(chan[t - 1]["f"])
      BY <1>0, <2>1, UnreadEffect, TaskPlaces, Directions
    <3>3. chan[t - 1]["f"] \in Seq(Frame)
      BY <1>0, TaskPlaces, Directions DEF ChanType
    <3> QED BY <3>1, <3>2, <3>3
  <2>3. chan'[t - 1]["f"] = << >>
    BY <2>2, TailOfOne
  <2>4. Holds(chan[t - 1]["f"], "chain")
    BY <2>1, <2>2, HoldsTail
  <2> QED BY <1>a, <2>1, <2>3, <2>4, TaskPlaces DEF PcMove
<1>4. ASSUME NEW t \in Tasks, SendDial(t) \/ Reply(t)
      PROVE  PcMove(n)
  BY <1>a, <1>4, TaskPlaces DEF SendDial, Reply, Goto, PcMove
<1>5. ASSUME NEW t \in Tasks, AwaitOk(t)
      PROVE  PcMove(n)
  <2>1. Holds(chan[t]["b"], "ok")
    BY <1>0, <1>5, TaskPlaces, Directions, HoldsTail DEF AwaitOk, Arrived, ChanType
  <2> QED BY <1>a, <1>5, <2>1, TaskPlaces DEF AwaitOk, Goto, PcMove
<1>6. ASSUME NEW m \in Links, NEW p, NEW label,
             pc[m] = "opening", Open(m, p, label),
             p = PeerIdFromMultiaddr(All[m + 1]),
             label = IF m = N THEN "replying" ELSE "forwarding"
      PROVE  PcMove(n)
  <2>1. /\ m \in Nodes /\ m + 1 \in Nodes /\ m # m + 1 /\ pc[m + 1] = "none"
        /\ m + 1 - 1 = m
    BY <1>0, <1>6, EndPlaces DEF NobodyAhead, NotYetOpen
  <2>2. /\ pc' = [pc EXCEPT ![m] = label, ![m + 1] = "reading"]
        /\ host' = [host EXCEPT ![m + 1] = p]
    BY <1>6 DEF Open
  <2>3. pc'[m] = label /\ pc'[m + 1] = "reading" /\ host'[m + 1] = p
    BY <1>a, <2>1, <2>2
  <2>4. CASE n = m
    BY <1>6, <2>3, <2>4 DEF PcMove
  <2>5. CASE n = m + 1
    BY <1>6, <2>1, <2>3, <2>5 DEF PcMove
  <2>6. CASE n # m /\ n # m + 1
    BY <1>a, <2>2, <2>6 DEF PcMove
  <2> QED BY <2>4, <2>5, <2>6
<1>7. ASSUME NEW t \in Tasks, OpenStream(t)
      PROVE  PcMove(n)
  <2>1. hops[t] = Rest(t) /\ pc[t] = "opening"
    BY <1>0, <1>7 DEF OpenStream, HopsHeld
  <2>2. /\ Len(Rest(t)) = N + 1 - t /\ Rest(t)[1] = All[t + 1]
        /\ t \in Links /\ t \in Int /\ N \in Int
    BY RestType, TaskPlaces, EndPlaces
  <2>3. (LastHop(t) <=> t = N) /\ NextPeer(t) = PeerIdFromMultiaddr(All[t + 1])
    BY <2>1, <2>2 DEF LastHop, NextPeer
  <2>4. Open(t, NextPeer(t), IF t = N THEN "replying" ELSE "forwarding")
    BY <1>7, <2>3 DEF OpenStream
  <2> QED BY <1>6, <2>1, <2>2, <2>3, <2>4
<1>8. CASE DialerOpen
  <2>1. FirstPeer = PeerIdFromMultiaddr(All[0 + 1]) /\ 0 # N
    BY AllType, NType DEF FirstPeer
  <2>2. pc[0] = "opening" /\ Open(0, FirstPeer, "forwarding")
    BY <1>8 DEF DialerOpen
  <2> QED BY <1>6, <2>1, <2>2, EndPlaces
<1>9. ASSUME NEW m \in Links, ForwardChain(m)
      PROVE  PcMove(n)
  BY <1>a, <1>9, EndPlaces DEF ForwardChain, Goto, PcMove
<1>10. CASE DialerReadsOk
  <2>1. Holds(chan[0]["b"], "ok")
    BY <1>0, <1>10, EndPlaces, Directions, HoldsTail DEF DialerReadsOk, Arrived, ChanType
  <2> QED BY <1>a, <1>10, <2>1, EndPlaces DEF DialerReadsOk, Goto, PcMove
<1>11. CASE DialerConnect \/ StartNetcat \/ ListenerReadsRequest
  BY <1>a, <1>11, EndPlaces DEF DialerConnect, StartNetcat, ListenerReadsRequest, Goto, PcMove
<1>12. CASE \/ \E t \in Tasks, d \in Dir : CopyData(t, d)
            \/ \E d \in Dir : Show(d) \/ Type(d)
            \/ \E l \in Links : LoseStream(l)
  BY <1>12 DEF CopyData, Show, Type, LoseStream, PcMove
<1> QED BY <1>1, <1>2, <1>3, <1>4, <1>5, <1>7, <1>8, <1>9, <1>10, <1>11, <1>12, StepCases

\* The two facts about the program's order that only speak of pc.
LEMMA NobodyAheadPc ==
  ASSUME IInv, [Next]_vars, NEW n \in Links
  PROVE  /\ pc'[n] \in NotYetOpen => pc'[n + 1] = "none"
         /\ pc'[n] \notin NotYetOpen \cup {"failed"} => pc'[n + 1] # "none"
<1>0. PcMove(n)
  BY PcEffect, EndPlaces
<1>1. PcMove(n + 1)
  BY PcEffect, EndPlaces
<1>2. /\ pc[n] \in NotYetOpen => pc[n + 1] = "none"
      /\ pc[n] \notin NotYetOpen \cup {"failed"} => pc[n + 1] # "none"
  BY DEF IInv, NobodyAhead
<1>3. n # N + 1 /\ n + 1 - 1 = n /\ n \in Int
  BY EndPlaces
<1>4. pc'[n] \in NotYetOpen => pc[n] \in NotYetOpen /\ pc'[n] \notin {"forwarding", "replying"}
  BY <1>0 DEF PcMove, NotYetOpen
<1>5. pc'[n] \notin NotYetOpen \cup {"failed"} =>
        pc[n] \notin NotYetOpen \cup {"failed"} \/ pc'[n + 1] = "reading"
  BY <1>0, <1>3 DEF PcMove, NotYetOpen
<1>6. pc'[n + 1] = "none" => pc[n + 1] = "none"
  BY <1>1 DEF PcMove
<1>7. pc[n + 1] = "none" /\ pc'[n + 1] # "none" => pc'[n] \in {"forwarding", "replying"}
  <2>1. pc[n + 1] = "none" /\ pc'[n + 1] # "none" =>
          pc'[n + 1 - 1] \in {"forwarding", "replying"}
    BY <1>1, <1>3 DEF PcMove
  <2> QED BY <1>3, <2>1
<1>8. pc'[n] \in NotYetOpen => pc'[n + 1] = "none"
  BY <1>2, <1>4, <1>7
<1>9. pc'[n] \notin NotYetOpen \cup {"failed"} => pc'[n + 1] # "none"
  BY <1>2, <1>5, <1>6
<1> QED BY <1>8, <1>9

\* Nobody reads a stream its writer has yet to write the chain to.
LEMMA ReaderWaits ==
  ASSUME IInv, [Next]_vars, NEW n \in Links, pc'[n] = "forwarding"
  PROVE  pc'[n + 1] \in {"reading", "failed"}
<1>0. PcMove(n)
  BY PcEffect, EndPlaces
<1>1. PcMove(n + 1)
  BY PcEffect, EndPlaces
<1>2. /\ pc[n] = "forwarding" => pc[n + 1] \in {"reading", "failed"} /\ chan[n]["f"] = << >>
      /\ pc[N] # "forwarding"
  BY DEF IInv, NobodyAhead, HopsHeld
<1>3. n \in Int /\ n # N + 1 /\ n + 1 - 1 = n /\ N \in Int
  BY EndPlaces
<1>4. pc[n] = "forwarding" \/ pc'[n + 1] = "reading"
  BY <1>0, <1>3 DEF PcMove
<1>5. CASE pc[n] = "forwarding"
  <2>1. n # N /\ n + 1 # N + 1
    BY <1>2, <1>3, <1>5
  <2>2. chan[n + 1 - 1]["f"] = << >>
    BY <1>2, <1>3, <1>5
  <2> QED BY <1>1, <1>2, <1>3, <1>5, <2>1, <2>2 DEF PcMove
<1> QED BY <1>4, <1>5

\* One stream towards the listener.
ForwardMove(l) ==
  \/ chan'[l]["f"] = << >>
  \/ chan'[l]["f"] = chan[l]["f"] /\ (pc'[l + 1] = "failed" => pc[l + 1] = "failed")
  \/ chan[l]["f"] # << >> /\ chan'[l]["f"] = Tail(chan[l]["f"])
  \/ /\ pc[l] = "forwarding" /\ pc'[l] = "awaiting" /\ pc'[l + 1] = "reading" /\ l < N
     /\ chan'[l]["f"] = Append(chan[l]["f"], Chain(Rest(l + 1)))
  \/ /\ pc[l] \in {"selecting", "bridging"} /\ pc'[l] = "bridging"
     /\ \E m \in Frame : m.type # "chain" /\ chan'[l]["f"] = Append(chan[l]["f"], m)

\* One stream towards the dialer.
BackMove(l) ==
  \/ chan'[l]["b"] = << >>
  \/ chan'[l]["b"] = chan[l]["b"]
  \/ chan[l]["b"] # << >> /\ chan'[l]["b"] = Tail(chan[l]["b"])
  \/ \E m \in Frame : /\ chan'[l]["b"] = Append(chan[l]["b"], m)
                      /\ m.type = "ok" =>
                           /\ l + 1 \in Tasks /\ Beyond(l + 1)
                           /\ pc[l + 1] \in {"replying", "bridging"}
                           /\ pc'[l + 1] = "bridging"

\* What returning does to the streams.
LEMMA QuitStreams ==
  ASSUME TypeOK, Quits, NEW l \in Links
  PROVE  ForwardMove(l) /\ BackMove(l)
<1>1. PICK S \in SUBSET Nodes, c \in ChanType :
        /\ Leave(S, c)
        /\ \A n \in S : Live(n)
        /\ c = chan \/ \E t \in Tasks : c = After(t - 1, "b", Err)
  BY DEF Quits
<1>2. /\ chan'[l]["f"] = IF l + 1 \in S THEN << >> ELSE c[l]["f"]
      /\ chan'[l]["b"] = IF l \in S THEN << >> ELSE c[l]["b"]
      /\ l + 1 \notin S => pc'[l + 1] = pc[l + 1]
  BY <1>1, EndPlaces DEF Leave, Dir, Reader
<1>3. /\ c[l]["f"] = chan[l]["f"]
      /\ c[l]["b"] = chan[l]["b"] \/ c[l]["b"] = Append(chan[l]["b"], Err)
  BY <1>1, TypedChan, AfterEffect, TaskPlaces, Directions
<1>4. ForwardMove(l)
  BY <1>2, <1>3 DEF ForwardMove
<1>5. Err \in Frame /\ Err.type # "ok"
  BY FrameTypes DEF Err
<1>6. BackMove(l)
  BY <1>2, <1>3, <1>5 DEF BackMove
<1> QED BY <1>4, <1>6

\* Reading a frame is a move of each stream.
LEMMA ReadMove ==
  ASSUME chan \in ChanType, NEW k \in Links, NEW d \in Dir, chan[k][d] # << >>,
         chan' = Unread(k, d), NEW l \in Links,
         pc'[l + 1] = "failed" => pc[l + 1] = "failed"
  PROVE  ForwardMove(l) /\ BackMove(l)
<1>1. \A e \in Dir : chan'[l][e] = IF l = k /\ e = d THEN Tail(chan[l][e]) ELSE chan[l][e]
  BY UnreadEffect
<1> QED BY <1>1, Directions DEF ForwardMove, BackMove

\* Writing one that is not a chain, or an Ok that is backed, is too.
LEMMA WriteMove ==
  ASSUME chan \in ChanType, NEW k \in Links, NEW d \in Dir, NEW m \in Frame,
         chan' = After(k, d, m), NEW l \in Links,
         pc'[l + 1] = "failed" => pc[l + 1] = "failed",
         d = "f" => /\ m.type # "chain"
                    /\ pc[k] \in {"selecting", "bridging"} /\ pc'[k] = "bridging",
         d = "b" /\ m.type = "ok" =>
           /\ k + 1 \in Tasks /\ Beyond(k + 1)
           /\ pc[k + 1] \in {"replying", "bridging"} /\ pc'[k + 1] = "bridging"
  PROVE  ForwardMove(l) /\ BackMove(l)
<1>1. \A e \in Dir : \/ chan'[l][e] = chan[l][e]
                     \/ l = k /\ e = d /\ chan'[l][e] = Append(chan[l][e], m)
  BY AfterEffect
<1>2. ForwardMove(l)
  BY <1>1, Directions DEF ForwardMove
<1>3. BackMove(l)
  BY <1>1, Directions DEF BackMove
<1> QED BY <1>2, <1>3

\* Each stream at each step.
LEMMA StreamEffect ==
  ASSUME IInv, [Next]_vars, NEW l \in Links
  PROVE  ForwardMove(l) /\ BackMove(l)
<1> USE DEF taskVars, others
<1>0. /\ TypeOK /\ HopsHeld /\ ChainAlone /\ NobodyAhead /\ OkBacked /\ chan \in ChanType
      /\ pc \in [Nodes -> DialerPC \cup TaskPC \cup Gone]
  BY TypedChan DEF IInv, TypeOK
<1>1. CASE Still
  BY <1>1 DEF Still, ForwardMove, BackMove
<1>2. CASE QuitStep
  BY <1>0, <1>2, QuitForms, QuitStreams
<1>3. ASSUME NEW t \in Tasks, ReadChain(t) \/ AwaitOk(t)
      PROVE  ForwardMove(l) /\ BackMove(l)
  <2>1. /\ \/ chan[t - 1]["f"] # << >> /\ chan' = Unread(t - 1, "f")
           \/ chan[t]["b"] # << >> /\ chan' = Unread(t, "b")
        /\ pc'[l + 1] = "failed" => pc[l + 1] = "failed"
    BY <1>0, <1>3, TaskPlaces, EndPlaces DEF ReadChain, AwaitOk, Arrived, Goto
  <2> QED BY <1>0, <2>1, ReadMove, TaskPlaces, Directions
<1>4. ASSUME NEW t \in Tasks, SendDial(t) \/ OpenStream(t)
      PROVE  ForwardMove(l) /\ BackMove(l)
  BY <1>0, <1>4, TaskPlaces, EndPlaces
     DEF SendDial, OpenStream, Open, Goto, ForwardMove, BackMove
<1>5. ASSUME NEW t \in Tasks, Reply(t)
      PROVE  ForwardMove(l) /\ BackMove(l)
  <2>1. /\ pc[t] = "replying" /\ chan' = After(t - 1, "b", Ok) /\ t - 1 + 1 = t
        /\ pc' = [pc EXCEPT ![t] = "bridging"]
    BY <1>5, EndPlaces, TaskPlaces DEF Reply, Goto
  <2>2. pc'[t] = "bridging" /\ (pc'[l + 1] = "failed" => pc[l + 1] = "failed")
    BY <1>0, <2>1, TaskPlaces, EndPlaces
  <2>3. Beyond(t)
    BY <1>0, <2>1 DEF OkBacked
  <2>4. Ok \in Frame
    BY FrameTypes
  <2> QED BY <1>0, <2>1, <2>2, <2>3, <2>4, WriteMove, TaskPlaces, Directions
<1>6. ASSUME NEW t \in Tasks, NEW d \in Dir, CopyData(t, d)
      PROVE  ForwardMove(l) /\ BackMove(l)
  <2> DEFINE a == From(t, d)
             b == To(t, d)
             m == Head(chan[a][d])
             c == After(b, d, m)
  <2>1. /\ pc[t] = "bridging" /\ pc' = pc /\ chan[a][d] # << >>
        /\ chan' = [c EXCEPT ![a][d] = Tail(@)]
    BY <1>6 DEF CopyData
  <2>2. a \in Links /\ b \in Links /\ a # b
    BY TaskPlaces
  <2>3. m \in Frame /\ c \in ChanType
    BY <1>0, <2>1, <2>2, ArrivedType, AfterType
  <2>4. \A e \in Dir : \/ c[l][e] = chan[l][e]
                       \/ l = b /\ e = d /\ c[l][e] = Append(chan[l][e], m)
    BY <1>0, <2>2, <2>3, AfterEffect
  <2>5. d = "f" => a = t - 1 /\ b = t /\ m.type # "chain"
    <3>1. d = "f" => a = t - 1 /\ b = t
      BY DEF From, To
    <3>2. d = "f" /\ m.type = "chain" => pc[t - 1 + 1] = "reading"
      BY <1>0, <2>1, <2>2, <3>1, ChainHead
    <3>3. t - 1 + 1 = t
      BY DEF Tasks
    <3> QED BY <2>1, <3>1, <3>2, <3>3
  <2>6. d = "b" => a = t /\ b = t - 1 /\ b + 1 = t
    BY DEF Dir, From, To, Tasks
  <2>7. Beyond(t)
    BY <1>0, <2>1 DEF OkBacked
  <2> HIDE DEF a, b, c, m
  <2>8. \A e \in Dir : chan'[l][e] = IF l = a /\ e = d THEN Tail(c[l][e]) ELSE c[l][e]
    BY <2>1, <2>2, <2>3 DEF ChanType
  <2>9. \A e \in Dir : \/ chan'[l][e] = chan[l][e]
                       \/ l = a /\ e = d /\ chan'[l][e] = Tail(chan[l][e])
                       \/ l = b /\ e = d /\ chan'[l][e] = Append(chan[l][e], m)
    BY <2>2, <2>4, <2>8
  <2>10. ForwardMove(l)
    BY <2>1, <2>3, <2>5, <2>9, Directions DEF ForwardMove
  <2>11. BackMove(l)
    BY <2>1, <2>3, <2>6, <2>7, <2>9, Directions DEF BackMove
  <2> QED BY <2>10, <2>11
<1>7. ASSUME NEW n \in Links, ForwardChain(n)
      PROVE  ForwardMove(l) /\ BackMove(l)
  <2>1. /\ pc[n] = "forwarding" /\ pc' = [pc EXCEPT ![n] = "awaiting"]
        /\ chan' = After(n, "f", Chain(Tail(hops[n])))
    BY <1>7 DEF ForwardChain, Goto
  <2>2. n < N /\ n \in Nodes /\ n + 1 \in Nodes /\ n # n + 1
    BY <1>0, <2>1, EndPlaces DEF HopsHeld, Links
  <2>3. hops[n] = Rest(n)
    BY <1>0, <2>1 DEF HopsHeld, Links, Tasks
  <2>4. Tail(hops[n]) = Rest(n + 1)
    BY <2>2, <2>3, RestType
  <2>5. pc'[n] = "awaiting" /\ pc'[n + 1] = pc[n + 1] /\ (pc'[l + 1] = "failed" => pc[l + 1] = "failed")
    BY <1>0, <2>1, <2>2, EndPlaces
  <2>6. pc[n + 1] \in {"reading", "failed"}
    BY <1>0, <2>1 DEF NobodyAhead
  <2>7. CASE pc[n + 1] = "failed"
    <3>1. chan' = chan
      BY <2>1, <2>7, Directions DEF After, Broken, Gone, Reader
    <3> QED BY <2>5, <3>1 DEF ForwardMove, BackMove
  <2>8. CASE pc[n + 1] = "reading"
    <3>1. \A e \in Dir : \/ chan'[l][e] = chan[l][e]
                         \/ l = n /\ e = "f" /\ chan'[l][e] = Append(chan[l][e], Chain(Rest(n + 1)))
      BY <1>0, <2>1, <2>4, AfterEffect, Directions
    <3>2. ForwardMove(l)
      BY <2>1, <2>2, <2>5, <2>8, <3>1, Directions DEF ForwardMove
    <3>3. BackMove(l)
      BY <3>1, Directions DEF BackMove
    <3> QED BY <3>2, <3>3
  <2> QED BY <2>6, <2>7, <2>8
<1>8. CASE DialerConnect \/ DialerOpen
  BY <1>0, <1>8, EndPlaces DEF DialerConnect, DialerOpen, Open, Goto, ForwardMove, BackMove
<1>9. CASE DialerReadsOk \/ ListenerReadsRequest
  <2>1. /\ \/ chan[0]["b"] # << >> /\ chan' = Unread(0, "b")
           \/ chan[N]["f"] # << >> /\ chan' = Unread(N, "f")
        /\ pc'[l + 1] = "failed" => pc[l + 1] = "failed"
    BY <1>0, <1>9, EndPlaces DEF DialerReadsOk, ListenerReadsRequest, Arrived, Goto
  <2> QED BY <1>0, <2>1, ReadMove, EndPlaces, Directions
<1>10. CASE StartNetcat
  <2>1. /\ pc[0] = "selecting" /\ pc'[0] = "bridging" /\ chan' = After(0, "f", Req)
        /\ pc'[l + 1] = "failed" => pc[l + 1] = "failed"
    BY <1>0, <1>10, EndPlaces DEF StartNetcat, Goto
  <2>2. Req \in Frame /\ Req.type # "chain"
    BY FrameTypes DEF Req
  <2> QED BY <1>0, <2>1, <2>2, WriteMove, EndPlaces, Directions
<1>11. ASSUME NEW d \in Dir, Show(d)
       PROVE  ForwardMove(l) /\ BackMove(l)
  <2> DEFINE k == From(User(Opp(d)), d)
  <2>1. k \in Links
    BY NType DEF Links, Dir, From, User, Opp
  <2>2. chan[k][d] # << >> /\ chan' = Unread(k, d) /\ pc' = pc
    BY <1>11 DEF Show, Arrived
  <2> HIDE DEF k
  <2> QED BY <1>0, <2>1, <2>2, ReadMove
<1>12. ASSUME NEW d \in Dir, Type(d)
       PROVE  ForwardMove(l) /\ BackMove(l)
  <2> DEFINE k == To(User(d), d)
             m == Data(sent[d] + 1)
  <2>1. k \in Links /\ (d = "f" => User(d) = k)
    BY NType DEF Links, Dir, To, User
  <2>2. pc[User(d)] = "bridging" /\ chan' = After(k, d, m) /\ pc' = pc
    BY <1>12 DEF Type
  <2>3. m \in Frame /\ m.type # "chain" /\ m.type # "ok"
    <3>1. sent[d] + 1 \in Nat
      BY <1>0 DEF TypeOK
    <3> QED BY <3>1, FrameTypes DEF Data
  <2> HIDE DEF k, m
  <2> QED BY <1>0, <2>1, <2>2, <2>3, WriteMove
<1>13. ASSUME NEW k \in Links, LoseStream(k)
       PROVE  ForwardMove(l) /\ BackMove(l)
  <2>1. pc' = pc /\ chan' = [chan EXCEPT ![k] = [d \in Dir |-> << >>]]
    BY <1>13 DEF LoseStream
  <2>2. \A d \in Dir : chan'[l][d] = << >> \/ chan'[l][d] = chan[l][d]
    BY <1>0, <2>1 DEF ChanType
  <2> QED BY <2>1, <2>2, Directions DEF ForwardMove, BackMove
<1> QED BY <1>1, <1>2, <1>3, <1>4, <1>5, <1>6, <1>7, <1>8, <1>9, <1>10, <1>11,
           <1>12, <1>13, StepCases

-----------------------------------------------------------------------------
(* The rest of the inductive invariant.                                    *)

\* Nobody is ahead of the chain.
LEMMA NobodyAheadStep ==
  ASSUME IInv, [Next]_vars
  PROVE  NobodyAhead'
<1> SUFFICES ASSUME NEW n \in Links
             PROVE  /\ pc'[n] \in NotYetOpen => pc'[n + 1] = "none"
                    /\ pc'[n] \in NotYetOpen \cup {"forwarding"} => chan'[n]["f"] = << >>
                    /\ pc'[n] \notin NotYetOpen \cup {"failed"} => pc'[n + 1] # "none"
                    /\ pc'[n] = "forwarding" => pc'[n + 1] \in {"reading", "failed"}
  BY DEF NobodyAhead
<1>1. PcMove(n)
  BY PcEffect, EndPlaces
<1>2. ForwardMove(n)
  BY StreamEffect
<1>3. pc[n] \in NotYetOpen \cup {"forwarding"} => chan[n]["f"] = << >>
  BY DEF IInv, NobodyAhead
<1>4. pc'[n] \in NotYetOpen \cup {"forwarding"} => pc[n] \in NotYetOpen \cup {"forwarding"}
  BY <1>1 DEF PcMove, NotYetOpen
<1>5. pc'[n] \in NotYetOpen \cup {"forwarding"} => chan'[n]["f"] = << >>
  BY <1>2, <1>3, <1>4 DEF ForwardMove, NotYetOpen
<1> QED BY <1>5, NobodyAheadPc, ReaderWaits

\* A bridge stays up, or was up until it ended.
LEMMA BeyondStays ==
  ASSUME IInv, [Next]_vars, NEW n, Beyond(n)
  PROVE  Beyond(n)'
<1>1. ASSUME NEW u \in Tasks, Up(u)
      PROVE  Up(u)'
  BY <1>1, PcEffect, TaskPlaces DEF PcMove, Up
<1> QED BY <1>1 DEF Beyond

\* A chain frame is alone in its stream, between a writer that waits and a
\* reader that has not read.
LEMMA ChainAloneStep ==
  ASSUME IInv, [Next]_vars
  PROVE  ChainAlone'
<1>0. /\ ChainAlone /\ NobodyAhead /\ OkBacked /\ HopsHeld /\ TypeOK
      /\ chan \in ChanType
  BY TypedChan DEF IInv
<1> SUFFICES ASSUME NEW l \in Links, Holds(chan'[l]["f"], "chain")
             PROVE  /\ l < N /\ Len(chan'[l]["f"]) = 1
                    /\ Head(chan'[l]["f"]).hops = Rest(l + 1)
                    /\ pc'[l] \in {"awaiting", "failed"}
                    /\ pc'[l + 1] = "reading"
  BY DEF ChainAlone, Holds
<1>1. PcMove(l)
  BY PcEffect, EndPlaces
<1>2. PcMove(l + 1)
  BY PcEffect, EndPlaces
<1>3. ForwardMove(l)
  BY StreamEffect
<1>4. chan[l]["f"] \in Seq(Frame)
  BY <1>0, Directions DEF ChanType
<1>5. l \in Int /\ l + 1 - 1 = l /\ N \in Int
  BY EndPlaces
<1>6. chan'[l]["f"] # << >>
  BY HoldsEmpty
<1>7. CASE /\ chan'[l]["f"] = chan[l]["f"]
           /\ pc'[l + 1] = "failed" => pc[l + 1] = "failed"
  <2>1. /\ l < N /\ Len(chan[l]["f"]) = 1
        /\ Head(chan[l]["f"]).hops = Rest(l + 1)
        /\ pc[l] \in {"awaiting", "failed"} /\ pc[l + 1] = "reading"
    BY <1>0, <1>7 DEF ChainAlone
  <2>2. ~Holds(chan[l]["b"], "ok")
    <3>1. l + 1 \in Tasks /\ l + 1 > l
      BY <1>5, <2>1 DEF Tasks, Links
    <3>2. ~Beyond(l)
      BY <2>1, <3>1 DEF Beyond, Up
    <3> QED BY <1>0, <3>2 DEF OkBacked
  <2>3. pc'[l] \in {"awaiting", "failed"}
    BY <1>1, <2>1, <2>2 DEF PcMove
  <2>4. l + 1 # N + 1 /\ chan'[l + 1 - 1]["f"] # << >>
    BY <1>5, <1>6, <2>1
  <2>5. pc'[l + 1] = "reading"
    BY <1>2, <1>5, <1>7, <2>1, <2>4 DEF PcMove
  <2> QED BY <1>7, <2>1, <2>3, <2>5
<1>8. CASE chan[l]["f"] # << >> /\ chan'[l]["f"] = Tail(chan[l]["f"])
  <2>1. Holds(chan[l]["f"], "chain") /\ Len(chan[l]["f"]) # 1
    BY <1>4, <1>8, HoldsTail
  <2> QED BY <1>0, <2>1 DEF ChainAlone
<1>9. CASE /\ pc[l] = "forwarding" /\ pc'[l] = "awaiting" /\ pc'[l + 1] = "reading" /\ l < N
           /\ chan'[l]["f"] = Append(chan[l]["f"], Chain(Rest(l + 1)))
  <2>1. chan[l]["f"] = << >>
    BY <1>0, <1>9 DEF NobodyAhead
  <2>2. /\ Len(chan'[l]["f"]) = 1 /\ Head(chan'[l]["f"]) = Chain(Rest(l + 1))
    BY <1>9, <2>1
  <2> QED BY <1>9, <2>2 DEF Chain
<1>10. ASSUME pc[l] \in {"selecting", "bridging"}, NEW m \in Frame, m.type # "chain",
              chan'[l]["f"] = Append(chan[l]["f"], m)
       PROVE  FALSE
  <2>1. Holds(chan[l]["f"], "chain")
    BY <1>4, <1>10, HoldsAppend
  <2> QED BY <1>0, <1>10, <2>1 DEF ChainAlone
<1> QED BY <1>3, <1>6, <1>7, <1>8, <1>9, <1>10 DEF ForwardMove

\* The verdict is Ok only on reading an Ok.
LEMMA VerdictEffect ==
  ASSUME IInv, [Next]_vars, verdict' = "ok"
  PROVE  verdict = "ok" \/ Holds(chan[0]["b"], "ok")
<1> USE DEF taskVars, others
<1>0. TypeOK /\ chan \in ChanType
  BY TypedChan DEF IInv
<1>1. CASE QuitStep
  BY <1>0, <1>1, QuitForms DEF Quits
<1>2. CASE DialerReadsOk
  BY <1>0, <1>2, EndPlaces, Directions, HoldsTail DEF DialerReadsOk, Arrived, ChanType
<1>3. CASE ~QuitStep /\ ~DialerReadsOk
  <2>1. verdict' = verdict
    BY <1>3, StepCases
       DEF Still, ReadChain, SendDial, OpenStream, AwaitOk, Reply, CopyData, ForwardChain,
           DialerConnect, DialerOpen, StartNetcat, ListenerReadsRequest, Show, Type,
           LoseStream
  <2> QED BY <2>1
<1> QED BY <1>1, <1>2, <1>3

\* An Ok stands for a bridge all the way down.
LEMMA OkBackedStep ==
  ASSUME IInv, [Next]_vars
  PROVE  OkBacked'
<1>0. OkBacked /\ chan \in ChanType
  BY TypedChan DEF IInv
<1>1. ASSUME NEW l \in Links, Holds(chan'[l]["b"], "ok")
      PROVE  Beyond(l)'
  <2>1. BackMove(l) /\ chan[l]["b"] \in Seq(Frame)
    BY <1>0, StreamEffect, Directions DEF ChanType
  <2>2. CASE Holds(chan[l]["b"], "ok")
    BY <1>0, <2>2, BeyondStays DEF OkBacked
  <2>3. CASE ~Holds(chan[l]["b"], "ok")
    <3>1. PICK m \in Frame : /\ chan'[l]["b"] = Append(chan[l]["b"], m)
                             /\ m.type = "ok" =>
                                  /\ l + 1 \in Tasks /\ Beyond(l + 1)
                                  /\ pc'[l + 1] = "bridging"
      BY <1>1, <2>1, <2>3, HoldsEmpty, HoldsTail DEF BackMove
    <3>2. m.type = "ok"
      BY <1>1, <2>1, <2>3, <3>1, HoldsAppend
    <3>3. Beyond(l + 1)'
      BY <3>1, <3>2, BeyondStays
    <3>4. \A u \in Tasks : u > l => u > l + 1 \/ u = l + 1
      BY DEF Tasks, Links
    <3>5. Up(l + 1)'
      BY <3>1, <3>2 DEF Up
    <3> QED BY <3>3, <3>4, <3>5 DEF Beyond
  <2> QED BY <2>2, <2>3
<1>2. ASSUME NEW t \in Tasks, pc'[t] \in {"replying", "bridging", "closed"}
      PROVE  Beyond(t)'
  <2>1. PcMove(t) /\ t # 0 /\ t # N + 1 /\ t \in Links
    BY PcEffect, TaskPlaces, EndPlaces DEF Tasks
  <2>2. \/ pc[t] \in {"replying", "bridging", "closed"}
        \/ t = N
        \/ Holds(chan[t]["b"], "ok")
    BY <1>2, <2>1 DEF PcMove
  <2>3. t = N => Beyond(t)
    BY NType DEF Beyond, Tasks
  <2>4. Beyond(t)
    BY <1>0, <2>1, <2>2, <2>3 DEF OkBacked
  <2> QED BY <2>4, BeyondStays
<1>3. ASSUME verdict' = "ok"
      PROVE  Beyond(0)'
  BY <1>0, <1>3, VerdictEffect, BeyondStays, EndPlaces DEF OkBacked
<1> QED BY <1>1, <1>2, <1>3 DEF OkBacked, Holds

\* A node stays on its peer.
LEMMA HostStays ==
  ASSUME IInv, [Next]_vars, NEW n \in Nodes, pc[n] # "none"
  PROVE  host'[n] = host[n]
<1> USE DEF taskVars, others
<1>0. TypeOK /\ NobodyAhead
  BY DEF IInv
<1>1. CASE QuitStep
  BY <1>0, <1>1, QuitForms DEF Quits
<1>2. ASSUME NEW m \in Links, NEW p, NEW label, pc[m] = "opening", Open(m, p, label)
      PROVE  host'[n] = host[n]
  <2>1. pc[m + 1] = "none"
    BY <1>0, <1>2 DEF NobodyAhead, NotYetOpen
  <2> QED BY <1>0, <1>2, <2>1 DEF Open, TypeOK
<1>3. CASE DialerOpen \/ \E t \in Tasks : OpenStream(t)
  <2>1. \E m \in Links : \E p, label : pc[m] = "opening" /\ Open(m, p, label)
    BY <1>3, EndPlaces, TaskPlaces DEF DialerOpen, OpenStream
  <2> QED BY <1>2, <2>1
<1>4. CASE ~QuitStep /\ ~DialerOpen /\ \A t \in Tasks : ~OpenStream(t)
  <2>1. host' = host
    BY <1>4, StepCases
       DEF Still, ReadChain, SendDial, AwaitOk, Reply, CopyData, ForwardChain,
           DialerConnect, DialerReadsOk, StartNetcat, ListenerReadsRequest, Show, Type,
           LoseStream
  <2> QED BY <2>1
<1> QED BY <1>1, <1>3, <1>4

\* Tasks run where the path says.
LEMMA HostsFollowPathStep ==
  ASSUME IInv, [Next]_vars
  PROVE  HostsFollowPath'
<1> SUFFICES ASSUME NEW n \in 1..(N + 1), pc'[n] # "none"
             PROVE  host'[n] = PeerIdFromMultiaddr(All[n])
  BY DEF HostsFollowPath
<1>1. n \in Nodes
  BY NType DEF Nodes
<1>2. PcMove(n)
  BY <1>1, PcEffect
<1>3. pc[n] = "none" => host'[n] = PeerIdFromMultiaddr(All[n])
  BY <1>2 DEF PcMove
<1> QED BY <1>1, <1>3, HostStays DEF IInv, HostsFollowPath

\* The types.
LEMMA TypeStep ==
  ASSUME IInv, [Next]_vars
  PROVE  TypeOK'
<1> USE DEF taskVars, others, swarmVars, userVars
<1>0. TypeOK /\ HopsHeld /\ chan \in ChanType
  BY TypedChan DEF IInv
<1>1. CASE UNCHANGED vars
  BY <1>0, <1>1 DEF vars, TypeOK
<1>2. ASSUME NEW n \in Links, ForwardChain(n)
      PROVE  TypeOK'
  <2>1. hops[n] = Rest(n)
    BY <1>0, <1>2, TaskPlaces DEF HopsHeld, ForwardChain, Links, Tasks
  <2>2. Tail(hops[n]) \in Seq(Address)
    BY <2>1, RestType
  <2>3. chan' \in ChanType
    BY <1>0, <1>2, <2>2, AfterType, FrameTypes, Directions DEF ForwardChain
  <2> QED BY <1>0, <1>2, <2>3, EndPlaces DEF ForwardChain, TypeOK, ChanType, Goto, DialerPC
<1>3. ASSUME NEW t \in Tasks, TaskStep(t)
      PROVE  TypeOK'
  BY <1>0, <1>2, <1>3, TypeSetUp, TypeCopy, TaskPlaces DEF TaskStep
<1>4. CASE DialerStep \/ ListenerStep
  BY <1>0, <1>4, TypeEnds
<1> QED BY <1>0, <1>1, <1>3, <1>4, TypeSwarm, TypeSession, TypeFault DEF Next

-----------------------------------------------------------------------------
(* The theorems.                                                           *)

\* The inductive invariant holds at first.
LEMMA InitInv == Init => IInv
<1> SUFFICES ASSUME Init PROVE IInv
  OBVIOUS
<1>1. TypeOK
  BY TypeInit
<1>2. /\ \A n \in Nodes : pc[n] = IF n = 0 THEN "connecting" ELSE "none"
      /\ \A l \in Links : chan[l]["f"] = << >> /\ chan[l]["b"] = << >>
      /\ \A n \in Links : hops[n] = IF n = 0 THEN All ELSE << >>
      /\ verdict = "none"
  BY Directions DEF Init
<1>3. HopsHeld
  <2>1. \A t \in Tasks : t # 0 /\ pc[t] = "none" /\ hops[t] = << >>
    BY <1>2, TaskPlaces DEF Tasks
  <2>2. hops[0] = Rest(0)
    BY <1>2, RestZero, EndPlaces
  <2> QED BY <2>1, <2>2, EndPlaces DEF HopsHeld
<1>4. NobodyAhead
  BY <1>2, EndPlaces DEF NobodyAhead, NotYetOpen
<1>5. ChainAlone
  BY <1>2, HoldsEmpty DEF ChainAlone
<1>6. OkBacked
  BY <1>2, HoldsEmpty, TaskPlaces, EndPlaces DEF OkBacked
<1>7. HostsFollowPath
  BY <1>2, NType DEF HostsFollowPath, Nodes
<1> QED BY <1>1, <1>3, <1>4, <1>5, <1>6, <1>7 DEF IInv

\* Every behaviour keeps the inductive invariant, whatever the constants.
THEOREM InductiveInvariant == Spec => []IInv
<1>1. IInv /\ [Next]_vars => IInv'
  <2> SUFFICES ASSUME IInv, [Next]_vars PROVE IInv'
    OBVIOUS
  <2> QED BY TypeStep, HopsHeldStep, NobodyAheadStep, ChainAloneStep, OkBackedStep,
             HostsFollowPathStep DEF IInv
<1> QED BY <1>1, InitInv, PTL DEF Spec

\* The variables keep their types, for every path, allowlist and bound.
THEOREM TypeCorrect == Spec => []TypeOK
<1>1. IInv => TypeOK
  BY DEF IInv
<1> QED BY <1>1, InductiveInvariant, PTL

(***************************************************************************)
(* A dialer that reads Ok has a task copying, or one that was, on every    *)
(* relay it named, in the order it named them, and the last of them opened *)
(* its stream to the peer the target names: for chains of any length, with *)
(* any losses, crashes and exits.                                          *)
(***************************************************************************)
THEOREM OkIsBridged == Spec => []OkMeansBridged
<1>1. IInv => OkMeansBridged
  <2> SUFFICES ASSUME IInv, verdict = "ok"
               PROVE  /\ \A t \in Tasks : Up(t) /\ host[t] = PeerIdFromMultiaddr(JumpAddrs[t])
                      /\ host[N + 1] = PeerIdFromMultiaddr(TargetAddr)
    BY DEF OkMeansBridged
  <2>1. NobodyAhead /\ OkBacked /\ HostsFollowPath
    BY DEF IInv
  <2>2. \A t \in Tasks : Up(t)
    BY <2>1 DEF OkBacked, Beyond, Tasks
  <2>3. pc[N] \in {"bridging", "closed"}
    BY <2>2, EndPlaces DEF Up
  <2>4. pc[N + 1] # "none"
    BY <2>1, <2>3, EndPlaces DEF NobodyAhead, NotYetOpen
  <2>5. host[N + 1] = PeerIdFromMultiaddr(TargetAddr)
    BY <2>1, <2>4, AllType, NType DEF HostsFollowPath
  <2>6. ASSUME NEW t \in Tasks
        PROVE  host[t] = PeerIdFromMultiaddr(JumpAddrs[t])
    <3>1. pc[t] # "none" /\ t \in 1..(N + 1) /\ All[t] = JumpAddrs[t]
      BY <2>2, AllType, NType DEF Up, Tasks
    <3> QED BY <2>1, <3>1 DEF HostsFollowPath
  <2> QED BY <2>2, <2>5, <2>6
<1> QED BY <1>1, InductiveInvariant, PTL

(***************************************************************************)
(* Each hop takes exactly itself off the path, and only the last one opens *)
(* the tunnel stream: for chains of any length.                            *)
(***************************************************************************)
THEOREM PathFollowed == Spec => []ChainShrinks
<1>1. IInv => ChainShrinks
  <2> SUFFICES ASSUME IInv PROVE ChainShrinks
    OBVIOUS
  <2>1. HopsHeld /\ ChainAlone
    BY DEF IInv
  <2>2. \A n \in Links : hops[n] \in {<< >>, Rest(n)}
    BY <2>1 DEF HopsHeld, Links, Tasks
  <2>3. ASSUME NEW l \in Links, NEW i \in 1..Len(chan[l]["f"]), chan[l]["f"][i].type = "chain"
        PROVE  l < N /\ chan[l]["f"][i].hops = Rest(l + 1)
    <3>1. Holds(chan[l]["f"], "chain")
      BY <2>3 DEF Holds
    <3>2. /\ l < N /\ Len(chan[l]["f"]) = 1
          /\ Head(chan[l]["f"]).hops = Rest(l + 1)
      BY <2>1, <3>1 DEF ChainAlone
    <3>3. i = 1
      BY <3>2
    <3> QED BY <3>2, <3>3
  <2>4. ASSUME NEW t \in Tasks, LastHop(t)
        PROVE  t = N
    <3>1. Len(hops[t]) = 1 /\ t \in Links /\ t \in Int /\ N \in Int
      BY <2>4, TaskPlaces, EndPlaces DEF LastHop
    <3>2. hops[t] = Rest(t)
      BY <2>2, <3>1
    <3>3. 1 = N + 1 - t
      BY <3>1, <3>2, RestType
    <3> QED BY <3>1, <3>3
  <2> QED BY <2>2, <2>3, <2>4 DEF ChainShrinks
<1> QED BY <1>1, InductiveInvariant, PTL
=============================================================================
