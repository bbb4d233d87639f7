------------------------ MODULE ReverseForwardProofs ------------------------
(***************************************************************************)
(* ReverseForward, for any runs, identities, ports, targets and clients:   *)
(* IInv is inductive, and gives the safety properties that its run checks. *)
(***************************************************************************)
EXTENDS ReverseForwardInv, FiniteSetTheorems, TLAPS

-----------------------------------------------------------------------------
(* Queues.                                                                 *)

\* Append puts its element behind the others.
LEMMA AppendFacts ==
  ASSUME NEW S, NEW s \in Seq(S), NEW x \in S
  PROVE  /\ Append(s, x) \in Seq(S) /\ Len(Append(s, x)) = Len(s) + 1
         /\ Len(s) \in Nat
         /\ \A i \in 1..Len(s) : Append(s, x)[i] = s[i]
         /\ Append(s, x)[Len(s) + 1] = x
OBVIOUS

\* Head and Tail part a queue after its first element.
LEMMA TailFacts ==
  ASSUME NEW S, NEW s \in Seq(S), s # << >>
  PROVE  /\ Head(s) \in S /\ Head(s) = s[1]
         /\ Tail(s) \in Seq(S) /\ Len(Tail(s)) = Len(s) - 1
         /\ Len(s) \in Nat \ {0}
         /\ \A i \in 1..Len(Tail(s)) : Tail(s)[i] = s[i + 1]
OBVIOUS

\* The empty queue.
LEMMA EmptyFacts == ASSUME NEW S PROVE << >> \in Seq(S) /\ Len(<< >>) = 0
OBVIOUS

-----------------------------------------------------------------------------
(* Types.                                                                  *)

\* The actions of a run and its handler keep the types.
LEMMA RunTypes ==
  ASSUME TypeOK, NEW r \in Run,
         \/ StartDialer(r) \/ DialerStops(r) \/ RunStep(r) \/ HandlerStep(r)
  PROVE  TypeOK'
<1> USE LimitsAssumption
<1>1. ASSUME StartDialer(r) PROVE TypeOK'
  BY <1>1 DEF TypeOK, StartDialer, streamVars, clientVars
<1>5. ASSUME DialerAsks(r) PROVE TypeOK'
  BY <1>5 DEF TypeOK, DialerAsks, streamVars, clientVars
<1>6. ASSUME DialerReadsOk(r) PROVE TypeOK'
  BY <1>6 DEF TypeOK, DialerReadsOk, streamVars, clientVars
<1>2. ASSUME Quit(r) PROVE TypeOK'
  BY <1>2, EmptyFacts DEF TypeOK, Quit, clientVars
<1>3. ASSUME TakeIncoming(r) PROVE TypeOK'
  <2>1. Head(queue[r]) \in Client /\ Tail(queue[r]) \in Seq(Client)
        /\ Len(Tail(queue[r])) <= QueueCap
    BY <1>3, TailFacts DEF TypeOK, TakeIncoming
  <2> QED BY <1>3, <2>1 DEF TypeOK, TakeIncoming, runVars, clientVars
<1>4. ASSUME ReadRequest(r) PROVE TypeOK'
  BY <1>4 DEF TypeOK, ReadRequest, runVars, clientVars
<1>10. ASSUME ReadFails(r) PROVE TypeOK'
  BY <1>10 DEF TypeOK, ReadFails, runVars, clientVars
<1>7. CASE RunStep(r)
  BY ONLY <1>2, <1>5, <1>6, <1>7 DEF RunStep, DialerGivesUp, DialerFails
<1>8. CASE HandlerStep(r)
  BY ONLY <1>3, <1>4, <1>10, <1>8 DEF HandlerStep
<1>9. CASE DialerStops(r)
  BY ONLY <1>2, <1>9 DEF DialerStops
<1> QED
  BY <1>1, <1>7, <1>8, <1>9

\* The actions of the listener's task for a request keep the types.
LEMMA RequestTypes ==
  ASSUME TypeOK, NEW r \in Run, RequestStep(r)
  PROVE  TypeOK'
<1>1. ASSUME ListenerBinds(r) PROVE TypeOK'
  BY <1>1 DEF TypeOK, ListenerBinds, streamVars, clientVars
<1>2. ASSUME BindFails(r) PROVE TypeOK'
  BY <1>2 DEF TypeOK, BindFails, streamVars, clientVars
<1>3. ASSUME NEW a \in {"ok", "failed", "gone"}, Answer(r, a),
             ask' = [ask EXCEPT ![r] = "done"],
             UNCHANGED <<up, proc, linked, owner, streamVars, clientVars, faults>>
      PROVE  TypeOK'
  BY <1>3 DEF TypeOK, Answer, streamVars, clientVars
<1> QED
  BY <1>1, <1>2, <1>3 DEF RequestStep, ListenerRefuses, RequestLost, ListenerAcks

\* The actions on one client's bridge keep the types.
LEMMA ClientTypes ==
  ASSUME TypeOK, TargetTravels, NEW c \in Client,
         \/ NearStep(c) \/ FarStep(c) \/ (\E p \in Ports : ClientConnects(c, p))
         \/ BothEnd(c) \/ ClientLeaves(c) \/ TargetLeaves(c)
         \/ ConnectTarget(c) \/ ConnectFails(c) \/ ClientResets(c) \/ TargetResets(c)
  PROVE  TypeOK'
<1> USE LimitsAssumption
<1>1. ASSUME NEW r \in Run, OpenBack(c, r) PROVE TypeOK'
  <2>1. CASE Len(queue[r]) < QueueCap
    <3>1. /\ Append(queue[r], c) \in Seq(Client)
          /\ Len(Append(queue[r], c)) <= QueueCap
      BY <2>1, AppendFacts DEF TypeOK
    <3>2. queue' = [queue EXCEPT ![r] = Append(queue[r], c)]
      BY <1>1, <2>1 DEF TypeOK, OpenBack
    <3>3. queue' \in [Run -> Seq(Client)] /\ \A x \in Run : Len(queue'[x]) <= QueueCap
      BY <3>1, <3>2 DEF TypeOK
    <3>4. far' = [far EXCEPT ![c] = "queued"]
      BY <1>1, <2>1 DEF TypeOK, OpenBack
    <3> HIDE LimitsAssumption
    <3> QED BY <1>1, <3>3, <3>4 DEF TypeOK, OpenBack, Tcp
  <2>2. CASE ~(Len(queue[r]) < QueueCap)
    BY <1>1, <2>2 DEF TypeOK, OpenBack, Tcp
  <2> QED BY <2>1, <2>2
<1>2. ASSUME NEW s \in {"told", "over"}, Tcp(c, s),
             UNCHANGED <<up, runVars, streamVars, via, finished, faults>>
      PROVE  TypeOK'
  BY <1>2 DEF TypeOK, Tcp, runVars, streamVars
<1>3. ASSUME NEW s \in {"told", "over"}, far' = [far EXCEPT ![c] = s],
             UNCHANGED <<up, runVars, at, asked, reached, cut, queue, handling,
                         clientVars, faults>>
      PROVE  TypeOK'
  BY <1>3 DEF TypeOK, runVars, clientVars
<1>4. ASSUME WriteRequest(c) PROVE TypeOK'
  <2>1. Target[via[c]] \in Targets
    BY <1>4, RunsAssumption DEF WriteRequest, TargetTravels
  <2> QED BY <1>4, <2>1 DEF TypeOK, WriteRequest, Tcp, runVars
<1>5. ASSUME ConnectTarget(c) PROVE TypeOK'
  BY <1>5 DEF TypeOK, ConnectTarget, runVars, clientVars
<1>6. ASSUME NEW p \in Ports, ClientConnects(c, p) PROVE TypeOK'
  BY <1>6 DEF TypeOK, ClientConnects, Tcp, runVars, streamVars
<1>7. ASSUME BothEnd(c) PROVE TypeOK'
  BY <1>7 DEF TypeOK, BothEnd, runVars, streamVars
<1> QED
  BY <1>1, <1>2, <1>3, <1>4, <1>5, <1>6, <1>7
  DEF NearStep, FarStep, OpenFails, WriteFails, NearEnds, NearHears, NearOver, FarEnds, FarHears,
      FarOver, ConnectFails, ClientLeaves, TargetLeaves, ClientResets, TargetResets

\* Lost connections and the end of the listener keep the types.
LEMMA FaultTypes ==
  ASSUME TypeOK, (\E r \in Run : LoseConnection(r) \/ IdleTimeout(r)) \/ ListenerStops
  PROVE  TypeOK'
<1>1. ASSUME NEW rs \in SUBSET Run, Unlink(rs)
      PROVE  /\ linked' \subseteq Run /\ cut' \subseteq Client
             /\ ack' \in [Run -> {"none", "ok", "failed", "gone"}]
  BY <1>1 DEF TypeOK, Unlink
<1>2. ASSUME NEW r \in Run, LoseConnection(r) PROVE TypeOK'
  BY <1>1, <1>2 DEF TypeOK, LoseConnection, clientVars
<1>3. ASSUME NEW r \in Run, IdleTimeout(r) PROVE TypeOK'
  BY <1>1, <1>3 DEF TypeOK, IdleTimeout, clientVars
<1>4. ASSUME ListenerStops PROVE TypeOK'
  <2>1. Unlink(Run)
    BY <1>4 DEF ListenerStops
  <2> QED BY <1>1, <1>4, <2>1 DEF TypeOK, ListenerStops
<1> QED BY <1>2, <1>3, <1>4

\* Types are preserved by every step.
LEMMA NextTypeOK == TypeOK /\ TargetTravels /\ [Next]_vars => TypeOK'
<1> SUFFICES ASSUME TypeOK, TargetTravels, [Next]_vars PROVE TypeOK'
  OBVIOUS
<1>1. CASE UNCHANGED vars
  BY <1>1 DEF TypeOK, vars, runVars, streamVars, clientVars
<1> QED
  BY <1>1, RunTypes, RequestTypes, ClientTypes, FaultTypes DEF Next, UserStep, FaultStep

-----------------------------------------------------------------------------
(* The bind behind an Ok.                                                  *)

\* Nothing else than runs, request tasks and losses matters to an Ok.
LEMMA BridgeFrame ==
  ASSUME NEW c \in Client,
         \/ \E r \in Run : OpenBack(c, r)
         \/ OpenFails(c) \/ WriteRequest(c) \/ NearOver(c) \/ NearHears(c)
         \/ FarOver(c) \/ FarHears(c) \/ (\E p \in Ports : ClientConnects(c, p))
         \/ BothEnd(c) \/ ConnectTarget(c)
  PROVE  UNCHANGED <<up, proc, ask, ack, owner, handling, cut, faults>>
BY DEF OpenBack, OpenFails, WriteRequest, NearOver, NearHears, FarOver, FarHears, ClientConnects,
       BothEnd, ConnectTarget, runVars, streamVars, clientVars

\* What a client's step is, by the parts of the actions that write.
LEMMA BridgeSteps ==
  ASSUME NEW c \in Client,
         \/ NearStep(c) \/ FarStep(c) \/ (\E p \in Ports : ClientConnects(c, p))
         \/ BothEnd(c) \/ ClientLeaves(c) \/ TargetLeaves(c)
         \/ ConnectTarget(c) \/ ConnectFails(c) \/ ClientResets(c) \/ TargetResets(c)
  PROVE  \/ \E r \in Run : OpenBack(c, r)
         \/ \E p \in Ports : ClientConnects(c, p)
         \/ WriteRequest(c) \/ BothEnd(c) \/ ConnectTarget(c)
         \/ tcp[c] # "off" /\ (OpenFails(c) \/ NearOver(c) \/ NearHears(c))
         \/ far[c] \in {"connecting", "copying", "told"} /\ FarOver(c)
         \/ FarHears(c)
BY DEF NearStep, FarStep, OpenFails, WriteFails, NearEnds, NearHears, FarEnds, FarHears,
       ConnectFails, ClientLeaves, TargetLeaves, ClientResets, TargetResets

\* An Ok stays backed by the bind of its request.
LEMMA NextAcksBacked == TypeOK /\ AcksBacked /\ [Next]_vars => AcksBacked'
<1> SUFFICES ASSUME TypeOK, AcksBacked, [Next]_vars PROVE AcksBacked'
  OBVIOUS
<1>a. /\ up \in BOOLEAN /\ proc \in [Run -> {"off", "ready", "asking", "serving", "other", "done"}]
      /\ ask \in [Run -> {"none", "asked", "bound", "unbound", "done"}]
      /\ ack \in [Run -> {"none", "ok", "failed", "gone"}]
      /\ owner \in [Ports -> Run \cup {Nobody}]
  BY DEF TypeOK
<1>1. ASSUME NEW r \in Run, StartDialer(r) \/ DialerAsks(r) \/ DialerReadsOk(r) \/ Quit(r)
      PROVE  AcksBacked'
  BY <1>1, <1>a DEF AcksBacked, StartDialer, DialerAsks, DialerReadsOk, Quit
<1>2. ASSUME NEW r \in Run, HandlerStep(r) PROVE AcksBacked'
  BY <1>2 DEF AcksBacked, HandlerStep, TakeIncoming, ReadRequest, ReadFails, runVars
<1>3. ASSUME NEW r \in Run, ListenerBinds(r) PROVE AcksBacked'
  BY <1>3, <1>a, RunsAssumption DEF AcksBacked, ListenerBinds
<1>4. ASSUME NEW r \in Run, BindFails(r) PROVE AcksBacked'
  BY <1>4, <1>a DEF AcksBacked, BindFails
<1>5. ASSUME NEW r \in Run, NEW a \in {"ok", "failed", "gone"}, Answer(r, a),
             a = "ok" => ask[r] = "bound",
             ask' = [ask EXCEPT ![r] = "done"],
             UNCHANGED <<up, proc, linked, owner, streamVars, clientVars, faults>>
      PROVE  AcksBacked'
  BY <1>5, <1>a DEF AcksBacked, Answer
<1>6. ASSUME NEW r \in Run, RequestStep(r) PROVE AcksBacked'
  BY <1>3, <1>4, <1>5, <1>6 DEF RequestStep, ListenerRefuses, RequestLost, ListenerAcks
<1>7. ASSUME NEW c \in Client,
             UNCHANGED <<up, proc, ask, ack, owner, handling, cut, faults>>
      PROVE  AcksBacked'
  BY <1>7 DEF AcksBacked
<1>8. ASSUME NEW rs \in SUBSET Run, Unlink(rs), UNCHANGED proc,
             \/ UNCHANGED <<up, ask, owner>>
             \/ up' = FALSE /\ \A r \in Run : ask'[r] # "bound"
      PROVE  AcksBacked'
  <2>1. ack' \in [Run -> {"none", "ok", "failed", "gone"}]
    BY <1>8, <1>a DEF Unlink
  <2>2. \A r \in Run : ack'[r] = "ok" => ack[r] = "ok"
    BY <1>8, <1>a DEF Unlink
  <2>3. \A r \in Run : proc[r] = "serving" => ack'[r] = ack[r]
    BY <1>8, <1>a DEF Unlink
  <2> QED BY <1>8, <1>a, <2>1, <2>2, <2>3 DEF AcksBacked
<1>9. ASSUME NEW r \in Run, LoseConnection(r) \/ IdleTimeout(r) PROVE AcksBacked'
  BY <1>8, <1>9 DEF LoseConnection, IdleTimeout
<1>10. CASE ListenerStops
  BY <1>8, <1>10, <1>a DEF ListenerStops
<1>11. CASE UNCHANGED vars
  BY <1>11 DEF AcksBacked, vars, runVars
<1> QED
  BY <1>1, <1>2, <1>6, <1>7, <1>9, <1>10, <1>11, BridgeSteps, BridgeFrame
  DEF Next, RunStep, UserStep, FaultStep, DialerGivesUp, DialerFails, DialerStops

-----------------------------------------------------------------------------
(* The target of a client.                                                 *)

\* The types that the streams' part of the invariant needs.
LEMMA StreamTypes ==
  ASSUME TypeOK
  PROVE  /\ tcp \in [Client -> {"off", "opening", "writing", "copying", "told", "over"}]
         /\ far \in [Client -> {"none", "queued", "reading", "connecting", "copying",
                                "told", "over"}]
         /\ via \in [Client -> Run \cup {Nobody}] /\ at \in [Client -> Run \cup {Nobody}]
         /\ asked \in [Client -> Targets \cup {Nobody}]
         /\ reached \in [Client -> Targets \cup {Nobody}]
         /\ queue \in [Run -> Seq(Client)]
         /\ handling \in [Run -> Client \cup {Nobody}]
         /\ proc \in [Run -> {"off", "ready", "asking", "serving", "other", "done"}]
         /\ owner \in [Ports -> Run \cup {Nobody}]
BY DEF TypeOK

\* A target reaches the run as the bind named it.
LEMMA NextTargetTravels ==
  TypeOK /\ TargetTravels /\ QueuesHold /\ HandlersHold /\ [Next]_vars => TargetTravels'
<1> SUFFICES ASSUME TypeOK, TargetTravels, QueuesHold, HandlersHold, [Next]_vars
             PROVE  TargetTravels'
  OBVIOUS
<1>a. Nobody \notin Run \cup Client \cup Targets /\ Target \in [Run -> Targets]
  BY RunsAssumption
<1>1. ASSUME NEW r \in Run, StartDialer(r) \/ DialerAsks(r) \/ DialerReadsOk(r)
      PROVE  TargetTravels'
  BY <1>1 DEF TargetTravels, StartDialer, DialerAsks, DialerReadsOk, streamVars, clientVars
<1>2. ASSUME NEW r \in Run, Quit(r) PROVE TargetTravels'
  BY <1>2, StreamTypes DEF TargetTravels, Quit, Live, clientVars
<1>3. ASSUME NEW r \in Run, TakeIncoming(r) PROVE TargetTravels'
  <2>1. Head(queue[r]) \in Client /\ far[Head(queue[r])] = "queued"
    BY <1>3, StreamTypes, TailFacts DEF TakeIncoming, QueuesHold
  <2> QED BY <1>3, <2>1, StreamTypes DEF TargetTravels, TakeIncoming, clientVars
<1>4. ASSUME NEW r \in Run, ReadRequest(r) \/ ReadFails(r) PROVE TargetTravels'
  <2>1. handling[r] \in Client /\ far[handling[r]] = "reading"
    BY <1>4, StreamTypes DEF ReadRequest, ReadFails, HandlersHold
  <2> QED BY <1>4, <2>1, StreamTypes DEF TargetTravels, ReadRequest, ReadFails, clientVars
<1>5. ASSUME NEW r \in Run, RequestStep(r) PROVE TargetTravels'
  BY <1>5 DEF TargetTravels, RequestStep, ListenerRefuses, RequestLost, ListenerBinds, BindFails,
              ListenerAcks, streamVars, clientVars
<1>6. ASSUME NEW c \in Client, NEW r \in Run, OpenBack(c, r) PROVE TargetTravels'
  BY <1>6, StreamTypes DEF TargetTravels, OpenBack, Tcp
<1>7. ASSUME NEW c \in Client, NEW p \in Ports, ClientConnects(c, p) PROVE TargetTravels'
  BY <1>7, StreamTypes DEF TargetTravels, ClientConnects, Tcp, streamVars
<1>8. ASSUME NEW c \in Client, WriteRequest(c) PROVE TargetTravels'
  BY <1>8, <1>a, StreamTypes DEF TargetTravels, WriteRequest, Tcp
<1>9. ASSUME NEW c \in Client, BothEnd(c) PROVE TargetTravels'
  BY <1>9 DEF TargetTravels, BothEnd, streamVars
<1>10. ASSUME NEW c \in Client, ConnectTarget(c) PROVE TargetTravels'
  BY <1>10, StreamTypes DEF TargetTravels, ConnectTarget, clientVars
<1>11. ASSUME NEW c \in Client, tcp[c] # "off", OpenFails(c) \/ NearOver(c) \/ NearHears(c)
       PROVE  TargetTravels'
  BY <1>11, StreamTypes DEF TargetTravels, OpenFails, NearOver, NearHears, Tcp, streamVars
<1>12. ASSUME NEW c \in Client, far[c] \in {"connecting", "copying", "told"}, FarOver(c)
       PROVE  TargetTravels'
  BY <1>12, StreamTypes DEF TargetTravels, FarOver, clientVars
<1>13. ASSUME NEW c \in Client, FarHears(c) PROVE TargetTravels'
  BY <1>12, <1>13, StreamTypes DEF TargetTravels, FarHears, clientVars
<1>14. ASSUME NEW r \in Run, LoseConnection(r) \/ IdleTimeout(r) PROVE TargetTravels'
  BY <1>14 DEF TargetTravels, LoseConnection, IdleTimeout, clientVars
<1>15. CASE ListenerStops
  BY <1>15, StreamTypes DEF TargetTravels, ListenerStops, Near
<1>16. CASE UNCHANGED vars
  BY <1>16 DEF TargetTravels, vars, streamVars, clientVars
<1> QED
  BY <1>1, <1>2, <1>3, <1>4, <1>5, <1>6, <1>7, <1>8, <1>9, <1>10, <1>11, <1>12, <1>13, <1>14,
     <1>15, <1>16, BridgeSteps
  DEF Next, RunStep, HandlerStep, UserStep, FaultStep, DialerGivesUp, DialerFails, DialerStops

-----------------------------------------------------------------------------
(* Where the streams are.                                                  *)

(***************************************************************************)
(* Steps that leave queues and handlers alone, and move a stream, if any,  *)
(* that is in neither of them to a place that is neither.                  *)
(***************************************************************************)
Elsewhere == {"none", "connecting", "copying", "told", "over"}

Outside(c) ==
  /\ UNCHANGED <<queue, handling, at>>
  /\ far[c] \in Elsewhere
  /\ \E s \in Elsewhere : far' = [far EXCEPT ![c] = s]

\* Steps outside of queues and handlers keep what those hold.
LEMMA OutsideHolds ==
  ASSUME TypeOK, QueuesHold, HandlersHold,
         \/ UNCHANGED <<queue, handling, at, far>>
         \/ \E c \in Client : Outside(c)
  PROVE  QueuesHold' /\ HandlersHold'
<1>1. CASE UNCHANGED <<queue, handling, at, far>>
  BY <1>1 DEF QueuesHold, HandlersHold
<1>2. ASSUME NEW c \in Client, Outside(c) PROVE QueuesHold' /\ HandlersHold'
  <2>1. PICK s \in Elsewhere : far' = [far EXCEPT ![c] = s]
    BY <1>2 DEF Outside
  <2>2. \A x \in Client : /\ far'[x] = "queued" <=> far[x] = "queued"
                          /\ far'[x] = "reading" <=> far[x] = "reading"
    BY <1>2, <2>1, StreamTypes DEF Outside, Elsewhere
  <2>3. \A r \in Run : /\ \A i \in 1..Len(queue[r]) : queue[r][i] \in Client
                       /\ handling[r] # Nobody => handling[r] \in Client
    BY StreamTypes
  <2>4. QueuesHold'
    BY <1>2, <2>2, <2>3 DEF Outside, QueuesHold
  <2>5. HandlersHold'
    BY <1>2, <2>2, <2>3 DEF Outside, HandlersHold
  <2> QED BY <2>4, <2>5
<1> QED BY <1>1, <1>2

\* A run that ends lets go of its queue and of what its handler reads.
LEMMA QuitHolds ==
  ASSUME TypeOK, TargetTravels, QueuesHold, HandlersHold, NEW r \in Run, Quit(r)
  PROVE  QueuesHold' /\ HandlersHold'
<1>1. /\ queue' = [queue EXCEPT ![r] = << >>] /\ at' = at
      /\ handling' = [handling EXCEPT ![r] = Nobody]
      /\ \A c \in Client : far'[c] = IF at[c] = r /\ Live(c) THEN "over" ELSE far[c]
  BY DEF Quit
<1>2. \A x \in Run : /\ \A i \in 1..Len(queue[x]) : queue[x][i] \in Client
                     /\ handling[x] # Nobody => handling[x] \in Client
  BY StreamTypes
<1>3. \A c \in Client : far'[c] \in {"queued", "reading"} => far'[c] = far[c] /\ at[c] # r
  BY <1>1 DEF Live
<1>4. ASSUME NEW x \in Run, NEW i \in 1..Len(queue'[x])
      PROVE  /\ x # r /\ queue'[x] = queue[x]
             /\ at'[queue'[x][i]] = x /\ far'[queue'[x][i]] = "queued"
  <2>1. x # r /\ queue'[x] = queue[x]
    BY <1>1, <1>4, EmptyFacts, StreamTypes
  <2> QED BY <1>1, <1>2, <2>1 DEF QueuesHold
<1>5. QueuesHold'
  <2>1. ASSUME NEW c \in Client, far'[c] = "queued"
        PROVE  \E i \in 1..Len(queue'[at'[c]]) : queue'[at'[c]][i] = c
    <3>1. at[c] \in Run \ {r} /\ far[c] = "queued"
      BY <1>3, <2>1 DEF TargetTravels
    <3> QED BY <1>1, <3>1, StreamTypes DEF QueuesHold
  <2> QED BY <1>4, <2>1 DEF QueuesHold
<1>6. HandlersHold'
  <2>1. ASSUME NEW c \in Client, far'[c] = "reading" PROVE handling'[at'[c]] = c
    <3>1. at[c] \in Run \ {r} /\ far[c] = "reading"
      BY <1>3, <2>1 DEF TargetTravels
    <3> QED BY <1>1, <3>1, StreamTypes DEF HandlersHold
  <2>2. ASSUME NEW x \in Run, handling'[x] # Nobody
        PROVE  at'[handling'[x]] = x /\ far'[handling'[x]] = "reading"
    BY <1>1, <1>2, <2>2, StreamTypes DEF HandlersHold
  <2> QED BY <2>1, <2>2 DEF HandlersHold
<1> QED BY <1>5, <1>6

\* The handler takes the first stream of its queue.
LEMMA TakeHolds ==
  ASSUME TypeOK, TargetTravels, QueuesHold, HandlersHold, NEW r \in Run, TakeIncoming(r)
  PROVE  QueuesHold' /\ HandlersHold'
<1> DEFINE q == queue[r]  h == Head(q)  t == Tail(q)
<1>1. /\ handling[r] = Nobody /\ q # << >> /\ at' = at
      /\ handling' = [handling EXCEPT ![r] = h]
      /\ queue' = [queue EXCEPT ![r] = t] /\ far' = [far EXCEPT ![h] = "reading"]
  BY DEF TakeIncoming
<1>2. /\ h \in Client /\ h = q[1] /\ Len(t) = Len(q) - 1 /\ Len(q) \in Nat \ {0}
      /\ \A i \in 1..Len(t) : t[i] = q[i + 1]
  BY <1>1, StreamTypes, TailFacts
<1>3. at[h] = r /\ far[h] = "queued"
  BY <1>2 DEF QueuesHold
<1>4. \A x \in Run : /\ \A i \in 1..Len(queue[x]) : queue[x][i] \in Client
                     /\ handling[x] # Nobody => handling[x] \in Client
  BY StreamTypes
<1>5. queue'[r] = t /\ \A x \in Run \ {r} : queue'[x] = queue[x]
  BY <1>1, StreamTypes
<1>6. far'[h] = "reading" /\ \A c \in Client \ {h} : far'[c] = far[c]
  BY <1>1, <1>2, StreamTypes
<1>7. ASSUME NEW i \in 1..Len(t)
      PROVE  /\ at'[t[i]] = r /\ far'[t[i]] = "queued"
             /\ \A j \in 1..Len(t) : t[i] = t[j] => i = j
  <2>1. i + 1 \in 1..Len(q) /\ t[i] = q[i + 1] /\ 1 \in 1..Len(q)
    BY <1>2
  <2>2. q[i + 1] \in Client \ {h}
    BY <1>2, <1>4, <2>1 DEF QueuesHold
  <2>3. \A j \in 1..Len(t) : j + 1 \in 1..Len(q) /\ t[j] = q[j + 1]
    BY <1>2
  <2>4. \A j \in 1..Len(t) : q[i + 1] = q[j + 1] => i + 1 = j + 1
    BY <2>1, <2>3 DEF QueuesHold
  <2>5. at[q[i + 1]] = r /\ far[q[i + 1]] = "queued"
    BY <2>1 DEF QueuesHold
  <2> QED BY <1>1, <1>6, <2>1, <2>2, <2>3, <2>4, <2>5
<1>8. ASSUME NEW x \in Run, x # r, NEW i \in 1..Len(queue[x])
      PROVE  /\ at'[queue[x][i]] = x /\ far'[queue[x][i]] = "queued"
             /\ \A j \in 1..Len(queue[x]) : queue[x][i] = queue[x][j] => i = j
  BY <1>1, <1>3, <1>4, <1>6, <1>8 DEF QueuesHold
<1>9. ASSUME NEW c \in Client, far'[c] = "queued"
      PROVE  \E i \in 1..Len(queue'[at'[c]]) : queue'[at'[c]][i] = c
  <2>1. c # h /\ far[c] = "queued" /\ at[c] \in Run
    BY <1>6, <1>9 DEF TargetTravels
  <2>2. PICK i \in 1..Len(queue[at[c]]) : queue[at[c]][i] = c
    BY <2>1 DEF QueuesHold
  <2>3. CASE at[c] = r
    <3>1. i # 1
      BY <1>2, <2>1, <2>2, <2>3
    <3>2. i - 1 \in 1..Len(t) /\ t[i - 1] = q[(i - 1) + 1]
      BY <1>2, <2>2, <2>3, <3>1
    <3>3. t[i - 1] = c
      BY <2>2, <2>3, <3>2
    <3> QED BY <1>1, <1>5, <2>3, <3>2, <3>3
  <2>4. CASE at[c] # r
    BY <1>1, <1>5, <2>1, <2>2, <2>4
  <2> QED BY <2>3, <2>4
<1>10. QueuesHold'
  <2> HIDE DEF t
  <2>1. ASSUME NEW x \in Run, NEW i \in 1..Len(queue'[x])
        PROVE  /\ at'[queue'[x][i]] = x /\ far'[queue'[x][i]] = "queued"
               /\ \A j \in 1..Len(queue'[x]) : queue'[x][i] = queue'[x][j] => i = j
    <3>1. CASE x = r
      BY <1>5, <1>7, <3>1
    <3>2. CASE x # r
      BY <1>5, <1>8, <3>2
    <3> QED BY <3>1, <3>2
  <2> QED BY <1>9, <2>1 DEF QueuesHold
<1>11. HandlersHold'
  BY <1>1, <1>2, <1>3, <1>4, <1>6, StreamTypes, RunsAssumption DEF HandlersHold, TargetTravels
<1> QED BY <1>10, <1>11

\* The handler passes on, or drops, the stream whose request it was reading.
LEMMA ReadHolds ==
  ASSUME TypeOK, TargetTravels, QueuesHold, HandlersHold, NEW r \in Run,
         ReadRequest(r) \/ ReadFails(r)
  PROVE  QueuesHold' /\ HandlersHold'
<1> DEFINE h == handling[r]
<1>1. /\ h # Nobody /\ UNCHANGED <<queue, at>>
      /\ handling' = [handling EXCEPT ![r] = Nobody]
      /\ \E s \in {"connecting", "over"} : far' = [far EXCEPT ![h] = s]
  BY DEF ReadRequest, ReadFails
<1>2. h \in Client /\ at[h] = r /\ far[h] = "reading"
  BY <1>1, StreamTypes DEF HandlersHold
<1>3. far'[h] \in {"connecting", "over"} /\ \A c \in Client \ {h} : far'[c] = far[c]
  BY <1>1, <1>2, StreamTypes
<1>4. \A x \in Run : /\ \A i \in 1..Len(queue[x]) : queue[x][i] \in Client
                     /\ handling[x] # Nobody => handling[x] \in Client
  BY StreamTypes
<1>5. QueuesHold'
  BY <1>1, <1>2, <1>3, <1>4 DEF QueuesHold
<1>6. HandlersHold'
  BY <1>1, <1>2, <1>3, <1>4, StreamTypes DEF HandlersHold, TargetTravels
<1> QED BY <1>5, <1>6

\* A stream opened back is queued behind the others, or dropped.
LEMMA OpenHolds ==
  ASSUME TypeOK, TargetTravels, QueuesHold, HandlersHold, NEW c \in Client, NEW r \in Run,
         OpenBack(c, r)
  PROVE  QueuesHold' /\ HandlersHold'
<1> DEFINE q == queue[r]
<1>1. /\ far[c] = "none" /\ UNCHANGED handling /\ at' = [at EXCEPT ![c] = r]
      /\ \/ /\ queue' = [queue EXCEPT ![r] = Append(q, c)]
            /\ far' = [far EXCEPT ![c] = "queued"]
         \/ UNCHANGED queue /\ far' = [far EXCEPT ![c] = "over"]
  BY DEF OpenBack, TargetTravels
<1>2. \A x \in Run : /\ \A i \in 1..Len(queue[x]) : queue[x][i] \in Client \ {c}
                     /\ handling[x] # Nobody => handling[x] \in Client \ {c}
  BY <1>1, StreamTypes DEF QueuesHold, HandlersHold
<1>3. /\ at'[c] = r /\ far'[c] \in {"queued", "over"}
      /\ \A x \in Client \ {c} : at'[x] = at[x] /\ far'[x] = far[x]
  BY <1>1, StreamTypes
<1>4. HandlersHold'
  BY <1>1, <1>2, <1>3 DEF HandlersHold
<1>5. CASE UNCHANGED queue /\ far' = [far EXCEPT ![c] = "over"]
  <2>1. far'[c] = "over"
    BY <1>5, StreamTypes
  <2> QED BY <1>2, <1>3, <1>4, <1>5, <2>1 DEF QueuesHold
<1>6. CASE queue' = [queue EXCEPT ![r] = Append(q, c)] /\ far' = [far EXCEPT ![c] = "queued"]
  <2>1. /\ Len(Append(q, c)) = Len(q) + 1 /\ Len(q) \in Nat
        /\ \A i \in 1..Len(q) : Append(q, c)[i] = q[i]
        /\ Append(q, c)[Len(q) + 1] = c
    BY StreamTypes, AppendFacts
  <2>2. /\ queue'[r] = Append(q, c) /\ far'[c] = "queued"
        /\ \A x \in Run \ {r} : queue'[x] = queue[x]
    BY <1>6, StreamTypes
  <2>3. ASSUME NEW i \in 1..Len(q) + 1
        PROVE  /\ at'[Append(q, c)[i]] = r /\ far'[Append(q, c)[i]] = "queued"
               /\ \A j \in 1..Len(q) + 1 : Append(q, c)[i] = Append(q, c)[j] => i = j
    <3>1. CASE i = Len(q) + 1
      <4>1. ASSUME NEW j \in 1..Len(q) + 1, j # Len(q) + 1 PROVE Append(q, c)[j] # c
        <5>1. j \in 1..Len(q)
          BY <2>1, <4>1
        <5> QED BY <1>2, <2>1, <5>1
      <4> QED BY <1>3, <2>1, <2>2, <3>1, <4>1
    <3>2. CASE i # Len(q) + 1
      <4>1. i \in 1..Len(q) /\ Append(q, c)[i] = q[i]
        BY <2>1, <3>2
      <4>2. at'[q[i]] = r /\ far'[q[i]] = "queued" /\ q[i] # c
        BY <1>2, <1>3, <4>1 DEF QueuesHold
      <4>3. ASSUME NEW j \in 1..Len(q) + 1, q[i] = Append(q, c)[j] PROVE i = j
        <5>1. j \in 1..Len(q)
          BY <2>1, <4>2, <4>3
        <5> QED BY <2>1, <4>1, <4>3, <5>1 DEF QueuesHold
      <4> QED BY <4>1, <4>2, <4>3
    <3> QED BY <3>1, <3>2
  <2>4. ASSUME NEW x \in Run, x # r, NEW i \in 1..Len(queue[x])
        PROVE  /\ at'[queue[x][i]] = x /\ far'[queue[x][i]] = "queued"
               /\ \A j \in 1..Len(queue[x]) : queue[x][i] = queue[x][j] => i = j
    BY <1>2, <1>3, <2>4 DEF QueuesHold
  <2>5. ASSUME NEW x \in Client, far'[x] = "queued"
        PROVE  \E i \in 1..Len(queue'[at'[x]]) : queue'[at'[x]][i] = x
    <3>1. CASE x = c
      <4>1. Len(q) + 1 \in 1..Len(queue'[r]) /\ queue'[r][Len(q) + 1] = c
        BY <2>1, <2>2
      <4> QED BY <1>3, <3>1, <4>1
    <3>2. CASE x # c
      <4>1. far[x] = "queued" /\ at'[x] = at[x] /\ at[x] \in Run
        BY <1>3, <2>5, <3>2 DEF TargetTravels
      <4>2. PICK i \in 1..Len(queue[at[x]]) : queue[at[x]][i] = x
        BY <4>1 DEF QueuesHold
      <4>3. i \in 1..Len(queue'[at[x]]) /\ queue'[at[x]][i] = x
        BY <2>1, <2>2, <4>1, <4>2
      <4> QED BY <4>1, <4>3
    <3> QED BY <3>1, <3>2
  <2>6. ASSUME NEW x \in Run, NEW i \in 1..Len(queue'[x])
        PROVE  /\ at'[queue'[x][i]] = x /\ far'[queue'[x][i]] = "queued"
               /\ \A j \in 1..Len(queue'[x]) : queue'[x][i] = queue'[x][j] => i = j
    <3>1. CASE x = r
      BY <2>1, <2>2, <2>3, <3>1
    <3>2. CASE x # r
      BY <2>2, <2>4, <3>2
    <3> QED BY <3>1, <3>2
  <2>7. QueuesHold'
    BY <2>5, <2>6 DEF QueuesHold
  <2> QED BY <1>4, <2>7
<1> QED BY <1>1, <1>5, <1>6

\* The queues and handlers hold what is queued and read, each once.
LEMMA NextHolds ==
  TypeOK /\ TargetTravels /\ QueuesHold /\ HandlersHold /\ [Next]_vars
    => QueuesHold' /\ HandlersHold'
<1> SUFFICES ASSUME TypeOK, TargetTravels, QueuesHold, HandlersHold, [Next]_vars
             PROVE  QueuesHold' /\ HandlersHold'
  OBVIOUS
<1> DEFINE Same == UNCHANGED <<queue, handling, at, far>>
<1>1. ASSUME NEW r \in Run, StartDialer(r) \/ DialerAsks(r) \/ DialerReadsOk(r) \/ RequestStep(r)
      PROVE  Same
  BY <1>1 DEF StartDialer, DialerAsks, DialerReadsOk, RequestStep, ListenerRefuses, RequestLost,
              ListenerBinds, BindFails, ListenerAcks, streamVars
<1>2. ASSUME NEW c \in Client,
             \/ \E p \in Ports : ClientConnects(c, p)
             \/ WriteRequest(c) \/ BothEnd(c) \/ OpenFails(c) \/ NearOver(c) \/ NearHears(c)
      PROVE  Same
  BY <1>2 DEF ClientConnects, WriteRequest, BothEnd, OpenFails, NearOver, NearHears, streamVars
<1>3. ASSUME NEW c \in Client,
             \/ ConnectTarget(c) \/ FarHears(c)
             \/ far[c] \in {"connecting", "copying", "told"} /\ FarOver(c)
      PROVE  Outside(c)
  BY <1>3 DEF ConnectTarget, FarHears, FarOver, Outside, Elsewhere
<1>4. ASSUME \/ \E r \in Run : LoseConnection(r) \/ IdleTimeout(r)
             \/ ListenerStops
             \/ UNCHANGED vars
      PROVE  Same
  BY <1>4 DEF LoseConnection, IdleTimeout, ListenerStops, vars, streamVars
<1>5. ASSUME NEW r \in Run, HandlerStep(r) \/ Quit(r) PROVE QueuesHold' /\ HandlersHold'
  BY <1>5, QuitHolds, TakeHolds, ReadHolds DEF HandlerStep
<1> HIDE DEF Same
<1>6. \/ Same \/ \E c \in Client : Outside(c)
      \/ \E r \in Run : HandlerStep(r) \/ Quit(r)
      \/ \E c \in Client : \E r \in Run : OpenBack(c, r)
  BY <1>1, <1>2, <1>3, <1>4, BridgeSteps
  DEF Next, RunStep, UserStep, FaultStep, DialerGivesUp, DialerFails, DialerStops
<1> USE DEF Same
<1> QED BY <1>5, <1>6, OutsideHolds, OpenHolds

\* Only runs that serve take streams, and they serve until they end.
LEMMA NextTakenByServing ==
  TypeOK /\ TargetTravels /\ QueuesHold /\ HandlersHold /\ TakenByServing /\ [Next]_vars
    => TakenByServing'
<1> SUFFICES ASSUME TypeOK, TargetTravels, QueuesHold, HandlersHold, TakenByServing, [Next]_vars
             PROVE  TakenByServing'
  OBVIOUS
<1>1. ASSUME NEW r \in Run, StartDialer(r) \/ DialerAsks(r) \/ DialerReadsOk(r)
      PROVE  TakenByServing'
  BY <1>1, StreamTypes
  DEF TakenByServing, TargetTravels, StartDialer, DialerAsks, DialerReadsOk, streamVars
<1>2. ASSUME NEW r \in Run, Quit(r) PROVE TakenByServing'
  BY <1>2, StreamTypes DEF TakenByServing, TargetTravels, Quit, Live
<1>3. ASSUME NEW r \in Run, TakeIncoming(r) PROVE TakenByServing'
  <2>1. Head(queue[r]) \in Client /\ at[Head(queue[r])] = r
    BY <1>3, StreamTypes, TailFacts DEF TakeIncoming, QueuesHold
  <2> QED BY <1>3, <2>1, StreamTypes DEF TakenByServing, TakeIncoming, runVars
<1>4. ASSUME NEW r \in Run, ReadRequest(r) \/ ReadFails(r) PROVE TakenByServing'
  <2>1. handling[r] \in Client /\ far[handling[r]] = "reading"
    BY <1>4, StreamTypes DEF ReadRequest, ReadFails, HandlersHold
  <2> QED BY <1>4, <2>1, StreamTypes DEF TakenByServing, ReadRequest, ReadFails, runVars
<1>5. ASSUME NEW c \in Client, NEW r \in Run, OpenBack(c, r) PROVE TakenByServing'
  BY <1>5, StreamTypes DEF TakenByServing, OpenBack
<1>6. ASSUME NEW c \in Client,
             \/ ConnectTarget(c) \/ FarHears(c)
             \/ far[c] \in {"connecting", "copying", "told"} /\ FarOver(c)
      PROVE  TakenByServing'
  BY <1>6, StreamTypes DEF TakenByServing, ConnectTarget, FarHears, FarOver, runVars
<1>7. ASSUME UNCHANGED <<proc, far, at>> PROVE TakenByServing'
  BY <1>7 DEF TakenByServing
<1>8. ASSUME NEW r \in Run, RequestStep(r) PROVE UNCHANGED <<proc, far, at>>
  BY <1>8 DEF RequestStep, ListenerRefuses, RequestLost, ListenerBinds, BindFails, ListenerAcks,
              streamVars
<1>9. ASSUME NEW c \in Client,
             \/ \E p \in Ports : ClientConnects(c, p)
             \/ WriteRequest(c) \/ BothEnd(c) \/ OpenFails(c) \/ NearOver(c) \/ NearHears(c)
      PROVE  UNCHANGED <<proc, far, at>>
  BY <1>9 DEF ClientConnects, WriteRequest, BothEnd, OpenFails, NearOver, NearHears, streamVars,
              runVars
<1>10. ASSUME \/ \E r \in Run : LoseConnection(r) \/ IdleTimeout(r)
              \/ ListenerStops
              \/ UNCHANGED vars
       PROVE  UNCHANGED <<proc, far, at>>
  BY <1>10 DEF LoseConnection, IdleTimeout, ListenerStops, vars, streamVars, runVars
<1> QED
  BY <1>1, <1>2, <1>3, <1>4, <1>5, <1>6, <1>7, <1>8, <1>9, <1>10, BridgeSteps
  DEF Next, RunStep, HandlerStep, UserStep, FaultStep, DialerGivesUp, DialerFails, DialerStops

-----------------------------------------------------------------------------
(* The theorems.                                                           *)

\* Every initial state satisfies the inductive invariant.
LEMMA InitIInv == Init => IInv
<1> SUFFICES ASSUME Init PROVE IInv
  OBVIOUS
<1>1. TypeOK
  BY LimitsAssumption, EmptyFacts DEF Init, TypeOK
<1>2. AcksBacked
  BY DEF Init, AcksBacked
<1>3. TargetTravels
  BY DEF Init, TargetTravels
<1>4. QueuesHold
  BY EmptyFacts DEF Init, QueuesHold
<1>5. HandlersHold /\ TakenByServing
  BY DEF Init, HandlersHold, TakenByServing
<1> QED BY <1>1, <1>2, <1>3, <1>4, <1>5 DEF IInv

(***************************************************************************)
(* The inductive invariant of the reverse forwards holds in every          *)
(* reachable state.                                                        *)
(***************************************************************************)
THEOREM Inductive == Spec => []IInv
<1>1. IInv /\ [Next]_vars => IInv'
  BY NextTypeOK, NextAcksBacked, NextTargetTravels, NextHolds, NextTakenByServing DEF IInv
<1> QED BY InitIInv, <1>1, PTL DEF Spec

(***************************************************************************)
(* The variables of the reverse forwards keep their types; no queue of     *)
(* incoming streams outgrows its limit.                                    *)
(***************************************************************************)
THEOREM TypeCorrect == Spec => []TypeOK
<1>1. IInv => TypeOK
  BY DEF IInv
<1> QED BY Inductive, <1>1, PTL

(***************************************************************************)
(* A run serves only while its own request holds the port it asked for     *)
(* (listen.rs:129-143, reverse.rs:105-118).                                *)
(***************************************************************************)
THEOREM ServesWhatItOwns == Spec => []AckMeansOwned
<1>1. IInv => AckMeansOwned
  BY DEF IInv, AcksBacked, AckMeansOwned
<1> QED BY Inductive, <1>1, PTL

(***************************************************************************)
(* A client is bridged to the target of the bind that accepted it, by a    *)
(* run of the identity that bound it (reverse.rs:47-64, 133-137).          *)
(***************************************************************************)
THEOREM TargetIsReached == Spec => []ReachesItsTarget
<1>1. IInv => ReachesItsTarget
  BY DEF IInv, TargetTravels, ReachesItsTarget
<1> QED BY Inductive, <1>1, PTL

(***************************************************************************)
(* A stream is in one place, and only a run that read its ack takes any    *)
(* from its queue (dial.rs:168-178, reverse.rs:124-141).                   *)
(***************************************************************************)
THEOREM StreamsHeldOnce == Spec => []HeldOnce
<1>1. ASSUME IInv, NEW r \in Run, NEW c \in Client
      PROVE  Places(r, c) = IF at[c] = r /\ far[c] \in {"queued", "reading"} THEN 1 ELSE 0
  <2> DEFINE Is == {i \in 1..Len(queue[r]) : queue[r][i] = c}
  <2>1. QueuesHold /\ HandlersHold /\ TargetTravels
    BY <1>1 DEF IInv
  <2>2. Nobody \notin Client
    BY RunsAssumption
  <2>3. handling[r] = c <=> at[c] = r /\ far[c] = "reading"
    BY <2>1, <2>2 DEF HandlersHold
  <2>4. CASE at[c] = r /\ far[c] = "queued"
    <3>1. PICK i \in 1..Len(queue[r]) : queue[r][i] = c
      BY <2>1, <2>4 DEF QueuesHold
    <3>2. Is = {i}
      BY <2>1, <3>1 DEF QueuesHold
    <3>3. Cardinality(Is) = 1
      BY <3>2, FS_Singleton
    <3> QED BY <2>3, <2>4, <3>3 DEF Places
  <2>5. CASE ~(at[c] = r /\ far[c] = "queued")
    <3>1. Is = {}
      BY <2>1, <2>5 DEF QueuesHold
    <3>2. Cardinality(Is) = 0
      BY <3>1, FS_EmptySet
    <3> QED BY <2>3, <2>5, <3>2 DEF Places
  <2> QED BY <2>4, <2>5
<1>2. IInv => HeldOnce
  BY <1>1 DEF IInv, TakenByServing, HeldOnce
<1> QED BY Inductive, <1>2, PTL
=============================================================================
