---------------------------- MODULE JumpChainInv ----------------------------
(***************************************************************************)
(* The inductive invariants behind the theorems about JumpChain, in a      *)
(* module of their own so that TLC checks them too: IInv, on which those   *)
(* of JumpChainProofs rest, and PipeInv, inductive with IInv, on which     *)
(* those of JumpChainPipe do.                                              *)
(***************************************************************************)
EXTENDS JumpChain

\* Some frame of s is of this type.
Holds(s, type) == \E i \in 1..Len(s) : s[i].type = type

\* Every task after node n is bridging, or was.
Beyond(n) == \A u \in Tasks : u > n => Up(u)

\* A task holds the rest of the path once it read it.
HopsHeld ==
  /\ hops[0] = Rest(0)
  /\ \A t \in Tasks :
       /\ hops[t] \in {<< >>, Rest(t)}
       /\ pc[t] \notin {"none", "reading", "failed"} => hops[t] = Rest(t)
  /\ pc[N] # "forwarding"

\* A node that has not opened its stream has nobody after it, nobody has
\* written to a stream the chain did not go down yet, and whoever waits for
\* that chain at its end has not moved.
NotYetOpen == {"none", "connecting", "reading", "dialing", "opening"}

NobodyAhead ==
  \A n \in Links :
    /\ pc[n] \in NotYetOpen => pc[n + 1] = "none"
    /\ pc[n] \in NotYetOpen \cup {"forwarding"} => chan[n]["f"] = << >>
    /\ pc[n] \notin NotYetOpen \cup {"failed"} => pc[n + 1] # "none"
    /\ pc[n] = "forwarding" => pc[n + 1] \in {"reading", "failed"}

\* A chain frame is alone in its direction; its writer waits for the result
\* or is gone, and its reader has yet to read it.
ChainAlone ==
  \A l \in Links : Holds(chan[l]["f"], "chain") =>
    /\ l < N /\ Len(chan[l]["f"]) = 1
    /\ Head(chan[l]["f"]).hops = Rest(l + 1)
    /\ pc[l] \in {"awaiting", "failed"}
    /\ pc[l + 1] = "reading"

\* An Ok, wherever it is, stands for a bridge all the way down.
OkBacked ==
  /\ \A l \in Links : Holds(chan[l]["b"], "ok") => Beyond(l)
  /\ \A t \in Tasks : pc[t] \in {"replying", "bridging", "closed"} => Beyond(t)
  /\ verdict = "ok" => Beyond(0)

\* Tasks run where the dialer's path says.
HostsFollowPath ==
  \A n \in 1..(N + 1) : pc[n] # "none" => host[n] = PeerIdFromMultiaddr(All[n])

\* The chain reaches down one hop at a time: whoever is past setting up its
\* own hop, or holds an Ok, stands for everything below (relay.rs:213-265).
IInv == /\ TypeOK /\ HopsHeld /\ NobodyAhead /\ ChainAlone /\ OkBacked
        /\ HostsFollowPath

-----------------------------------------------------------------------------
(* What it takes beyond IInv: for ErrorIsGenuine, FramesInStep and         *)
(* PipeRefinement.                                                         *)

\* Where each node's program can be.
Programs ==
  /\ pc[0] \in DialerPC \cup Gone
  /\ \A t \in Tasks : pc[t] \in TaskPC \cup Gone
  /\ pc[N] # "awaiting"
  /\ pc[N + 1] \in {"none", "reading", "bridging"} \cup Gone

\* Nobody exists beyond a node that has not opened its stream.
NobodyBeyond ==
  \A n \in Links : pc[n] \in NotYetOpen => \A m \in Nodes : m > n => pc[m] = "none"

\* While a task sets up its hop, the node that asked waits for it or is gone;
\* the dialer goes on when all have done so.
AskedFor ==
  /\ \A t \in Tasks :
       pc[t] \in {"dialing", "opening", "forwarding", "awaiting", "replying"} =>
         pc[t - 1] \in {"awaiting", "failed"}
  /\ pc[0] \in {"selecting", "bridging", "closed"} => Beyond(0)

\* A task after node l gave up after its last attempt, everyone between them
\* failed with it, and nobody is beyond it.
GaveUp(l) ==
  \E t \in Tasks :
    /\ t > l /\ attempt[t] = MaxAttempts - 1
    /\ \A u \in (l + 1)..t : pc[u] = "failed"
    /\ \A u \in (t + 1)..(N + 1) : pc[u] = "none"

\* An Error, wherever it is, stands for a task that gave up.
ErrBacked ==
  /\ \A l \in Links : Holds(chan[l]["b"], "err") => GaveUp(l)
  /\ verdict = "err" => GaveUp(0)

\* The ends of a stream follow the nodes that write to it.
EndsKept ==
  /\ \A l \in Links, d \in Dir :
       /\ end[l][d] = "none" <=> pc[l + 1] = "none"
       /\ end[l][d] = "gone" => pc[Writer(l, d)] \in Gone
       /\ end[l][d] = "shut" => Up(Writer(l, d))
       /\ end[l][d] = "open" => pc[Writer(l, d)] \notin Gone
  /\ faults = 0 => cut = {}

\* A task answers once, and its answer stays until it is read or lost.
AnswersKept ==
  \A l \in Links :
    /\ pc[l + 1] \notin Gone \cup {"bridging"} => chan[l]["b"] = << >>
    /\ pc[l] = "awaiting" /\ Up(l + 1) /\ l \notin cut => chan[l]["b"] # << >>

\* The reader of direction d of link l reads a control frame next: the chain,
\* or the result.
Asks(l, d) == IF d = "f" THEN l < N /\ pc[l + 1] = "reading" ELSE pc[l] = "awaiting"
Control(d) == IF d = "f" THEN {"chain"} ELSE {"ok", "err"}
Prefix(l, d) == IF Asks(l, d) /\ chan[l][d] # << >> THEN 1 ELSE 0

\* What goes through the chain once it is up: a request, then the bytes, or
\* the bytes alone.
Nth(d, j) == IF d = "b" THEN Data(j) ELSE IF j = 1 THEN Req ELSE Data(j - 1)

\* After k control frames, s holds number lo + 1 to number hi of direction d.
Holding(s, d, k, lo, hi) ==
  Len(s) = k + (hi - lo) /\ \A i \in 1..Len(s) : i > k => s[i] = Nth(d, lo + i - k)

\* How many of them user d has sent, and the other user has taken.
Put(d) == IF d = "b" THEN sent[d] ELSE IF Up(0) THEN sent[d] + 1 ELSE 0
Got(d) == IF d = "b" THEN Len(recv[d]) ELSE IF Up(N + 1) THEN Len(recv[d]) + 1 ELSE 0

\* c[n] of them went through node n; a link holds those that went through its
\* writer and not through its reader, or nothing once it is broken.
Wire(l, d, c) ==
  LET r == Reader(l, d)  w == Writer(l, d)
  IN  /\ c[r] <= c[w]
      /\ Broken(l, d) => chan[l][d] = << >>
      /\ ~Broken(l, d) => Holding(chan[l][d], d, Prefix(l, d), c[r], c[w])
      /\ Prefix(l, d) = 1 => Head(chan[l][d]).type \in Control(d)

\* Nothing has failed: no fault, and neither user's session.
Clean == faults = 0 /\ pc[0] # "failed" /\ pc[N + 1] # "failed"

\* The first and the last link of direction d.
First(d) == To(User(d), d)
Last(d) == From(User(Opp(d)), d)

\* Unless something failed, an end is passed on behind everything else.
EndBehind(d, c) ==
  Clean => \A l \in Links : end[l][d] = "shut" =>
             end[First(d)][d] = "shut" /\ c[Writer(l, d)] = Put(d)

Through(d, c) ==
  /\ c[User(d)] = Put(d) /\ c[User(Opp(d))] = Got(d)
  /\ \A n \in Nodes : c[n] <= Put(d) /\ (~Up(n) => c[n] = 0)
  /\ \A l \in Links : Wire(l, d, c)
  /\ EndBehind(d, c)

InOrder == \A d \in Dir : \E c \in [Nodes -> 0..(sent[d] + 1)] : Through(d, c)

\* Before a session begins nothing is sent, received or heard, and what a
\* process heard as the end is one.
SessionsKept ==
  /\ ~Up(0) => sent["f"] = 0
  /\ ~Up(N + 1) => recv["f"] = << >>
  /\ \A d \in Dir : heard[d] =>
       /\ Up(User(Opp(d))) /\ chan[Last(d)][d] = << >>
       /\ end[Last(d)][d] \in {"shut", "gone"} \/ Last(d) \in cut

\* Unless something failed, nobody ends before both directions do: who ended
\* passed both ends on, and an end is passed on when it has come in.
CleanEnds ==
  Clean =>
    /\ \A t \in Tasks : pc[t] \notin {"none", "failed"} => pc[t - 1] # "failed"
    /\ \A t \in Tasks, d \in Dir :
         /\ pc[t] = "closed" => end[To(t, d)][d] = "shut"
         /\ end[To(t, d)][d] = "shut" => end[From(t, d)][d] = "shut"
    /\ \A d \in Dir :
         /\ pc[User(d)] = "closed" => end[First(d)][d] = "shut" /\ heard[Opp(d)]
         /\ heard[d] => end[Last(d)][d] = "shut"

\* Every frame has its place: an answer is read before data, an Error has an
\* author, the bytes along the chain are consecutive, and ends come behind
\* them (relay.rs:213-270, netcat.rs).
PipeInv == /\ Programs /\ NobodyBeyond /\ AskedFor /\ ErrBacked /\ EndsKept
           /\ AnswersKept /\ InOrder /\ SessionsKept /\ CleanEnds
=============================================================================
