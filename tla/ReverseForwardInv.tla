------------------------- MODULE ReverseForwardInv -------------------------
(***************************************************************************)
(* The inductive invariant behind the safety properties of ReverseForward. *)
(***************************************************************************)
EXTENDS ReverseForward

(***************************************************************************)
(* An Ok stands for a port, from the bind on: no other request can bind a  *)
(* port that is bound, and a run serves on the Ok it read.                 *)
(***************************************************************************)
AcksBacked ==
  \A r \in Run :
    /\ ask[r] = "bound" => owner[Port[r]] = r
    /\ up /\ ack[r] = "ok" => owner[Port[r]] = r
    /\ proc[r] = "serving" => ack[r] = "ok"

(***************************************************************************)
(* A client keeps the bind that accepted it, and its stream, once it is    *)
(* opened, a run of that identity; the target travels from the one to the  *)
(* other, and nothing is connected before it has arrived.                  *)
(***************************************************************************)
TargetTravels ==
  \A c \in Client :
    /\ tcp[c] # "off" => via[c] \in Run
    /\ tcp[c] \in {"off", "opening"} => far[c] = "none"
    /\ tcp[c] \in {"off", "opening", "writing"} => asked[c] = Nobody
    /\ far[c] # "none" => at[c] \in Run /\ Who[at[c]] = Who[via[c]]
    /\ asked[c] # Nobody => asked[c] = Target[via[c]]
    /\ far[c] = "connecting" => asked[c] # Nobody
    /\ far[c] \in {"copying", "told"} => reached[c] = Target[via[c]]

\* A queue holds the streams that are queued for its run, each once.
QueuesHold ==
  /\ \A r \in Run : \A i \in 1..Len(queue[r]) :
       /\ at[queue[r][i]] = r /\ far[queue[r][i]] = "queued"
       /\ \A j \in 1..Len(queue[r]) : queue[r][i] = queue[r][j] => i = j
  /\ \A c \in Client :
       far[c] = "queued" => \E i \in 1..Len(queue[at[c]]) : queue[at[c]][i] = c

\* A handler holds the stream whose request its run reads.
HandlersHold ==
  /\ \A r \in Run :
       handling[r] # Nobody => at[handling[r]] = r /\ far[handling[r]] = "reading"
  /\ \A c \in Client : far[c] = "reading" => handling[at[c]] = c

\* Streams are taken from their queue by runs that serve.
TakenByServing ==
  \A c \in Client :
    far[c] \in {"reading", "connecting", "copying", "told"} => proc[at[c]] = "serving"

(***************************************************************************)
(* The inductive invariant of the reverse forwards.                        *)
(***************************************************************************)
IInv ==
  /\ TypeOK
  /\ AcksBacked
  /\ TargetTravels
  /\ QueuesHold
  /\ HandlersHold
  /\ TakenByServing
=============================================================================
