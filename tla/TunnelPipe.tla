----------------------------- MODULE TunnelPipe -----------------------------
(***************************************************************************)
(* What a netcat tunnel promises the two users at its ends, however many   *)
(* relays it runs through.  Direction "f" is what the dialing user types,  *)
(* "b" what the listening user types; a user's bytes are numbered 1, 2,    *)
(* ... per direction.                                                      *)
(*   - Bytes arrive in order, each once, and only bytes that were sent.    *)
(*   - Nothing reaches the listening user, and nothing is read from them,  *)
(*     before the listener accepted the request (client/listen.rs); the    *)
(*     dialing user's bytes follow the request.                            *)
(*   - Unless something broke, the end of a user's input reaches the other *)
(*     user's process only after it ended and every byte of it was         *)
(*     delivered; and nothing is ever delivered after that.                *)
(***************************************************************************)
EXTENDS Naturals, Sequences

VARIABLES phase,     \* "setup", then "requested", then "attached"
          sent,      \* sent[d]: how many bytes the user of d put in
          recv,      \* recv[d]: the bytes the other user was given
          closed,    \* closed[d]: the input of d has ended
          heard,     \* heard[d]: that end reached the other user's process
          broken     \* a process or a connection was lost

vars == <<phase, sent, recv, closed, heard, broken>>

Dir == {"f", "b"}

Init == /\ phase = "setup"
        /\ sent = [d \in Dir |-> 0]
        /\ recv = [d \in Dir |-> << >>]
        /\ closed = [d \in Dir |-> FALSE]
        /\ heard = [d \in Dir |-> FALSE]
        /\ broken = FALSE

Request == /\ phase = "setup"
           /\ phase' = "requested"
           /\ UNCHANGED <<sent, recv, closed, heard, broken>>

Attach == /\ phase = "requested"
          /\ phase' = "attached"
          /\ UNCHANGED <<sent, recv, closed, heard, broken>>

Send(d) == /\ phase \in (IF d = "f" THEN {"requested", "attached"} ELSE {"attached"})
           /\ ~closed[d]
           /\ sent' = [sent EXCEPT ![d] = @ + 1]
           /\ UNCHANGED <<phase, recv, closed, heard, broken>>

Deliver(d) == /\ phase = "attached"
              /\ Len(recv[d]) < sent[d]
              /\ ~heard[d]
              /\ recv' = [recv EXCEPT ![d] = Append(@, Len(@) + 1)]
              /\ UNCHANGED <<phase, sent, closed, heard, broken>>

Close(d) == /\ ~closed[d]
            /\ closed' = [closed EXCEPT ![d] = TRUE]
            /\ UNCHANGED <<phase, sent, recv, heard, broken>>

HearEof(d) == /\ ~heard[d]
              /\ broken \/ (closed[d] /\ Len(recv[d]) = sent[d])
              /\ heard' = [heard EXCEPT ![d] = TRUE]
              /\ UNCHANGED <<phase, sent, recv, closed, broken>>

\* A loss may take the process of an end with it, and so end its input.
Break == /\ broken' = TRUE
         /\ closed' \in [Dir -> BOOLEAN]
         /\ \A d \in Dir : closed[d] => closed'[d]
         /\ UNCHANGED <<phase, sent, recv, heard>>

Next == \/ Request \/ Attach \/ Break
        \/ \E d \in Dir : Send(d) \/ Deliver(d) \/ Close(d) \/ HearEof(d)

Spec == Init /\ [][Next]_vars
=============================================================================
