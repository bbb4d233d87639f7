------------------------------ MODULE Identity ------------------------------
(***************************************************************************)
(* --identity-file: load_or_create_identity (types.rs) in processes that   *)
(* are started with the same path, one after the other or at once, and     *)
(* that may be killed at any point.  A key is named by the process that    *)
(* generated it.                                                           *)
(***************************************************************************)
CONSTANTS
  Proc,     \* processes: starts of sape with this path
  Absent,   \* no file
  Torn      \* a file that is empty or holds a part of a key

ASSUME ProcAssumption == Absent \notin Proc /\ Torn \notin Proc /\ Absent # Torn

VARIABLES
  file,     \* Absent, Torn, or the key in it
  state,    \* state[p]: where process p is
  key,      \* key[p]: the identity p runs with, or Absent
  rivals    \* processes that were about to write while another one was

vars == <<file, state, key, rivals>>

\* Between path.exists() and the end of fs::write.
Making(p) == state[p] \in {"make", "created"}
Makers == {p \in Proc : Making(p)}

Init ==
  /\ file = Absent
  /\ state = [p \in Proc |-> "off"] /\ key = [p \in Proc |-> Absent]
  /\ rivals = {}

Go(p, s) == state' = [state EXCEPT ![p] = s]

\* Mutant: the file is opened before the key is generated.
StartOpens(p) ==
  /\ state[p] = "off"
  /\ Go(p, IF file = Absent THEN "make" ELSE "load")
  /\ rivals' = IF file = Absent /\ Makers # {} THEN rivals \cup Makers \cup {p} ELSE rivals
  /\ file' = IF file = Absent THEN Torn ELSE file
  /\ UNCHANGED key

\* path.exists() and, without a file, a new key.
Start(p) ==
  /\ state[p] = "off"
  /\ Go(p, IF file = Absent THEN "make" ELSE "load")
  /\ rivals' = IF file = Absent /\ Makers # {} THEN rivals \cup Makers \cup {p} ELSE rivals
  /\ UNCHANGED <<file, key>>

\* Mutant: a file that cannot be parsed is taken for a missing one.
LoadOrMake(p) ==
  /\ state[p] = "load"
  /\ Go(p, IF file = Torn THEN "make" ELSE "up")
  /\ key' = [key EXCEPT ![p] = IF file = Torn THEN Absent ELSE file]
  /\ UNCHANGED <<file, rivals>>

\* Mutant: any content is a key.
LoadUnchecked(p) ==
  /\ state[p] = "load"
  /\ Go(p, "up") /\ key' = [key EXCEPT ![p] = file]
  /\ UNCHANGED <<file, rivals>>

\* fs::read and from_protobuf_encoding, which refuses a torn file.
Load(p) ==
  /\ state[p] = "load"
  /\ Go(p, IF file = Torn THEN "refused" ELSE "up")
  /\ key' = [key EXCEPT ![p] = IF file = Torn THEN Absent ELSE file]
  /\ UNCHANGED <<file, rivals>>

\* fs::write opens the file, which creates or truncates it, and then writes:
\* every key has the same length, so that the last write stands whole.
Create(p) ==
  /\ state[p] = "make"
  /\ Go(p, "created") /\ file' = Torn
  /\ UNCHANGED <<key, rivals>>

Write(p) ==
  /\ state[p] = "created"
  /\ Go(p, "up") /\ file' = p
  /\ key' = [key EXCEPT ![p] = p]
  /\ UNCHANGED rivals

\* The file cannot be created, or the disk is full.
CreateFails(p) == state[p] = "make" /\ Go(p, "stopped") /\ UNCHANGED <<file, key, rivals>>
WriteFails(p) ==
  /\ state[p] = "created"
  /\ Go(p, "halfway") /\ file' \in {file, Torn}
  /\ UNCHANGED <<key, rivals>>

\* A process ends, or is killed; "halfway" if it left its file unwritten.
Stop(p) ==
  /\ state[p] \in {"make", "created", "load", "up"}
  /\ Go(p, IF state[p] = "created" THEN "halfway" ELSE "stopped")
  /\ UNCHANGED <<file, key, rivals>>

Next ==
  \E p \in Proc :
    Start(p) \/ Load(p) \/ Create(p) \/ Write(p) \/ CreateFails(p) \/ WriteFails(p) \/ Stop(p)

Spec == Init /\ [][Next]_vars

-----------------------------------------------------------------------------
(***************************************************************************)
(* Types of the variables of the identity file.                            *)
(***************************************************************************)
TypeOK ==
  /\ file \in Proc \cup {Absent, Torn}
  /\ state \in [Proc -> {"off", "make", "created", "load", "up", "refused", "halfway", "stopped"}]
  /\ key \in [Proc -> Proc \cup {Absent}]
  /\ rivals \subseteq Proc

(***************************************************************************)
(* The identity that a process ever ran with is the one in the file, for   *)
(* every later start to find (README.md:225), unless two first starts      *)
(* overlapped: then each has a key of its own and the last write stands.   *)
(***************************************************************************)
IdentityPersists ==
  \A p \in Proc : key[p] # Absent /\ key[p] \notin rivals => file = key[p]

(***************************************************************************)
(* The inductive invariant: a process that is making a key knows of no     *)
(* other key that is not a rival's, and a torn file has its author.        *)
(***************************************************************************)
MakersAreRivals ==
  \A p \in Proc : Making(p) =>
    /\ \A q \in Proc : Making(q) /\ q # p => q \in rivals
    /\ \A q \in Proc : key[q] # Absent => key[q] \in rivals
    /\ file \in Proc => file \in rivals

NothingYet ==
  file = Absent => \A p \in Proc : key[p] = Absent /\ state[p] \notin {"created", "load"}

TornHasAuthor ==
  file = Torn => \E q \in Proc : state[q] \in {"created", "halfway"}

IInv == TypeOK /\ IdentityPersists /\ MakersAreRivals /\ NothingYet /\ TornHasAuthor

(***************************************************************************)
(* A start is refused only while another process writes the file, or when  *)
(* one ended between creating and writing it; the file is then torn for    *)
(* good, for nothing writes a file that exists (types.rs:60, 69).          *)
(***************************************************************************)
RefusedOnlyTorn ==
  [][\A p \in Proc :
       state[p] = "load" /\ state'[p] = "refused" =>
         \E q \in Proc : state[q] \in {"created", "halfway"}]_vars
=============================================================================
