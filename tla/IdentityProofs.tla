--------------------------- MODULE IdentityProofs ---------------------------
(***************************************************************************)
(* Identity, for any set of processes: IInv is inductive, and gives the    *)
(* invariants and the action property that its run checks.                 *)
(***************************************************************************)
EXTENDS Identity, TLAPS

\* Every initial state satisfies the inductive invariant.
LEMMA InitIInv == Init => IInv
BY ProcAssumption
DEF Init, IInv, TypeOK, IdentityPersists, MakersAreRivals, NothingYet, TornHasAuthor, Making

\* Types are preserved by every step.
LEMMA NextTypeOK == TypeOK /\ [Next]_vars => TypeOK'
<1> SUFFICES ASSUME TypeOK, [Next]_vars PROVE TypeOK'
  OBVIOUS
<1> USE ProcAssumption DEF TypeOK, Go
<1>1. ASSUME NEW p \in Proc, Start(p) PROVE TypeOK'
  BY <1>1 DEF Start, Makers
<1>2. ASSUME NEW p \in Proc, Load(p) PROVE TypeOK'
  <2>1. file # Torn => file \in Proc \cup {Absent}
    OBVIOUS
  <2> QED BY <1>2, <2>1 DEF Load
<1>3. ASSUME NEW p \in Proc, Create(p) \/ Write(p) PROVE TypeOK'
  BY <1>3 DEF Create, Write
<1>4. ASSUME NEW p \in Proc, CreateFails(p) \/ WriteFails(p) \/ Stop(p) PROVE TypeOK'
  BY <1>4 DEF CreateFails, WriteFails, Stop
<1>5. CASE UNCHANGED vars
  BY <1>5 DEF vars
<1> QED BY <1>1, <1>2, <1>3, <1>4, <1>5 DEF Next

\* The inductive invariant is preserved by every step.
LEMMA NextIInv == IInv /\ [Next]_vars => IInv'
<1> SUFFICES ASSUME IInv, [Next]_vars PROVE IInv'
  OBVIOUS
<1>0. TypeOK'
  BY NextTypeOK DEF IInv
<1>a. /\ file \in Proc \cup {Absent, Torn}
      /\ state \in [Proc -> {"off", "make", "created", "load", "up",
                             "refused", "halfway", "stopped"}]
      /\ key \in [Proc -> Proc \cup {Absent}]
  BY DEF IInv, TypeOK
<1> USE ProcAssumption DEF IInv, IdentityPersists, MakersAreRivals, NothingYet,
                           TornHasAuthor, Making, Go
<1>1. ASSUME NEW p \in Proc, Start(p) PROVE IInv'
  <2>1. CASE file = Absent
    BY <1>1, <1>0, <1>a, <2>1 DEF Start, Makers
  <2>2. CASE file # Absent
    BY <1>1, <1>0, <1>a, <2>2 DEF Start, Makers
  <2> QED BY <2>1, <2>2
<1>2. ASSUME NEW p \in Proc, Load(p) PROVE IInv'
  BY <1>2, <1>0, <1>a DEF Load
<1>3. ASSUME NEW p \in Proc, Create(p) PROVE IInv'
  BY <1>3, <1>0, <1>a DEF Create
<1>4. ASSUME NEW p \in Proc, Write(p) PROVE IInv'
  BY <1>4, <1>0, <1>a DEF Write
<1>5. ASSUME NEW p \in Proc, CreateFails(p) PROVE IInv'
  BY <1>5, <1>0, <1>a DEF CreateFails
<1>6. ASSUME NEW p \in Proc, WriteFails(p) PROVE IInv'
  BY <1>6, <1>0, <1>a DEF WriteFails
<1>7. ASSUME NEW p \in Proc, Stop(p) PROVE IInv'
  BY <1>7, <1>0, <1>a DEF Stop
<1>8. CASE UNCHANGED vars
  BY <1>0, <1>8 DEF vars
<1> QED BY <1>1, <1>2, <1>3, <1>4, <1>5, <1>6, <1>7, <1>8 DEF Next

\* The inductive invariant holds in every reachable state.
THEOREM Inductive == Spec => []IInv
BY InitIInv, NextIInv, PTL DEF Spec

\* Types are correct in every reachable state.
THEOREM TypesCorrect == Spec => []TypeOK
<1>1. IInv => TypeOK
  BY DEF IInv
<1> QED BY Inductive, <1>1, PTL

(***************************************************************************)
(* The identity a process ran with stays the one in the file, unless two   *)
(* first starts overlapped: load_or_create_identity, types.rs:59-74.       *)
(***************************************************************************)
THEOREM StableIdentity == Spec => []IdentityPersists
<1>1. IInv => IdentityPersists
  BY DEF IInv
<1> QED BY Inductive, <1>1, PTL

(***************************************************************************)
(* A start is refused only on account of a process that is writing the     *)
(* file or ended while it did.                                             *)
(***************************************************************************)
THEOREM RefusalsHaveAuthors == Spec => RefusedOnlyTorn
<1> DEFINE Refused == \A p \in Proc :
                        state[p] = "load" /\ state'[p] = "refused" =>
                          \E q \in Proc : state[q] \in {"created", "halfway"}
<1>1. IInv /\ [Next]_vars => Refused
  <2> SUFFICES ASSUME IInv, [Next]_vars, NEW p \in Proc,
                      state[p] = "load", state'[p] = "refused"
               PROVE  file = Torn
    BY DEF IInv, TornHasAuthor
  <2>1. state \in [Proc -> {"off", "make", "created", "load", "up",
                            "refused", "halfway", "stopped"}]
    BY DEF IInv, TypeOK
  <2>2. ASSUME NEW q \in Proc,
               Start(q) \/ Create(q) \/ Write(q) \/ CreateFails(q) \/ WriteFails(q) \/ Stop(q)
        PROVE  FALSE
    BY <2>1, <2>2 DEF Start, Create, Write, CreateFails, WriteFails, Stop, Go
  <2>3. ASSUME NEW q \in Proc, Load(q) PROVE file = Torn
    BY <2>1, <2>3 DEF Load, Go
  <2>4. CASE UNCHANGED vars
    BY <2>4 DEF vars
  <2> QED BY <2>2, <2>3, <2>4 DEF Next
<1>2. Refused => [Refused]_vars
  OBVIOUS
<1> QED BY Inductive, <1>1, <1>2, PTL DEF Spec, RefusedOnlyTorn
=============================================================================
