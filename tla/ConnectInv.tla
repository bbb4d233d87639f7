----------------------------- MODULE ConnectInv -----------------------------
(***************************************************************************)
(* The inductive invariant behind the safety properties of Connect.        *)
(***************************************************************************)
EXTENDS Connect

\* The peers that the dialer's target may stand for.
Meant == IF kind = "code" THEN Paired \cap registered ELSE {TargetPeer}

(***************************************************************************)
(* A dialer waits for a peer that its target stands for.  A code is what   *)
(* it discovers with, so that no other target reads a registration.        *)
(***************************************************************************)
WaitsForMeant ==
  /\ phase[Dialer] = "discover" => kind = "code"
  /\ phase[Dialer] \in {"mdns", "peer"} => expected \in Meant

\* A listener dials nobody but the relay, and so never itself.
ListenersDialRelay == \A l \in Listeners : dials[l] \subseteq {ToRelay}

(***************************************************************************)
(* The inductive invariant of the set-up.                                  *)
(***************************************************************************)
IInv == TypeOK /\ WaitsForMeant /\ ListenersDialRelay
=============================================================================
