------------------------- MODULE AdmissionDecision -------------------------
(***************************************************************************)
(* What the waiting room promises: each admission is decided once, by      *)
(* whoever comes first, for good; and only the admitted enter.             *)
(***************************************************************************)

CONSTANT Members

VARIABLES
    adm,    \* status of each member's admission
    entered \* members who have a presence row, and with it a token

vars == <<adm, entered>>

Init ==
    /\ adm = [m \in Members |-> "none"]
    /\ entered = {}

\* What one step may make of an admission: a join asks for approval or needs none; whoever
\* waits is admitted or turned away by the host, because time ran out, or because nobody is
\* left to decide.  A decision is final.
Follows(s, t) ==
    \/ t = s
    \/ s = "none" /\ t \in {"awaiting", "approved"}
    \/ s = "awaiting" /\ t \in {"approved", "denied"}

Next ==
    /\ adm' \in [Members -> {"none", "awaiting", "approved", "denied"}]
    /\ \A m \in Members : Follows(adm[m], adm'[m])
    /\ entered' \in SUBSET Members
    /\ entered \subseteq entered'
    /\ \A m \in entered' \ entered : adm[m] = "approved"

Spec == Init /\ [][Next]_vars

=============================================================================
