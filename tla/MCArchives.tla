----------------------------- MODULE MCArchives -----------------------------
(***************************************************************************)
(* What is kept of a meeting, for TLC: the drawing of its whiteboard, its  *)
(* recording and what was said.  They share no state, so a behaviour is    *)
(* one of one of them: part says which, and the others stay where they     *)
(* begin.                                                                  *)
(***************************************************************************)
EXTENDS WhiteboardSnapshots, Recordings, Transcripts

VARIABLE part

\* What loses a captured snapshot; everything else that may go wrong; the call of /session-end
\* alone; nothing.
Losses == {"overtakes", "overlaps", "disk_fails", "late_fetch_fails"}
SnapshotRuns == {Losses, SnapshotFaults \ Losses, {"notice_lost"}, {}}

Init ==
    /\ part \in {"drawing", "recording", "speech"}
    /\ SnInit /\ ReInit /\ TrInit
    /\ part = "drawing" \/ faults = {}
    /\ part = "recording" \/ ~full

Next ==
    /\ UNCHANGED part
    /\ \/ part = "drawing" /\ SnNext /\ UNCHANGED <<reVars, trVars>>
       \/ part = "recording" /\ ReNext /\ UNCHANGED <<snVars, trVars>>
       \/ part = "speech" /\ TrNext /\ UNCHANGED <<snVars, reVars>>

\* At rest nothing is due, so fairness asks nothing of the other parts.
Spec == Init /\ [][Next]_<<part, snVars, reVars, trVars>>
             /\ SnFairness /\ TrFairness

\* The types of the parts.
TypesOK == SnTypeOK /\ ReTypeOK /\ TrTypeOK

=============================================================================
