-------------------------- MODULE SnapshotCustody --------------------------
(***************************************************************************)
(* What is promised of the last drawing of a meeting.  Once it has been    *)
(* captured it is what it is; it is first kept at the sync server, in two  *)
(* files, and neither is given up before the archive has it.  What the     *)
(* archive has it keeps, whatever older requests still arrive there.       *)
(***************************************************************************)

CONSTANTS
    Drawings, \* what can be captured
    NoBoard   \* nothing has been captured

VARIABLES
    board, \* the drawing that was captured
    copies \* where it is

vars == <<board, copies>>

\* The database of the room, the pending file beside it, and the archive.
Local == {"database", "file"}
Places == Local \cup {"archive"}

Init ==
    /\ board = NoBoard
    /\ copies = {}

Capture(drawing) ==
    /\ board = NoBoard
    /\ board' = drawing
    /\ copies' \in {Local, Places}

\* A pending file may be written again, and who comes back late may have the database again,
\* from the archive.
Move(kept) ==
    /\ board # NoBoard
    /\ "archive" \in copies => "archive" \in kept
    /\ copies \ kept # {} => "archive" \in kept
    /\ "database" \in kept => copies \cap {"database", "archive"} # {}
    /\ copies' = kept
    /\ UNCHANGED board

Next ==
    \/ \E drawing \in Drawings : Capture(drawing)
    \/ \E kept \in SUBSET Places : Move(kept)

Spec == Init /\ [][Next]_vars

=============================================================================
