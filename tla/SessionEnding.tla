--------------------------- MODULE SessionEnding ---------------------------
(***************************************************************************)
(* What the end of a meeting session promises, whoever asks for it: the    *)
(* session ends once and stays ended, and its post-meeting tasks (audit    *)
(* event, AI notes, whiteboard hand-over) run at most once, after the end. *)
(***************************************************************************)

VARIABLES
    open, \* the session is active
    runs  \* how often the post-meeting tasks have been run

vars == <<open, runs>>

Init ==
    /\ open = TRUE
    /\ runs = 0

End ==
    /\ open
    /\ open' = FALSE
    /\ UNCHANGED runs

RunTasks ==
    /\ ~open
    /\ runs = 0
    /\ runs' = 1
    /\ UNCHANGED open

Next == End \/ RunTasks

Spec == Init /\ [][Next]_vars

=============================================================================
