---------------------------- MODULE EgressSlot ----------------------------
(***************************************************************************)
(* What the two egress columns of a session row promise together: one slot *)
(* that a start request reserves, then confirms with its running egress,   *)
(* and that is released once.  The end of the session empties the slot and *)
(* closes it for good.                                                     *)
(***************************************************************************)

CONSTANTS
    Requests, \* start requests
    NoEgress  \* what a free slot refers to

VARIABLES
    open,  \* the session has not ended
    slot,  \* who holds the slot, and how far that request has come
    spent  \* requests that have had their turn

vars == <<open, slot, spent>>

Free == [stage |-> "none", of |-> NoEgress]
Reserved(r) == [stage |-> "starting", of |-> r]
Confirmed(r) == [stage |-> "live", of |-> r]

Init ==
    /\ open = TRUE
    /\ slot = Free
    /\ spent = {}

Reserve(r) ==
    /\ open
    /\ slot = Free
    /\ r \notin spent
    /\ slot' = Reserved(r)
    /\ spent' = spent \cup {r}
    /\ UNCHANGED open

Confirm(r) ==
    /\ open
    /\ slot = Reserved(r)
    /\ slot' = Confirmed(r)
    /\ UNCHANGED <<open, spent>>

Release(r) ==
    /\ open
    /\ slot \in {Reserved(r), Confirmed(r)}
    /\ slot' = Free
    /\ UNCHANGED <<open, spent>>

Close ==
    /\ open
    /\ open' = FALSE
    /\ slot' = Free
    /\ UNCHANGED spent

Next ==
    \/ \E r \in Requests : Reserve(r) \/ Confirm(r) \/ Release(r)
    \/ Close

Spec == Init /\ [][Next]_vars

=============================================================================
