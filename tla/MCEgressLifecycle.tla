------------------------- MODULE MCEgressLifecycle -------------------------
(***************************************************************************)
(* EgressLifecycle for TLC.                                                *)
(***************************************************************************)
EXTENDS EgressLifecycle, TLC

Symmetry == Permutations(Starts) \cup Permutations(Stops)

AllFaults == FaultKinds

\* An egress may fail by itself, and nothing else goes wrong.
EgressFaults == {"egress_fails"}

\* The faults a start request recovers from by itself.
RecoverableFaults ==
    EgressFaults \cup {"livekit_rejects", "response_lost", "no_storage", "completes_empty"}

NoFaults == {}

=============================================================================
