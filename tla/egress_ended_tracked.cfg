SPECIFICATION Spec
CONSTANTS
    Starts = {r1, r2}
    Stops = {t1}
    NoEgress = NoEgress
    Faults <- EgressFaults
INVARIANTS EndedEgressNotTracked
CHECK_DEADLOCK FALSE
