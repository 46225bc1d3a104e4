SPECIFICATION FairSpec
CONSTANTS
    People = {p1}
    Conns <- OneConn
    Endings <- HostNaturalStale
    Faults <- DeliveryFaults
INVARIANTS TasksHaveOwner
PROPERTIES AbandonedSessionEnds EndedRunsTasks
CHECK_DEADLOCK FALSE
