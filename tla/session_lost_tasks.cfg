SPECIFICATION FairSpec
CONSTANTS
    People = {p1}
    Conns <- OneConn
    Endings <- HostOnly
    Faults <- LostResponse
PROPERTIES EndedRunsTasks
CHECK_DEADLOCK FALSE
