SPECIFICATION Spec
CONSTANTS
    People = {p1}
    Conns <- OneConn
    Endings <- AllEndings
    Faults <- AllFaults
INVARIANTS TypeOK
PROPERTIES EndingSpec
CHECK_DEADLOCK FALSE
