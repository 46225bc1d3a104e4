SPECIFICATION Spec
CONSTANTS
    People = {p1}
    Conns <- TwoConns
    Endings <- HostOnly
    Faults <- JoinFaults
INVARIANTS InRoomIsConnected RefusedJoinLeavesNothing SweptBeforeToken
CHECK_DEADLOCK FALSE
