SPECIFICATION FairSpec
CONSTANTS
    Starts = {r1, r2}
    Stops = {}
    NoEgress = NoEgress
    Faults <- RecoverableFaults
INVARIANTS NoOrphanWhileActive
PROPERTIES SentinelGivenUp SentinelResolves
CHECK_DEADLOCK FALSE
