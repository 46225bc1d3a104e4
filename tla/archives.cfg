SPECIFICATION Spec
CONSTANTS
    Strokes = 3
    NoBoard = NoBoard
    MaxVisits = 1
    MaxFetching = 2
    FaultChoices <- SnapshotRuns
    Deliveries = {d1, d2}
    Runs = 2
    MaxSpoken = 2
    BatchSize = 2
    ChunkSize = 1
    Calls = {k1, k2}
    NoCall = NoCall
INVARIANTS TypesOK RowHasObject  SpeechKept
PROPERTIES CustodySpec  CapturedIsArchived SpeechIsSaved
CHECK_DEADLOCK FALSE
