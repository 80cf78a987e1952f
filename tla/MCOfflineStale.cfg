CONSTANTS
    Ledgers <- MCLedgers
    EvaluationTimes <- MCTimes
    Requests <- MCRequests
    InputFiles <- MCInputFiles
    DelayThreshold = 60
    StaleAfter = 60
    FrozenRunLength = 3
    SimulatedSource = "s"
    ImportedAt = 1
    NoId = NoId
    MaxRows = 2
    MaxAttempts = 3
    MaxLines = 1
    MaxImports = 2
    Invalid = Invalid
    EventIds <- MCIds
    Sources = {"s", "t"}
    Payloads <- MCIds
SPECIFICATION MCSpec
INVARIANT
    StaleHasNoRecent
CHECK_DEADLOCK FALSE
