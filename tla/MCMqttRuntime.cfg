CONSTANTS
    Runtimes = {r1, r2}
    Messages <- MCMessages
    BadEnvelopes = {bad_topic}
    BadContracts = {}
    Times = {0, 1, 2}
    ValueOf <- MCValueOf
    NoMessage = NoMessage
    Invalid = Invalid
    EventIds = {"a", "b", "c"}
    Sources = {"s"}
    Payloads = {"1", "1.0", "2"}
    MaxReceived = 2
SYMMETRY MCSymmetry
SPECIFICATION RuntimeSpec
INVARIANTS
    RuntimeTypeOK
    CountersBalanced
    RowsCredited
    ResultMatchesRow
    RetryIdempotent
