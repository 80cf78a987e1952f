CONSTANTS
    Runtimes = {r1}
    Messages <- MCAllMessages
    BadEnvelopes = {bad_topic}
    BadContracts = {bad_sequence}
    Times = {0, 1, 2}
    ValueOf <- MCValueOf
    NoMessage = NoMessage
    Invalid = Invalid
    EventIds = {"a", "b", "c"}
    Sources = {"s"}
    Payloads = {"1", "1.0", "2"}
    MaxReceived = 4
SPECIFICATION RuntimeSpec
INVARIANTS
    DuplicateIsByteEquivalent
