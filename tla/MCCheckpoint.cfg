CONSTANTS
    Inputs <- MCInputs
    NoEvent = NoEvent
    Invalid = Invalid
    EventIds = {"a", "b", "c", "d"}
    Sources = {"s", "t"}
    Payloads = {"p"}
    Writers = {w1, w2}
    MaxWrites = 2
SYMMETRY MCSymmetry
SPECIFICATION CheckpointSpec
INVARIANTS
    TypeOK
    StateOfConsumed
    RefusedIffDisordered
    LoadedWasProjected
    CheckpointReadable
CHECK_DEADLOCK FALSE
