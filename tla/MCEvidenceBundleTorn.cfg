CONSTANTS
    Builders = {b1, b2}
    Histories <- MCHistories
    MaxAlterations = 1
    Garbled = Garbled
    Invalid = Invalid
    EventIds = {"a", "b"}
    Sources = {"s"}
    Payloads = {"p"}
SPECIFICATION Spec
INVARIANTS
    NewBundleVerifies
CHECK_DEADLOCK FALSE
