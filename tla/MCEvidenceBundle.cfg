CONSTANTS
    Builders = {b1, b2}
    Histories <- MCHistories
    MaxAlterations = 1
    Garbled = Garbled
    Invalid = Invalid
    EventIds = {"a", "b"}
    Sources = {"s"}
    Payloads = {"p"}
SPECIFICATION Spec
SYMMETRY Symmetry
INVARIANTS
    TypeOK
    PublishedIsSealed
    ResultIsPublished
    ValidIsGenuine
    LeftoverOnlyByCrash
    NobodyGivesWay
PROPERTIES
    WriteOnce
CHECK_DEADLOCK FALSE
