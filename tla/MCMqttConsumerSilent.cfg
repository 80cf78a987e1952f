CONSTANTS
    Consumer = consumer
    Runtimes = {consumer}
    Messages <- MCOneMessage
    BadEnvelopes = {bad_topic}
    BadContracts = {}
    Times = {1}
    ValueOf <- MCValueOf
    NoMessage = NoMessage
    Invalid = Invalid
    EventIds = {"a", "b"}
    Sources = {"s"}
    Payloads = {"p"}
    MaxReceived = 20
    Window = 2
    MaxPublished = 1
    MaxLosses = 2
SPECIFICATION FairSpec
PROPERTIES
    SubscriptionRestored
CHECK_DEADLOCK FALSE
