CONSTANTS
    h1 = h1
    h2 = h2
    t1 = t1
    t2 = t2
    t3 = t3
    Handles = {h1, h2}
    Threads = {t1, t2, t3}
    Readers = {t2}
    Interruptible = {t1}
    HandleOf <- MCHandleOf
    Batches <- MCBatches
    NoThread = NoThread
    NoHandle = NoHandle
    Invalid = Invalid
    EventIds = {"a", "b", "c"}
    Sources = {"s"}
    Payloads = {"p", "q"}
    MaxCalls = 1
SPECIFICATION Spec
INVARIANTS
    TypeOK
    WriterExcludes
    LedgerConsistent
    SnapshotsCommitted
    AnswersDurable
    AcceptedOnce
    OrphanIsEmpty
PROPERTIES
    AppendOnly
    MonotonicReads
    ImplementsStore
