------------------------------- MODULE Ledger -------------------------------
(***************************************************************************)
(* EventLedger: several connections (handles) to one SQLite database, each *)
(* shared by the threads of its process under a reentrant lock.            *)
(*                                                                         *)
(* SQLite itself is external and is modelled by what the code relies on:   *)
(* one writer at a time, a transaction that is private until COMMIT,       *)
(* committed content that survives a crash, and a connection that sees its *)
(* own uncommitted rows.  A batch is ingested one statement at a time, so  *)
(* reads, other handles, interrupts and crashes fall between statements.   *)
(***************************************************************************)
EXTENDS CanonicalEvents

CONSTANTS
    Handles,        \* EventLedger objects, one connection each
    Threads,        \* callers
    HandleOf,       \* the handle each thread uses
    Readers,        \* the threads that also read
    Interruptible,  \* the threads that get KeyboardInterrupt: main threads
    Batches,        \* the arguments callers pass to ingest_many
    NoThread, NoHandle,
    MaxCalls        \* bound: ingest calls of one thread

ASSUME HandleAssumption ==
    /\ HandleOf \in [Threads -> Handles]
    /\ Readers \subseteq Threads
    /\ Interruptible \subseteq Threads
    /\ NoThread \notin Threads
    /\ NoHandle \notin Handles

ASSUME BatchAssumption ==
    /\ Invalid \notin Event
    /\ Batches \subseteq Seq(Event \union {Invalid})
    /\ MaxCalls \in Nat

VARIABLES
    open,           \* handles whose connection is open
    mutex,          \* [Handles -> Threads \union {NoThread}]: holder of _lock
    writer,         \* the handle with an open write transaction, or NoHandle
    db,             \* committed content: the events table, sqlite_sequence
    txn,            \* the same as the writer sees it; meaningless without one
    pc,             \* where each thread is in ingest_many
    request,        \* its batch, once coerced
    results,        \* the answers gathered by the loop so far
    reply,          \* the answer the caller got
    snapshot,       \* the rows the last read_events of the thread returned
    calls           \* ingest calls so far, see MaxCalls

vars == <<open, mutex, writer, db, txn, pc, request, results, reply,
          snapshot, calls>>

Database == [rows : Seq(Row), seqno : Nat]
EmptyDb == [rows |-> <<>>, seqno |-> 0]

NoReply == [outcome |-> "none", results |-> <<>>]
Failed(o) == [outcome |-> o, results |-> <<>>]

(* What a statement of handle h sees.                                      *)
View(h) == IF writer = h THEN txn ELSE db

-----------------------------------------------------------------------------
(* Opening and closing.                                                    *)

Init ==
    /\ open = {}
    /\ mutex = [h \in Handles |-> NoThread]
    /\ writer = NoHandle
    /\ db = EmptyDb
    /\ txn = EmptyDb
    /\ pc = [t \in Threads |-> "idle"]
    /\ request = [t \in Threads |-> <<>>]
    /\ results = [t \in Threads |-> <<>>]
    /\ reply = [t \in Threads |-> NoReply]
    /\ snapshot = [t \in Threads |-> <<>>]
    /\ calls = [t \in Threads |-> 0]

(* The constructor runs the schema script, which takes the write lock for  *)
(* its INSERT OR IGNORE: while another handle writes, it waits or fails.   *)
Open(h) ==
    /\ h \notin open
    /\ writer = NoHandle
    /\ open' = open \union {h}
    /\ UNCHANGED <<mutex, writer, db, txn, pc, request, results, reply,
                   snapshot, calls>>

(* Closing waits for _lock; a transaction left open is rolled back.        *)
Close(h) ==
    /\ h \in open
    /\ mutex[h] = NoThread
    /\ open' = open \ {h}
    /\ writer' = IF writer = h THEN NoHandle ELSE writer
    /\ txn' = IF writer = h THEN EmptyDb ELSE txn
    /\ UNCHANGED <<mutex, db, pc, request, results, reply, snapshot, calls>>

-----------------------------------------------------------------------------
(* ingest_many.                                                            *)

(* The call returns to its caller and releases _lock if it holds it.       *)
Leave(t, answer) ==
    /\ pc' = [pc EXCEPT ![t] = "idle"]
    /\ reply' = [reply EXCEPT ![t] = answer]
    /\ results' = [results EXCEPT ![t] = <<>>]
    /\ mutex' = IF mutex[HandleOf[t]] = t
                THEN [mutex EXCEPT ![HandleOf[t]] = NoThread] ELSE mutex

(* _coerce raises for a record that is not a valid event.                  *)
MalformedUnchecked(b) == FALSE      \* fault: mappings are taken as they are

Malformed(b) == Contains(b, Invalid)

(* The records are coerced before _lock is taken: a malformed record ends  *)
(* the call, and so does an empty batch.                                   *)
Call(t, b) ==
    /\ pc[t] = "idle"
    /\ calls[t] < MaxCalls
    /\ calls' = [calls EXCEPT ![t] = @ + 1]
    /\ request' = [request EXCEPT ![t] = b]
    /\ \/ /\ Malformed(b)
          /\ Leave(t, Failed("invalid"))
       \/ /\ b = <<>>
          /\ Leave(t, [outcome |-> "ok", results |-> <<>>])
       \/ /\ b # <<>> /\ ~Malformed(b)
          /\ pc' = [pc EXCEPT ![t] = "blocked"]
          /\ reply' = [reply EXCEPT ![t] = NoReply]
          /\ UNCHANGED <<mutex, results>>
    /\ UNCHANGED <<open, writer, db, txn, snapshot>>

(* with self._lock                                                         *)
AcquireUnchecked(t) ==              \* fault: no lock around the transaction
    /\ pc[t] = "blocked"
    /\ mutex' = [mutex EXCEPT ![HandleOf[t]] = t]
    /\ pc' = [pc EXCEPT ![t] = "locked"]
    /\ UNCHANGED <<open, writer, db, txn, request, results, reply, snapshot,
                   calls>>

Acquire(t) ==
    /\ pc[t] = "blocked"
    /\ mutex[HandleOf[t]] = NoThread
    /\ mutex' = [mutex EXCEPT ![HandleOf[t]] = t]
    /\ pc' = [pc EXCEPT ![t] = "locked"]
    /\ UNCHANGED <<open, writer, db, txn, request, results, reply, snapshot,
                   calls>>

(* BEGIN IMMEDIATE takes the write lock and reads the latest commit.       *)
CanBeginDeferred(t) == HandleOf[t] \in open     \* fault: BEGIN, no write lock

CanBegin(t) == HandleOf[t] \in open /\ writer = NoHandle

Begin(t) ==
    /\ pc[t] = "locked"
    /\ CanBegin(t)
    /\ writer' = HandleOf[t]
    /\ txn' = db
    /\ pc' = [pc EXCEPT ![t] = "writing"]
    /\ UNCHANGED <<open, mutex, db, request, results, reply, snapshot, calls>>

(* BEGIN IMMEDIATE raises, outside the try block: the connection is closed,*)
(* another handle keeps the write lock past the busy timeout, or this      *)
(* connection is already inside a transaction.                             *)
BeginFailsLocked(t) ==              \* fault: _lock is not released
    /\ pc[t] = "locked"
    /\ writer \notin {NoHandle, HandleOf[t]}
    /\ pc' = [pc EXCEPT ![t] = "idle"]
    /\ reply' = [reply EXCEPT ![t] = Failed("busy")]
    /\ UNCHANGED <<open, mutex, writer, db, txn, request, results, snapshot,
                   calls>>

BeginFails(t) ==
    /\ pc[t] = "locked"
    /\ \/ HandleOf[t] \notin open /\ Leave(t, Failed("closed"))
       \/ HandleOf[t] \in open /\ writer = HandleOf[t] /\ Leave(t, Failed("error"))
       \/ /\ HandleOf[t] \in open
          /\ writer \notin {NoHandle, HandleOf[t]}
          /\ Leave(t, Failed("busy"))
    /\ UNCHANGED <<open, writer, db, txn, request, snapshot, calls>>

(* _ingest_in_transaction, for the next event of the batch.                *)
Current(t) == request[t][Len(results[t]) + 1]
InLoop(t) == pc[t] = "writing" /\ Len(results[t]) < Len(request[t])

OwnersOf(e, rows) == {r \in ToSet(rows) : r.event.event_id = e.event_id}
HoldersOf(e, rows) == {r \in ToSet(rows) : Position(r.event) = Position(e)}

ConflictingById(e, rows) ==         \* fault: the position is not looked up
    \E r \in OwnersOf(e, rows) : r.event # e

Conflicting(e, rows) ==
    \/ \E r \in OwnersOf(e, rows) : r.event # e
    \/ OwnersOf(e, rows) = {} /\ HoldersOf(e, rows) # {}

GatherIndex(t, status, ordinal) ==  \* fault: the index, not the ordinal
    results' = [results EXCEPT ![t] =
                    Append(@, [status |-> status, ordinal |-> Len(@) + 1])]

Gather(t, status, ordinal) ==
    results' = [results EXCEPT ![t] =
                    Append(@, [status |-> status, ordinal |-> ordinal])]

IngestDuplicateAsNew(t) ==          \* fault: a duplicate reported as accepted
    /\ InLoop(t)
    /\ \E r \in OwnersOf(Current(t), txn.rows) :
        /\ r.event = Current(t)
        /\ Gather(t, "accepted", r.ordinal)
    /\ UNCHANGED <<open, mutex, writer, db, txn, pc, request, reply, snapshot,
                   calls>>

IngestDuplicate(t) ==
    /\ InLoop(t)
    /\ \E r \in OwnersOf(Current(t), txn.rows) :
        /\ r.event = Current(t)
        /\ Gather(t, "duplicate", r.ordinal)
    /\ UNCHANGED <<open, mutex, writer, db, txn, pc, request, reply, snapshot,
                   calls>>

(* INSERT gives the row the next AUTOINCREMENT value, which is counted in  *)
(* a table of its own and so belongs to the transaction.                   *)
Insert(e, d) ==
    [rows  |-> Append(d.rows, [ordinal |-> d.seqno + 1, event |-> e]),
     seqno |-> d.seqno + 1]

IngestInsertAutocommit(t) ==        \* fault: each INSERT commits by itself
    /\ InLoop(t)
    /\ OwnersOf(Current(t), txn.rows) = {}
    /\ ~Conflicting(Current(t), txn.rows)
    /\ txn' = Insert(Current(t), txn)
    /\ db' = txn'
    /\ Gather(t, "accepted", txn.seqno + 1)
    /\ UNCHANGED <<open, mutex, writer, pc, request, reply, snapshot, calls>>

IngestInsert(t) ==
    /\ InLoop(t)
    /\ OwnersOf(Current(t), txn.rows) = {}
    /\ ~Conflicting(Current(t), txn.rows)
    /\ txn' = Insert(Current(t), txn)
    /\ Gather(t, "accepted", txn.seqno + 1)
    /\ UNCHANGED <<open, mutex, writer, db, pc, request, reply, snapshot, calls>>

(* except BaseException: ROLLBACK of the whole batch.                      *)
Rollback(t, answer) ==
    /\ writer' = NoHandle
    /\ txn' = EmptyDb
    /\ Leave(t, answer)
    /\ UNCHANGED <<open, db, request, snapshot, calls>>

IngestConflict(t) ==
    /\ InLoop(t)
    /\ Conflicting(Current(t), txn.rows)
    /\ Rollback(t, Failed("conflict"))

(* A statement or COMMIT raises, or an interrupt arrives, inside the try.  *)
AbortKept(t) ==                     \* fault: only Exception is caught
    /\ pc[t] = "writing"
    /\ Leave(t, Failed("error"))
    /\ UNCHANGED <<open, writer, db, txn, request, snapshot, calls>>

Abort(t) ==
    /\ pc[t] = "writing"
    /\ Rollback(t, Failed("error"))

Commit(t) ==
    /\ pc[t] = "writing"
    /\ Len(results[t]) = Len(request[t])
    /\ db' = txn
    /\ writer' = NoHandle
    /\ txn' = EmptyDb
    /\ pc' = [pc EXCEPT ![t] = "committed"]
    /\ UNCHANGED <<open, mutex, request, results, reply, snapshot, calls>>

Return(t) ==
    /\ pc[t] = "committed"
    /\ Leave(t, [outcome |-> "ok", results |-> results[t]])
    /\ UNCHANGED <<open, writer, db, txn, request, snapshot, calls>>

-----------------------------------------------------------------------------
(* Interrupts outside the transaction, and crashes.                        *)

(* A KeyboardInterrupt leaves the call and releases _lock.  After COMMIT   *)
(* there is no transaction left to roll back: the batch stays.             *)
Interrupt(t) ==
    /\ pc[t] \in {"blocked", "locked", "committed"}
    /\ Leave(t, Failed("error"))
    /\ UNCHANGED <<open, writer, db, txn, request, snapshot, calls>>

(* BEGIN IMMEDIATE has succeeded, and the interrupt it was waiting out is  *)
(* raised before the try block is entered: the transaction stays open.     *)
InterruptBegin(t) ==
    /\ pc[t] = "locked"
    /\ CanBegin(t)
    /\ writer' = HandleOf[t]
    /\ txn' = db
    /\ Leave(t, Failed("error"))
    /\ UNCHANGED <<open, db, request, snapshot, calls>>

(* The process of the handle dies.  What was committed survives.           *)
Crash(h) ==
    /\ h \in open
    /\ open' = open \ {h}
    /\ mutex' = [mutex EXCEPT ![h] = NoThread]
    /\ writer' = IF writer = h THEN NoHandle ELSE writer
    /\ txn' = IF writer = h THEN EmptyDb ELSE txn
    /\ LET dead == {t \in Threads : HandleOf[t] = h}
       IN  /\ pc' = [t \in Threads |-> IF t \in dead THEN "idle" ELSE pc[t]]
           /\ results' = [t \in Threads |-> IF t \in dead THEN <<>> ELSE results[t]]
           /\ reply' = [t \in Threads |->
                            IF t \in dead /\ pc[t] # "idle"
                            THEN Failed("lost") ELSE reply[t]]
    /\ UNCHANGED <<db, request, snapshot, calls>>

-----------------------------------------------------------------------------
(* read_events; count and find_event see the same rows.  The statement     *)
(* runs under _lock and is over before it is released.                     *)
CanReadAnyTime(t) == TRUE           \* fault: read_events without _lock

CanRead(t) == mutex[HandleOf[t]] = NoThread

Read(t) ==
    /\ pc[t] = "idle"
    /\ HandleOf[t] \in open
    /\ CanRead(t)
    /\ snapshot' = [snapshot EXCEPT ![t] = View(HandleOf[t]).rows]
    /\ UNCHANGED <<open, mutex, writer, db, txn, pc, request, results, reply,
                   calls>>

(* The steps ingest_many takes by itself once it has been called.          *)
Step(t) ==
    \/ Acquire(t) \/ Begin(t) \/ BeginFails(t)
    \/ IngestDuplicate(t) \/ IngestInsert(t) \/ IngestConflict(t)
    \/ Commit(t) \/ Return(t)

Environment ==
    \/ \E h \in Handles : Open(h) \/ Close(h) \/ Crash(h)
    \/ \E t \in Threads :
        \/ \E b \in Batches : Call(t, b)
        \/ Abort(t)
    \/ \E t \in Interruptible : Interrupt(t) \/ InterruptBegin(t)
    \/ \E t \in Readers : Read(t)

Next == Environment \/ \E t \in Threads : Step(t)

Spec == Init /\ [][Next]_vars

(* A thread that can run does run; nothing is assumed of callers, of       *)
(* interrupts and of crashes.                                              *)
FairSpec == Spec /\ \A t \in Threads : WF_vars(Step(t))

-----------------------------------------------------------------------------
(* Properties.                                                             *)

PCs == {"idle", "blocked", "locked", "writing", "committed"}
Outcomes == {"none", "ok", "invalid", "conflict", "busy", "closed", "error",
             "lost"}
Reply == [outcome : Outcomes, results : Seq(Result)]

(* Every variable has its type, and a transaction is only ever entered     *)
(* with validated events (ledger.py:202 before 205).                       *)
TypeOK ==
    /\ open \subseteq Handles
    /\ mutex \in [Handles -> Threads \union {NoThread}]
    /\ writer \in Handles \union {NoHandle}
    /\ db \in Database
    /\ txn \in Database
    /\ pc \in [Threads -> PCs]
    /\ request \in [Threads -> Seq(Event \union {Invalid})]
    /\ results \in [Threads -> Seq(Result)]
    /\ reply \in [Threads -> Reply]
    /\ snapshot \in [Threads -> Seq(Row)]
    /\ calls \in [Threads -> 0 .. MaxCalls]
    /\ \A t \in Threads : pc[t] # "idle" => request[t] \in Seq(Event)

(* At most one thread of all handles is between BEGIN and COMMIT, it holds *)
(* the _lock of its handle, and no answered call holds one, whichever way  *)
(* it ended (ledger.py:205-216).                                           *)
WriterExcludes ==
    \A t \in Threads :
        /\ mutex[HandleOf[t]] = t <=> pc[t] \in {"locked", "writing", "committed"}
        /\ pc[t] = "writing" => writer = HandleOf[t]

(* Rows are numbered without gaps and no two of them share an event id or  *)
(* a source position.                                                      *)
WellFormed(d) ==
    /\ d.seqno = Len(d.rows)
    /\ \A i \in DOMAIN d.rows : d.rows[i].ordinal = i
    /\ \A i, j \in DOMAIN d.rows :
        LET e == d.rows[i].event
            f == d.rows[j].event
        IN  e.event_id = f.event_id \/ Position(e) = Position(f) => i = j

(* Whatever batches race, roll back, crash or are interrupted, the         *)
(* committed events table has one row per identity and per source          *)
(* position, numbered 1, 2, ... (ledger.py:136-191: the lookups and the    *)
(* INSERT of one event are separate statements).                           *)
LedgerConsistent == WellFormed(db)

(* read_events never shows a row that is not committed, not even to the    *)
(* threads that share the writer's own connection, and never rows in an    *)
(* order they were not committed in (ledger.py:249 against 205).           *)
SnapshotsCommitted ==
    \A t \in Threads : IsPrefix(snapshot[t], db.rows)

(* Once a call has been answered, each of its events is in the ledger at   *)
(* the ordinal it was told, whatever crashes and rollbacks follow.         *)
AnswersDurable ==
    \A t \in Threads :
        reply[t].outcome = "ok" =>
            /\ Len(reply[t].results) = Len(request[t])
            /\ \A i \in DOMAIN request[t] :
                LET n == reply[t].results[i].ordinal
                IN  n \in DOMAIN db.rows /\ db.rows[n].event = request[t][i]

(* No two calls are both told that they were the one that added an event,  *)
(* though both may have looked it up before either added it.               *)
AcceptedOnce ==
    \A t, u \in Threads :
        reply[t].outcome = "ok" /\ reply[u].outcome = "ok" =>
            \A i \in DOMAIN reply[t].results, j \in DOMAIN reply[u].results :
                /\ reply[t].results[i].status = "accepted"
                /\ reply[u].results[j].status = "accepted"
                /\ request[t][i] = request[u][j]
                => t = u /\ i = j

(* A transaction that an interrupt left open without a thread in it holds  *)
(* no rows: closing the handle, or a later COMMIT on it, loses and adds    *)
(* nothing (ledger.py:206 is outside the try block).                       *)
OrphanIsEmpty ==
    \A h \in Handles :
        writer = h /\ mutex[h] = NoThread => txn = db

(* Committed rows are never changed, dropped or renumbered by any step,    *)
(* crashes and rollbacks included.                                         *)
AppendOnly == [][IsPrefix(db.rows, db'.rows)]_vars

(* A thread never sees the ledger shrink from one read to the next.        *)
MonotonicReads ==
    [][\A t \in Threads : IsPrefix(snapshot[t], snapshot'[t])]_vars

(* _lock and the write lock of the database are always released: by the    *)
(* answer, by a busy timeout, by a closed connection, by COMMIT or by      *)
(* ROLLBACK.  Only an interrupt right after BEGIN leaves a transaction     *)
(* open, without a thread and without rows in it (ledger.py:205-216).      *)
LocksReleased ==
    /\ \A t \in Threads : mutex[HandleOf[t]] = t ~> mutex[HandleOf[t]] # t
    /\ \A h \in Handles :
        writer = h ~> writer # h \/ (mutex[h] = NoThread /\ txn = db)

(* The ledger as its callers see it: the events committed so far, how far  *)
(* each call has got, and its answer, which a COMMIT has settled before    *)
(* the call delivers it.                                                   *)
Log == EventsOf(db.rows)

Phases ==
    [t \in Threads |->
        CASE pc[t] = "idle" -> "idle"
          [] pc[t] = "committed" -> "done"
          [] OTHER -> "pending"]

Replies ==
    [t \in Threads |->
        IF pc[t] = "committed"
        THEN [outcome |-> "none", results |-> results[t]]
        ELSE reply[t]]

(* The ledger implements the abstract store: a batch takes effect at once, *)
(* at its COMMIT, all of it or none, with the answers the batch semantics  *)
(* of EventStore prescribes, and a conflict is reported only for a batch   *)
(* that conflicts with the log of that moment (ledger.py:198-216).         *)
Store == INSTANCE EventStore WITH
    Clients <- Threads, log <- Log, phase <- Phases, reply <- Replies

ImplementsStore == Store!Spec
=============================================================================
