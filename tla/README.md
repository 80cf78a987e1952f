# Verification of the edge operational evidence system

TLA+ models of the Python package in `src/src/edge_evidence/`, the TLC runs that
check them on small instances, and TLAPS proofs of what matters most for every
instance. `PROJECT.json` maps each definition to the lines it models, lists the
runs, the mutated definitions each property is known to detect, the hazards of
the code and the places where code and documents disagree.

## 1. The system

| Component | State it keeps | Operations | What is hard about it |
|---|---|---|---|
| Event ledger (`ledger.py`) | SQLite table `events`, one connection and one reentrant lock per `EventLedger` | `ingest`, `ingest_many`, `count`, `find_event`, `read_events`, `close` | several processes and threads write one file; a batch is many statements; interrupts, busy timeouts and crashes fall anywhere |
| Event contract (`event.py`) | none | `from_mapping`, `to_mapping`, `canonical_json` | two notions of equality: decoded documents and canonical bytes |
| MQTT runtime (`mqtt.py`) | six process-local counters | `ingest`, `record_disconnect`, `record_reconnect` | a delivery is a lookup and then an ingest; redelivery, restarts, clocks |
| Paho consumer (`paho_consumer.py`) | `_connected`, `_ever_connected`, `_callback_errors`, the client library's state | callbacks, `start`, `stop` | acknowledgements, persistent session, reconnection, exceptions in callbacks |
| Projector (`projection.py`) | none; folds rows into a state | `project_events`, `replay` | rows of one source arrive in any order |
| Checkpoints (`checkpoint.py`) | one JSON file, and temporary ones | `write_checkpoint`, `load_checkpoint` | several writers, failures, crashes and power loss around `os.replace`; damaged or foreign files |
| Evidence bundle (`bundle.py`) | a directory, and a temporary one | `build_bundle`, `build_campaign_bundle`, `verify_bundle` | reads a live ledger twice; check, write, rename; crashes; later alteration |
| Quality (`quality.py`) | highest sequence per source, findings | `evaluate_quality` | two passes in two orders over the same rows |
| Stream (`stream.py`) | identities and highest sequence per source | `inspect_stream` | has to agree with what the ledger and the rules say later |
| Simulator (`simulator.py`), campaign (`campaign.py`) | a fresh ledger, three counters | `generate_records`, `campaign_records`, `run_campaign` | each injected fault must be detected, and nothing else |
| Recovery (`recovery.py`) | a workspace directory with a ledger | `run_recovery_campaign`, `_crash_worker` | a killed writer, redelivery with other reception times, attempts on a used workspace |
| Historical (`historical.py`) | sequence per stream, seen identities, two output files | `qualify_historical_jsonl`, `main` | rejections must not leave traces in what is accepted; two files, one import |

How they interact: the broker calls the consumer's `_on_message`, which calls
`MqttIngestionRuntime.ingest`, which calls `find_event` and `ingest` of the
ledger, and acknowledges afterwards. `replay` and `build_bundle` call
`read_events` of a ledger that others may be writing to. `write_checkpoint` is
given the result of `replay`. The campaigns and the historical import are
command-line tools that call the components above in sequence, on ledgers of
their own; what they share with earlier runs are the directories and files they
leave behind.

What makes each component correct, in words: the ledger appends whole batches or
nothing, one row per identity and position, never changes a row and never tells
a caller something it does not keep; the runtime credits no row twice and treats
a retry as a duplicate; the consumer never acknowledges what is not settled and
never hangs silently; the projector's state depends on the set of rows only; a
bundle is there as a whole or not at all, is never replaced, and verifies only if
it is genuine; a checkpoint is always readable and what loads is what was
projected; the quality rules report exactly the gaps, regressions and runs of a
ledger, whatever the order of arrival; a campaign detects its fault and no other;
a recovered ledger reaches the state of the uninterrupted one; an import's output
can be ingested, and a report that a command has newly written describes the
events beside it.

## 2. Modules

    CanonicalEvents             events, positions, rows, what a batch does to a log
      |-- EventStore            abstract: a log to which whole batches are appended
      |-- Ledger                EventLedger over SQLite; implements EventStore
      |     `-- LedgerProofs    locks, transactions, reads
      |           `-- StoreProofs     answers; the implementation of EventStore
      |-- MqttRuntime           MqttIngestionRuntime, several processes, one log
      |     |-- RuntimeProofs   counters, credit for rows, answers, retries
      |     `-- MqttConsumer    PahoMqttConsumer, broker and connection
      |           `-- ConsumerProofs  (with RuntimeProofs) nothing lost, nothing silent
      `-- ProjectedState        the state a set of rows determines
            |-- Projection      the loop of project_events
            |     `-- Checkpoint  write_checkpoint and load_checkpoint
            |           `-- CheckpointProofs  the loop computes that state; what loads
            |-- EvidenceBundle  build_bundle and verify_bundle
            |     `-- BundleProofs    sealed, genuine, write-once
            |-- Recovery        run_recovery_campaign (with Simulator)
            `-- Historical      the historical import
                  `-- OfflineProofs   (with Recovery) both command-line tools
      |-- Simulator             generate_records
      |-- Stream                inspect_stream
      `-- Quality               evaluate_quality
            `-- Campaign        run_campaign (with Stream and Simulator)
                  `-- QualityProofs   findings, faults, the two classifiers

`MCOffline` composes Campaign, Quality, Recovery and Historical: one tool runs in
each behaviour, because they share no state, and all of their behaviours are
explored in one run.

`MC*` modules give the constants small values. Operators marked `\* fault:` are
not part of a specification: each is a plausible error in the definition after
it, and TLC finds the property named in `PROJECT.json` violated when it is used
instead.

**CanonicalEvents.** A record stands for the canonical JSON of an event: equal
records, equal bytes. Type, version and metadata travel with the payload. Times
are numbers. `Invalid` is any mapping that `from_mapping` refuses.

**EventStore** is the promise to callers: `Submit`, then `Apply` appends the
fresh events of a compatible batch in one step, then `Deliver`; or the batch is
refused as a whole. `Compatible`, `Fresh` and `AnswerOf` define its effect on the
whole batch at once.

**Ledger** is the code: `mutex` is `_lock` of each handle, `writer` SQLite's
write lock, `db` the committed table and `txn` the table as the open transaction
sees it. A call goes idle → blocked (line 205) → locked (206) → writing (207-210,
one step per event) → committed (211) → idle. `Malformed` comes before the lock
because `_coerce` does. `BeginFails` has the three ways in which `BEGIN
IMMEDIATE` raises; `Abort` is any exception in the try block; `Interrupt` and
`InterruptBegin` are a `KeyboardInterrupt` elsewhere, the latter between `BEGIN`
and `try`. `Crash` kills a process. SQLite is external: one writer, private
transactions, durable commits, and a connection that sees its own rows (`View`).
`Open` waits for the writer because the schema script contains an `INSERT OR
IGNORE`. The refinement maps "committed but not returned" to the abstract
"done"; everything between `_lock` and COMMIT is "pending".

**MqttRuntime** takes each ledger call as one step on a log, as the refinement
justifies. A delivery is `Receive` (count, map, validate), `LookUp`
(`find_event` and the comparison), `Ingest` (`ledger.ingest`, which commits and
answers, or finds a conflict) and `Count` (the answer is counted and reported).
`Raise`, when an exception none of the clauses names escapes, and `Die` may come
before each of them, also between COMMIT and the count; `uncredited` remembers
the rows this leaves without a credit. The absence of a second delivery in the
same process is the runtime's lock. `ValueOf` maps a payload's bytes to the
document Python decodes, so that two payloads may be equal for line 177 and
different for the ledger.

**MqttConsumer** adds the process around it: `link`, `toBroker` and the broker's
session (`session`, `subscribed`, `queue`, `given`). One action per callback
outcome; `handling` is the message inside `_on_message`, so connections break and
processes die while the runtime is at work. The broker never sends a message
twice on one connection and at most `Window` without acknowledgement. It may
refuse SUBSCRIBE (`BrokerRefuses`): the code has no callback for a SUBACK, so
nothing changes in the consumer. History variables `owed` and `settled` remember
what the broker took charge of and what was rejected; `interrupted` remembers
that the setup of the present session was cut off before its subscription, by a
broken connection or a refusal. It tells the two properties about the
subscription apart: `SubscriptionKept` holds for every other way to lose one.

**Projection** folds any sequence of rows, one per step. **ProjectedState** says
what the result is supposed to be, on the whole set of rows.

**EvidenceBundle** has one step for each point at which something else can
happen: the check of the target, each of the two reads, `mkdtemp`, each of nine
writes, the rename, the clean-up. A directory is a function from names to
contents; a digest is an injective function of a content. The ledger is a history
of which a growing prefix is committed, which LedgerProofs justifies
(`NeverRewritten`, `ReadCommitted`). `Alter` changes a published directory
without recomputing digests. `Valid` is `verify_bundle`.

**Checkpoint** adds writers and a file to a running projection: `mkstemp`, the
write, `fsync`, `os.replace` and the clean-up are steps, each may fail, die or
lose the power. `target` is what readers see and `durable` what a power loss may
bring back; unsynchronized content comes back garbled. A file remembers the state
its writer was given, so that a property can compare it with what loads. Damage
changes one field, the whole content or the set of fields; no accident invents
the digest of another state.

**Simulator** and **Stream** are operators: the records of a scenario, and the
findings of the boundary as a fold over records. The sequence number stands for
identity and payload, which are functions of it and the seed (two payloads of a
stream differ).

**Quality** has one step per row of the first loop and one per source of the
second. A finding is the record of what its identity binds. `DelayThreshold` is
the default of `inspect_stream` and of `QualityPolicy`, 60 seconds.
`LedgerAssumption` says that what is evaluated is what `read_events` returns:
rows in ordinal order, one per identity and per position.

**Campaign** runs a scenario through `Stream`, a ledger of its own and the
machine of `Quality`, and counts. A fresh in-memory ledger with one caller is a
sequence of events, as the refinement of EventStore justifies. `SealBundle` is
`build_campaign_bundle`, which fills a second ledger with the same records.

**Recovery** delivers a reference run, starts the child, kills it at `crash_after`
(a death anywhere else ends the campaign in failure), reopens, redelivers and
compares. `Offered` is the part of the runtime that matters here: a matching
event is offered as it was committed. The directory survives every attempt, and
another attempt may follow with other parameters.

**Historical** reads a file line by line. A line is classified by its first flaw;
"undecodable" are bytes or identities that UTF-8 cannot represent, which raise an
exception no clause names. `Replay` is the double replay, and the two outputs are
written by `WriteNew`, which may tear, fail or find the file there. `RunAgain` is
the operator: another run with the same output paths, after removing any of the
files or none.

## 3. Runs

| Run | Instance | Shows |
|---|---|---|
| `ledger` | 2 handles; threads t1 and t2 share one, t3 has the other; t2 also reads, t1 can be interrupted; batches with a conflict by identity, one by position, a repetition, an invalid record | all safety properties of the ledger and that it implements EventStore |
| `ledger_live` | 2 handles, 3 threads, 2 batches, no reads, interrupts of t1 | both locks are always released; what an interrupt leaves open holds no rows |
| `runtime` | 2 processes, one log, messages that match, conflict and are invalid, three clock readings (one before the observation), exceptions and deaths at every step | counters, credit for rows, answers, idempotent retries |
| `runtime_race` | 2 processes | **violation**: a matching redelivery can be rejected as a conflict |
| `runtime_spelling` | 1 process, 4 deliveries, two spellings of one document | **violation**: other bytes are answered as a duplicate |
| `consumer` | 3 publications of an event and a refused message, window 2, 2 losses of any kind (a broken connection, a refusal, a failure, a crash, a lost session); one clock reading | nothing acknowledged is lost, nothing is stuck silently, every message is answered or held up by a recorded failure, the subscription comes back |
| `consumer_silent` | 1 publication, 2 losses | **violation**: connected without a subscription, for ever |
| `checkpoint` | all sequences of up to 3 rows of 4 events, ordinals 0 to 3; 2 writers, 2 calls, 1 damage between writes | the fold is the reference, refusal is exact; the file always loads and tells what was projected |
| `bundle` | 2 builders, histories of 2 rows (one with a gap in its ordinals), 1 alteration | sealed or absent, write-once, genuine if valid; nobody gives way to a loser |
| `bundle_torn` | the same | **violation**: a new bundle may fail its verification |
| `offline` | 8 scenarios of 8 records; all consistent ledgers of up to 5 rows of 6 events, 3 evaluation times; recovery of 5 events and 3 attempts; all inputs of up to 3 lines of 9, 2 imports | findings are exact, faults detected, classifiers agree, recovery converges, imports can be ingested and, where no output stood before, are described by their report |
| `quality_stale` | the same, smaller | **violation**: a source observed recently is called stale |

### Bounds and why they are enough

- `MaxCalls` (Ledger) bounds the calls of a thread: one. Three threads on two
  handles are the smallest system with a thread that shares the writer's
  connection and one that competes through SQLite; a retry is the same batch
  from another thread, after the first call failed, was lost or was answered.
  The proofs have no such bound.
- `MaxReceived` (MqttRuntime): two deliveries to each process let a redelivery
  follow, or race with, a first delivery in either process, before or after a
  restart (a new process starts counting again).
- `MaxPublished`, `MaxLosses`, `Window` (MqttConsumer): the window has to be
  smaller than the number of messages for a full window to matter; two losses
  let the consequences of one meet another. The clock stands still here: what
  a clock behind the observation leads to, a rejection, the refused message
  leads to as well, and the run `runtime` has the clocks.
- `MaxAlterations` (EvidenceBundle): one; the digests are independent of each
  other, so more alterations do not help one another.
- `MaxWrites` (Checkpoint): two calls, by one writer or both, so that one can
  overtake, replace or outlive the other; a third would meet the same file.
- `MaxRows` (Quality): five rows of a source allow two gaps, a run of three
  within a longer sequence, and a regression inside a run. The six events have
  gaps of one and two positions, equal payloads, a lag at and above the
  threshold and a clock that stepped back; a second source has one event.
- `MaxAttempts` (Recovery): three attempts are one that fails, one that meets
  what it left, and one after that; requests include the refused boundaries.
- `MaxLines`, `MaxImports` (Historical): three lines are an accepted one, a flaw,
  and one after it; two imports are what two files need to be mixed up.
- Deadlock is checked in the runs of the ledger and of the runtime. It is not in
  the others: a consumer without publications waits, a finished projection and
  finished builders stop, a command-line tool ends, and a consumer stops when its
bounds are used up.

### Fairness

- `Ledger!FairSpec`: a thread that can take a step of `ingest_many` takes one;
  threads are scheduled, SQLite answers or times out. No fairness for callers,
  interrupts, aborts, opening, closing and crashes. A thread waiting for `BEGIN
  IMMEDIATE` can always fail with a busy timeout, so weak fairness is enough.
- `MqttConsumer!FairSpec`: Paho's loop thread runs its callbacks and reconnects
  (`reconnect_on_failure=True`), the broker processes packets, the application
  thread returns from its waits. No fairness for publications, failures, starts
  and stops: `Answered` allows an application that has been stopped.
- No other run needs fairness. The tools are sequential and their properties are
  about every moment or about their end, which TLC reaches in every scenario.

## 4. Proofs

Eight modules prove, with no bound on the instance, every invariant and every
action property of the passing runs, and the refinement. Only liveness is left
to TLC. Each has one inductive invariant, one lemma per action that it is kept,
and a short theorem per property. TLC checked each invariant on the instances of
the runs, or smaller ones, before it was proved.

**LedgerProofs**, from `HandleAssumption` and `BatchAssumption` (threads have
handles, null values are not among them, batches are sequences of events or
`Invalid`). The invariant is `Inv == TypeOK /\ WriterExcludes /\ TransactionInv`.
`WriterExcludes` says which thread has which lock at each point of the call.
`LedgerConsistent` alone is not inductive: what COMMIT publishes is `txn`, so
`TransactionInv` adds that an open transaction is well formed, extends the
committed rows, and has rows of its own only while a thread of its handle is in
the loop. The insertion lemma `InsertWellFormed` uses that both lookups and the
INSERT see one and the same table, which is what the write lock gives.
`TypeCorrect`, `Exclusion`, `Consistency`, `OrphansHarmless`, `NeverRewritten`
(each step keeps the table or replaces it by a transaction that extends it),
`ReadCommitted` and `ReadsMonotonic` follow: the reader holds `_lock`, so it finds
no transaction with rows of its own on its connection.

**StoreProofs** goes on from there. `LoopInv` says what a half-finished batch has
done: the transaction is the log followed by the fresh events of the part
already read, and each answer so far has the status and the ordinal of its row.
`AnswersInv` says that answers exist only for whole committed batches and are
true of the committed table; `AcceptedInv` that two "accepted" answers are about
two events. With them:

- `Durability` and `AddedByOne` are `AnswersDurable` and `AcceptedOnce`.
- `Refinement` is `ImplementsStore`: COMMIT is the abstract `Apply`, the return
  `Deliver`, and every other step is a stutter, a `Submit` or a refusal. The two
  obligations that carry it are that the batch a COMMIT publishes is compatible
  with the log (`CommitCompatible`: all its events are rows of one well-formed
  table) and that a conflict is reported only of a batch that is not
  (`ConflictIncompatible`: the row found is of the log or of the batch itself).
  The code decides row by row; that this amounts to `Compatible`, `Fresh` and
  `AnswerOf` of the whole batch is the content of `FreshNext`.

**RuntimeProofs**, for any processes, messages and clocks. `Sound` relates one
runtime to the log: its counters balance, its last answer names a row, a retry
known to be one is answered as a duplicate, what it has in progress fits what it
has read, and an answer it has not counted yet names a row (`AnswerAt`). It mentions no other runtime, and the log only grows
(`LogExtends`), so a step of one runtime keeps `Sound` of all others
(`SoundKept`): that is the whole interference argument. `CountedOnce`,
`ReportedRow` and `Idempotence` follow. `CreditedOnce` is about the sum of all
processes' credits: what a process has counted as accepted, and the row whose
answer it still holds. Together with the counts lost in restarts and the rows
whose delivery ended between COMMIT and its count, the sum is the length of the
log: `Count` turns a credit that is due into one that is counted, `Raise` and
`Die` write it off, and no other step touches either. The sum is a fold over the
set of runtimes. That a sum
exists, is unique and changes by d when one term does (`SumExists`, `SumsAgree`,
`SumChange`) is induction over finite sets, done as a proof by smallest
counterexample: strict inclusion is well founded on the subsets of a finite set,
so a set of subsets for which the claim fails would have a least element
(`SmallestSubset`). `ProcessAssumption`, that there are finitely many processes,
is there for it: over an infinite set the sum means nothing.

**ConsumerProofs** proves that the whole consumer, broker and connection keep
`RuntimeInv` (`RuntimeKept`), so everything above holds inside callbacks that
connections and processes may leave at any point. `NothingLost` needs three
things more: what is sent or under way belongs to a live connection
(`OnlyWhileUp`), identifiers are unique and in order (`MidsIncrease`), and an
acknowledgement on its way is of a message that is done with (`AcksAreDue`), which
in turn needs `InHand`, on what the runtime has decided of the message being
handled. `NothingLost` is about documents, not bytes: a message answered as
a duplicate of another spelling (finding 2) is acknowledged although its own
bytes are nowhere, and while the property spoke of bytes, its proof failed exactly
there. `StuckIsReported` (`NeverSilent`) is inductive with the same conjunction.

**BundleProofs**. A builder's first read, its projection and its findings
determine all nine files (`Whole`). `WrittenInOrder`: a temporary directory holds
the first n files of such a bundle; `OnePublisher`: the target stems from the one
builder that returned, up to alterations that garble files; `ReadsArePrefixes`:
both reads are committed prefixes, not necessarily the same. `Sealed`,
`SuccessIsPublication`, `NoLeftovers`, `OwnFailuresOnly` and `NeverReplaced`
(`WriteOnce`) follow. `Genuine` (`ValidIsGenuine`) is the interesting one
(`ValidUnaltered`): the manifest and the checksums cannot both be garbled, for
each would then have to equal the other; whichever is intact vouches for every
other file. A bundle that verifies is therefore as it was written, and, since
`verify_bundle` compares the rows with the event count of the state, two reads
that saw different prefixes cannot pass.

**CheckpointProofs** begins with the loop of Projection: for every sequence of
rows it computes what the set of rows determines (`OrderIrrelevant`) and refuses
exactly the sequences that are out of order (`RefusalExact`). The invariant
`Fold` says of each source that `latest` is one of its events with no greater
sequence seen and that the count is the number of its events; when positions are
unique, that event is the only one, so it is the one the definition chooses.
This loop runs beside the writers of a checkpoint, of which `TemporaryFits` says
what the temporary file holds at each step: in particular it is whole and synchronized before `os.replace`. So
`target` and `durable` are absent, whole, or damaged from outside, with either
the state or its digest still as written (`DamagedFile`). `NeverUnreadable` and
`LoadedIsGenuine` follow; the latter says that what loads is the state of some
first rows of the ledger, not just one that was passed in.

**OfflineProofs**. A recovery campaign of any size: at every point the ledger is
a prefix of the events as they arrived first, before or after the downtime
(`RecoveryInv`), hence `Recovers` (`Converges`) and `VerifiedExact`
(`RedeliveryExact`). The import, for any files: `Ingestible`
(`QualifiedIngestible`) from the correspondence of the counters per stream with
the events accepted, and `ReportMatches` (`ReportDescribesEvents`) from who owns
the files of an import that met no earlier output; of others nothing is claimed. `RequestAssumption` and `ImportAssumption` say
that requests are pairs of integers and inputs sequences of classified lines.

**QualityProofs**, for any ledger in any order of arrival, any policy, and all
eight scenarios. The model computes with three folds over sequences: the runs of
equal payloads, the findings of `inspect_stream`, and the rows of a sealed
ledger. `FoldSteps` shows that each of them makes one step per position, by
`Induction`: a set of numbers that holds 0 and every successor of a member holds
all, for otherwise the rest would have a least member (`LeastIn`).

- `EvaluationIsExact` (`FindingsExact`). `QualityInv` says of a half-finished
  evaluation that `highest` is, for each source met, the row with the highest
  sequence so far, and that the findings are those of the rows judged and of the
  sources judged, no more and no fewer. What the rules find of a source is then a
  question about its rows in order (`SortedRows`: counting the rows before each
  row numbers them without gaps or ties). The gaps between neighbours are all
  missing positions, each once (`GapsOf`); the runs of `ExtendRuns` are the
  slices that cannot be extended (`RunsOf`), and these are the maximal sets of
  the definition (`MaximalSlice`).
- `ClassifiersAlwaysAgree` (`ClassifiersAgree`). The fold of the boundary and the
  first loop keep the same highest sequence per source (`SeenStep`), so of the
  rows of a ledger they report the same (`StreamOf`). That the counters of a
  campaign agree with the boundary too needs `CampaignInv`: the ledger has each
  event offered once and in the order offered, and each record offered is counted
  as what it is.
- `FaultsDetected` (`FaultDetected`), from `DetectingPolicy`: delay and staleness
  thresholds of 1 to 119 seconds and runs of two or three. A campaign always runs
  under 60, 60 and 3; the bounds are where a plain record (one second late) or a
  fault (two minutes, three payloads) would be misjudged, so the theorem says how
  far the policy can be tuned before the campaign stops being a test of it. The
  argument follows the records from the generator (`ScenarioRecords`) through the
  boundary (`BoundaryOfScenario`) and the ledger (`LoggedScenario`) to the rows in
  order (`OrderedScenario`). `SealInv`, which says that the second ledger filled
  for a bundle equals the first, speaks of all functions and is the one part of
  an invariant that TLC cannot evaluate.

`CampaignAssumption` says that the plain records of the simulator are valid
events and `Invalid` is not one.

Only model-checked: liveness (`LocksReleased`, `Answered`, `SubscriptionKept`),
because fairness is out of the proof system's reach.

The library's induction theorems take an operator as a parameter, which the
provers cannot instantiate. Where a proof needs induction it argues from a
smallest counterexample in a well-founded set, as `SmallestSubset` does for
finite sets and `Induction` for numbers.

## 5. Where code and documents disagree

1. *Redelivery race* (`runtime_race`, mqtt.py:171): lookup and ingest are two
   ledger calls. If another process commits the message in between, the retry
   is rejected as an identity conflict, and acknowledged.
2. *Spelling* (`runtime_spelling`, mqtt.py:177): documents are compared with
   Python's `==`, not by their bytes.
3. *Lost subscription* (`consumer_silent`, paho_consumer.py:150): a session may
   be present without the subscription, and a refused SUBSCRIBE is not noticed.
4. *Torn bundle* (`bundle_torn`, bundle.py:205-206): two reads of a live ledger.
   `verify_bundle` always notices (`ValidIsGenuine`).
5. *Stale source* (`quality_stale`, quality.py:224): staleness is judged by the
   row with the highest sequence, not by the latest observation.

More places deserve a reader's attention, but no document decides them, or the
documents can be read either way. `latest_ingested_at` is part of the projected state
(projection.py:77), so two ledgers with the same producer events, received at
different times, have different states; docs/projector-contract-v1.md:24 holds
for event sets that include their reception times. And `verify_bundle` lists
regular files only (bundle.py:399), so a directory added to a bundle is not an
additional file to it; `FilesOf` says so. An older checkpoint may replace a newer
one, since whoever calls `os.replace` last wins. `source_count` of an import
counts a stream whose lines were all rejected, because reading the defaultdict
makes an entry (historical.py:210). One undecodable line ends an import
(historical.py:185), and after a failed import, removing only the events file
lets the next one leave its events beside the old report, though it raises
(historical.py:304-305). `generate_records` raises an IndexError for the scenario
"reordered" with a count of 2 (simulator.py:86). A checkpoint that is not UTF-8 or
holds NaN is refused with another exception than CheckpointError
(checkpoint.py:74-75).

## 6. Not modelled

- Damaged storage: digest mismatches and schema versions (errors that end a call
  without changing anything).
- `_on_connect` with a refused connection and `on_connect_fail`: they count and
  return. TLS configuration.
- Readers of `metrics` without the runtime's lock: no property tells their
  copies apart.
- Wording of reports, JSON layout, random values, the parsing of command lines
  and the files the simulator and the campaign print their results to.
- The field-by-field checks of documents inside `verify_bundle`: `Parsed` is one
  predicate, since a bundle in the model is well formed or garbled.
- `about.py` and `__init__.py` (constants and re-exports), broker and TLS
  configuration, continuous integration and JSON schemas: nothing that runs.

## 7. Plan

Every module that changes state is modelled, and every invariant and action
property of the passing runs is proved. What could follow:

1. The hazards without a property in `PROJECT.json`: `start` giving up while
   `_on_connect` succeeds, and readers of the metrics, would need the consumer's
   waits and the copying of the counters as steps.
2. The field-by-field checks of `verify_bundle` as a predicate on documents, which
   would turn `Parsed` into a definition.
3. A refinement of Projection and Quality by one pass over the rows: both keep a
   row per source, chosen by its sequence, and could share an abstract module.
