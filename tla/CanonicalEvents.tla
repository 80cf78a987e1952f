--------------------------- MODULE CanonicalEvents ---------------------------
(***************************************************************************)
(* The vocabulary shared by every module: a validated CanonicalEvent, the  *)
(* identities it carries, and what one row of the ledger keeps of it.      *)
(*                                                                         *)
(* A record stands for the canonical JSON of the event: two records are    *)
(* equal exactly when the bytes written by CanonicalEvent.canonical_json   *)
(* are equal.  Event type, version and metadata travel with the payload.   *)
(* Times are numbers: only their order matters to the code.                *)
(***************************************************************************)
EXTENDS Naturals, Sequences, FiniteSets, SequencesExt

CONSTANTS
    EventIds,       \* identities chosen by producers
    Sources,        \* producers
    Payloads,       \* payload and metadata, as canonical JSON
    Invalid         \* a record CanonicalEvent.from_mapping refuses

Event == [event_id        : EventIds,
          source_id       : Sources,
          source_sequence : Nat,
          observed_at     : Nat,
          ingested_at     : Nat,
          payload         : Payloads]

(* The events whose validation cannot fail: from_mapping refuses an        *)
(* ingestion time that precedes the observation.                           *)
OrderUnchecked(e) == TRUE           \* fault: reception may precede observation

Ordered(e) == e.ingested_at >= e.observed_at

(* UNIQUE (source_id, source_sequence)                                     *)
Position(e) == <<e.source_id, e.source_sequence>>

(* What a producer writes, and a receiver may not invent: every field but  *)
(* the reception time.                                                     *)
ProducerPart(e) == [event_id |-> e.event_id, source_id |-> e.source_id,
                    source_sequence |-> e.source_sequence,
                    observed_at |-> e.observed_at, payload |-> e.payload]

(* No two different events of S share an identity or a position.           *)
Consistent(S) ==
    \A e, f \in S :
        e.event_id = f.event_id \/ Position(e) = Position(f) => e = f

(* One row of the events table.                                            *)
Row == [ordinal : Nat, event : Event]

(* The events of a sequence of rows, in ordinal order.                     *)
EventsOf(rows) == [i \in DOMAIN rows |-> rows[i].event]

(* An answer of EventLedger.ingest: IngestResult.                          *)
Result == [status : {"accepted", "duplicate"}, ordinal : Nat]

-----------------------------------------------------------------------------
(* What ingest_many makes of a batch b offered to a log l, said at once.   *)

(* The batch can be appended: it agrees with the log and with itself.      *)
Compatible(l, b) == Consistent(ToSet(l) \union ToSet(b))

(* Position i of the batch brings an event the log did not have yet.       *)
IsFresh(l, b, i) == ~Contains(l, b[i]) /\ \A j \in 1 .. i - 1 : b[j] # b[i]

(* The events of the batch the log gains, in batch order.                  *)
Fresh(l, b) ==
    LET gained == {i \in DOMAIN b : IsFresh(l, b, i)}
        rank(i) == Cardinality({j \in gained : j <= i})
    IN  [n \in 1 .. Cardinality(gained) |->
            b[CHOOSE i \in gained : rank(i) = n]]

AnswerOf(l, b) ==
    LET after == l \o Fresh(l, b)
    IN  [i \in DOMAIN b |->
            [status  |-> IF IsFresh(l, b, i) THEN "accepted" ELSE "duplicate",
             ordinal |-> CHOOSE n \in DOMAIN after : after[n] = b[i]]]
=============================================================================
