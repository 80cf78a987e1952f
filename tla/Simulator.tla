------------------------------ MODULE Simulator ------------------------------
(***************************************************************************)
(* generate_records: the seeded synthetic stream of one source and the     *)
(* fault a scenario puts in the middle of it.  Times are seconds after     *)
(* start_at.  The identity and the payload of an event are functions of    *)
(* the seed and the sequence number: the number stands for both, as two    *)
(* payloads of one stream differ.                                          *)
(***************************************************************************)
EXTENDS CanonicalEvents

CONSTANT SimulatedSource        \* source_id

IntervalSeconds == 10

SimulatedEvent(sequence) ==
    LET observed == sequence * IntervalSeconds
    IN  [event_id        |-> sequence,
         source_id       |-> SimulatedSource,
         source_sequence |-> sequence,
         observed_at     |-> observed,
         ingested_at     |-> observed + 1,
         payload         |-> sequence]

Baseline(count) == [n \in 1 .. count |-> SimulatedEvent(n - 1)]

(* records[count // 2]                                                     *)
Pivot(count) == (count \div 2) + 1

(* "reordered" needs a record after the pivot: the code fails with an      *)
(* IndexError for a count of 2.                                            *)
GenerateRecords(count, scenario) ==
    LET records == Baseline(count)
        p == Pivot(count)
    IN  CASE scenario = "baseline"  -> records
          [] scenario = "delayed"   ->
                [records EXCEPT ![p].ingested_at = records[p].observed_at + 120]
          [] scenario = "duplicate" -> InsertAt(records, p + 1, records[p])
          [] scenario = "reordered" ->
                [records EXCEPT ![p] = records[p + 1], ![p + 1] = records[p]]
          [] scenario = "malformed" -> ReplaceAt(records, p, Invalid)
=============================================================================
