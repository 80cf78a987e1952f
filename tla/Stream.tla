------------------------------- MODULE Stream -------------------------------
(***************************************************************************)
(* inspect_stream: the boundary classifier, which reads records one by one *)
(* before anything is persisted.                                           *)
(***************************************************************************)
EXTENDS CanonicalEvents

(* last_sequence[source] = max(event.source_sequence, last_sequence.get)   *)
HighWaterLast(e, last) == e.source_sequence     \* fault: the last, not the highest

HighWater(e, last) ==
    IF e.source_id \in DOMAIN last THEN Max({e.source_sequence, last[e.source_id]})
    ELSE e.source_sequence

Found(code, index, e) == [code |-> code, record_index |-> index, event |-> e]

InspectRecord(seen, index, record, delay_threshold) ==
    LET found(code) == Found(code, index, record)
        accept ==
            [ids |-> seen.ids \union {record.event_id},
             last |-> [s \in DOMAIN seen.last \union {record.source_id} |->
                IF s = record.source_id THEN HighWater(record, seen.last)
                ELSE seen.last[s]],
             findings |-> seen.findings
                \union {found("source_sequence_regression") : s \in
                    {s \in DOMAIN seen.last : s = record.source_id
                        /\ record.source_sequence <= seen.last[s]}}
                \union (IF record.ingested_at > record.observed_at + delay_threshold
                    THEN {found("delayed_arrival")} ELSE {})]
    IN  CASE record = Invalid ->
                [seen EXCEPT !.findings = @ \union {found("invalid_event")}]
          [] record # Invalid /\ record.event_id \in seen.ids ->
                [seen EXCEPT !.findings = @ \union {found("duplicate_event_id")}]
          [] OTHER -> accept

(* The findings of a sequence of records.                                  *)
InspectStream(records, delay_threshold) ==
    FoldLeftDomain(LAMBDA seen, i :
                        InspectRecord(seen, i, records[i], delay_threshold),
                   [ids |-> {}, last |-> [s \in {} |-> 0], findings |-> {}],
                   records).findings
=============================================================================
