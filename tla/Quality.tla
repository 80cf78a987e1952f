------------------------------- MODULE Quality -------------------------------
(***************************************************************************)
(* evaluate_quality: one pass over the rows in append order, then one pass *)
(* over each source in order of its sequence numbers.  A finding is the    *)
(* record of what its identity binds; the tuple of findings is sorted by   *)
(* that identity at the end, so it is a set here.                          *)
(***************************************************************************)
EXTENDS ProjectedState

CONSTANTS
    Ledgers,            \* the sequences of rows that are evaluated
    EvaluationTimes,    \* as_of
    DelayThreshold,     \* delay_threshold_seconds
    StaleAfter,         \* stale_after_seconds
    FrozenRunLength     \* frozen_run_length

ASSUME PolicyAssumption ==
    /\ DelayThreshold \in Nat /\ StaleAfter \in Nat
    /\ FrozenRunLength \in Nat /\ FrozenRunLength >= 2

ASSUME LedgerAssumption == \A l \in Ledgers : l \in Seq(Row) /\ LedgerRows(l)

VARIABLES
    stored,     \* stored_events
    as_of,
    judged,     \* how many rows the first loop has seen
    highest,    \* highest_in_append_order
    pending,    \* the sources of by_source the second loop has not reached
    findings

qualityVars == <<stored, as_of, judged, highest, pending, findings>>

NoRows == [s \in {} |-> <<>>]

QualityIdle ==
    /\ stored = <<>> /\ as_of = 0 /\ judged = 0
    /\ highest = NoRows /\ pending = {} /\ findings = {}

QualityInit ==
    /\ stored \in Ledgers /\ as_of \in EvaluationTimes
    /\ judged = 0 /\ highest = NoRows /\ pending = {} /\ findings = {}

(* The call of evaluate_quality by another component.                      *)
Evaluate(rows, at) ==
    /\ stored' = rows /\ as_of' = at
    /\ judged' = 0 /\ highest' = NoRows /\ pending' = {} /\ findings' = {}

Finding(code, support, evidence) ==
    [code |-> code, support |-> support, evidence |-> evidence]

Lag(e) == e.ingested_at - e.observed_at

DelayFindings(row) ==
    IF Lag(row.event) > DelayThreshold
    THEN {Finding("delayed_arrival", <<row>>, <<Lag(row.event)>>)} ELSE {}

(* highest_in_append_order.get(source_id), as a set.                       *)
HighestBefore(row) ==
    {highest[s] : s \in DOMAIN highest \intersect {row.event.source_id}}

RegressionFindings(row) ==
    {Finding("source_sequence_regression", <<prior, row>>,
             <<row.event.source_sequence, prior.event.source_sequence>>) :
        prior \in {prior \in HighestBefore(row) :
            row.event.source_sequence < prior.event.source_sequence}}

(* The first loop: arrival order.                                          *)
JudgeRow ==
    /\ judged < Len(stored)
    /\ LET row == stored[judged + 1]
           e == row.event
       IN  /\ findings' = findings \union DelayFindings(row) \union RegressionFindings(row)
           /\ highest' =
                IF \E prior \in HighestBefore(row) :
                        prior.event.source_sequence >= e.source_sequence
                THEN highest
                ELSE [s \in DOMAIN highest \union {e.source_id} |->
                        IF s = e.source_id THEN row ELSE highest[s]]
           /\ pending' = pending \union {e.source_id}
    /\ judged' = judged + 1
    /\ UNCHANGED <<stored, as_of>>

(* sorted(source_rows, key=source_sequence)                                *)
RowsOf(s) == {row \in ToSet(stored) : row.event.source_id = s}

OrderedByArrival(s) ==      \* fault: the rows are left in append order
    [n \in 1 .. Cardinality(RowsOf(s)) |->
        CHOOSE row \in RowsOf(s) :
            Cardinality({r \in RowsOf(s) : r.ordinal < row.ordinal}) = n - 1]

OrderedRows(s) ==
    LET before(row) == {r \in RowsOf(s) :
                           r.event.source_sequence < row.event.source_sequence}
    IN  [n \in 1 .. Cardinality(RowsOf(s)) |->
            CHOOSE row \in RowsOf(s) : Cardinality(before(row)) = n - 1]

GapFindingsAny(ordered) ==  \* fault: neighbours without a gap are reported
    {Finding("source_sequence_gap", <<ordered[i], ordered[i + 1]>>, <<0, 0>>) :
        i \in 1 .. Len(ordered) - 1}

GapFindings(ordered) ==
    LET left(i) == ordered[i].event.source_sequence
        right(i) == ordered[i + 1].event.source_sequence
    IN  {Finding("source_sequence_gap", <<ordered[i], ordered[i + 1]>>,
                 <<left(i) + 1, right(i) - 1>>) :
            i \in {i \in 1 .. Len(ordered) - 1 : right(i) > left(i) + 1}}

(* The runs of equal payloads: the current run grows, or a new one begins. *)
ExtendRuns(runs, row) ==
    IF runs # <<>> /\ Last(Last(runs)).event.payload = row.event.payload
    THEN Append(Front(runs), Append(Last(runs), row))
    ELSE Append(runs, <<row>>)

FrozenFindings(ordered) ==
    {Finding("repeated_payload_run", run, <<Len(run)>>) :
        run \in {run \in ToSet(FoldLeft(ExtendRuns, <<>>, ordered)) :
                    Len(run) >= FrozenRunLength}}

StaleFindings(ordered) ==
    LET latest == Last(ordered)
    IN  IF as_of > latest.event.observed_at + StaleAfter
        THEN {Finding("stale_source", <<latest>>,
                      <<as_of - latest.event.observed_at>>)} ELSE {}

(* The second loop: one source.  The order of the sources cannot show.     *)
JudgeSource ==
    /\ judged = Len(stored) /\ pending # {}
    /\ LET s == CHOOSE s \in pending : TRUE
           ordered == OrderedRows(s)
       IN  /\ findings' = findings \union GapFindings(ordered)
                \union FrozenFindings(ordered) \union StaleFindings(ordered)
           /\ pending' = pending \ {s}
    /\ UNCHANGED <<stored, as_of, judged, highest>>

QualityNext == JudgeRow \/ JudgeSource

Evaluated == judged = Len(stored) /\ pending = {}

-----------------------------------------------------------------------------
(* Properties.                                                             *)

OfCode(code) == {f \in findings : f.code = code}
FindingSource(f) == f.support[1].event.source_id
SourcesStored == {row.event.source_id : row \in ToSet(stored)}
SequencesOf(s) == {row.event.source_sequence : row \in RowsOf(s)}

(* Every missing position of a source is in exactly one gap finding, and   *)
(* no position that has evidence is in one.                                *)
GapsComplete ==
    \A s \in SourcesStored :
        LET gaps == {f \in OfCode("source_sequence_gap") : FindingSource(f) = s}
            span(f) == f.evidence[1] .. f.evidence[2]
        IN  /\ UNION {span(f) : f \in gaps} =
                   (Min(SequencesOf(s)) .. Max(SequencesOf(s))) \ SequencesOf(s)
            /\ \A f, g \in gaps : f # g => span(f) \intersect span(g) = {}

(* A row is a regression exactly if a row of its source with a higher      *)
(* sequence was appended before it, and the finding names the highest.     *)
RegressionsWitnessed ==
    LET earlier(row) == {prior \in RowsOf(row.event.source_id) :
                            /\ prior.ordinal < row.ordinal
                            /\ prior.event.source_sequence > row.event.source_sequence}
        witnesses(row) == {f.support[1] : f \in
            {f \in OfCode("source_sequence_regression") : f.support[2] = row}}
    IN  \A row \in ToSet(stored) :
            witnesses(row) =
                {prior \in earlier(row) : \A other \in earlier(row) :
                    other.event.source_sequence <= prior.event.source_sequence}

(* The frozen runs are the maximal sets of FrozenRunLength or more rows of *)
(* one source with one payload and no other row of it in between.          *)
RunsMaximal ==
    \A s \in SourcesStored :
        LET between(a, b, c) ==
                /\ a.event.source_sequence < b.event.source_sequence
                /\ b.event.source_sequence < c.event.source_sequence
            uniform(X) ==
                /\ \A a, c \in X : a.event.payload = c.event.payload
                /\ \A a, c \in X, b \in RowsOf(s) : between(a, b, c) => b \in X
            maximal(X) ==
                uniform(X) /\ \A b \in RowsOf(s) \ X : ~uniform(X \union {b})
        IN  {ToSet(f.support) : f \in
                {f \in OfCode("repeated_payload_run") : FindingSource(f) = s}} =
            {X \in SUBSET RowsOf(s) : Cardinality(X) >= FrozenRunLength /\ maximal(X)}

(* When an evaluation ends, its gaps, regressions and frozen runs are      *)
(* exactly those of the ledger, whatever order the rows were appended in   *)
(* (quality.py:132-222).                                                   *)
FindingsExact ==
    Evaluated => GapsComplete /\ RegressionsWitnessed /\ RunsMaximal

(* docs/quality-policy-v1.md:17 and quality.py:235 say of stale_source: no *)
(* recent observation at as_of.  So every row of a source found stale is   *)
(* older than the policy allows.                                           *)
StaleHasNoRecent ==
    \A f \in OfCode("stale_source") : \A row \in RowsOf(FindingSource(f)) :
        as_of > row.event.observed_at + StaleAfter
=============================================================================
