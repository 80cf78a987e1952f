--------------------------- MODULE ProjectedState ---------------------------
(***************************************************************************)
(* The state projector 1.0 assigns to a ledger, said of the whole ledger   *)
(* at once: counts, and for each source the event with the greatest source *)
(* sequence.  The sources depend on the set of events only, so the order   *)
(* in which they arrived cannot show in them.                              *)
(***************************************************************************)
EXTENDS CanonicalEvents

FromSource(E, s) == {e \in E : e.source_id = s}

(* Of the events of one source, the one with the greatest sequence.        *)
IsLatest(e, E) ==
    /\ e \in E
    /\ \A f \in E : f.source_sequence <= e.source_sequence

SourcesOf(E) ==
    [s \in {e.source_id : e \in E} |->
        [event_count |-> Cardinality(FromSource(E, s)),
         latest      |-> CHOOSE e \in FromSource(E, s) :
                             IsLatest(e, FromSource(E, s))]]

(* The projected state of a sequence of rows.                              *)
LastOrdinal(rows) == IF rows = <<>> THEN 0 ELSE rows[Len(rows)].ordinal

StateOf(rows) ==
    [event_count  |-> Len(rows),
     last_ordinal |-> LastOrdinal(rows),
     sources      |-> SourcesOf(ToSet(EventsOf(rows)))]

(* Rows as the ledger returns them: numbered upwards from 1 or more, one   *)
(* row per identity and per position.                                      *)
Increasing(rows) ==
    \A j \in DOMAIN rows :
        /\ rows[j].ordinal > 0
        /\ \A i \in 1 .. j - 1 : rows[i].ordinal < rows[j].ordinal

NoRepeats(rows) ==
    \A i, j \in DOMAIN rows :
        LET e == rows[i].event
            f == rows[j].event
        IN  e.event_id = f.event_id \/ Position(e) = Position(f) => i = j

LedgerRows(rows) == Increasing(rows) /\ NoRepeats(rows)
=============================================================================
