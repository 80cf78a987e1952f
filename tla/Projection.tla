----------------------------- MODULE Projection -----------------------------
(***************************************************************************)
(* project_events: the loop that folds ledger rows into the operational    *)
(* state, one row at a time.  The rows may be any sequence: the function   *)
(* is given an iterable, and refuses ordinals that do not increase.        *)
(***************************************************************************)
EXTENDS ProjectedState

CONSTANTS
    Inputs,         \* the sequences of rows that are projected
    NoEvent

ASSUME InputAssumption ==
    /\ Inputs \subseteq Seq(Row)
    /\ NoEvent \notin Event

VARIABLES
    rows,           \* stored_events
    next,           \* how many of them the loop has consumed
    state,          \* event_count, last_ordinal and sources
    status          \* "running", "done" or "failed" (ProjectionError)

vars == <<rows, next, state, status>>

NoSource == [s \in {} |-> NoEvent]
EmptyState == [event_count |-> 0, last_ordinal |-> 0, sources |-> NoSource]
EmptySource == [event_count |-> 0, latest |-> NoEvent]

Init ==
    /\ rows \in Inputs
    /\ next = 0
    /\ state = EmptyState
    /\ status = "running"

(* sources.setdefault                                                      *)
SourceOf(sources, s) == IF s \in DOMAIN sources THEN sources[s] ELSE EmptySource

(* latest_sequence is None or event.source_sequence > latest_sequence      *)
SupersedesByArrival(e, latest) == TRUE      \* fault: the last one to arrive wins

Supersedes(e, latest) ==
    latest = NoEvent \/ e.source_sequence > latest.source_sequence

UpdatedCountOnly(source, e) ==      \* fault: latest is never recorded
    [source EXCEPT !.event_count = @ + 1]

Updated(source, e) ==
    [event_count |-> source.event_count + 1,
     latest      |-> IF Supersedes(e, source.latest) THEN e ELSE source.latest]

Apply(st, row) ==
    LET e == row.event
        new == Updated(SourceOf(st.sources, e.source_id), e)
    IN  [event_count  |-> st.event_count + 1,
         last_ordinal |-> row.ordinal,
         sources      |-> [s \in DOMAIN st.sources \union {e.source_id} |->
                              IF s = e.source_id THEN new ELSE st.sources[s]]]

(* The body of the loop.                                                   *)
OutOfOrderEqual(row, st) == row.ordinal < st.last_ordinal   \* fault: repeats pass

OutOfOrder(row, st) == row.ordinal <= st.last_ordinal

ApplyNext ==
    /\ status = "running" /\ next < Len(rows)
    /\ ~OutOfOrder(rows[next + 1], state)
    /\ state' = Apply(state, rows[next + 1])
    /\ next' = next + 1
    /\ UNCHANGED <<rows, status>>

Refuse ==
    /\ status = "running" /\ next < Len(rows)
    /\ OutOfOrder(rows[next + 1], state)
    /\ status' = "failed"
    /\ UNCHANGED <<rows, next, state>>

Finish ==
    /\ status = "running" /\ next = Len(rows)
    /\ status' = "done"
    /\ UNCHANGED <<rows, next, state>>

Next == ApplyNext \/ Refuse \/ Finish

Spec == Init /\ [][Next]_vars

-----------------------------------------------------------------------------
(* Properties.                                                             *)

Consumed == SubSeq(rows, 1, next)

SourceState == [event_count : Nat, latest : Event \union {NoEvent}]

TypeOK ==
    /\ rows \in Seq(Row)
    /\ next \in 0 .. Len(rows)
    /\ state.event_count \in Nat
    /\ state.last_ordinal \in Nat
    /\ DOMAIN state.sources \subseteq Sources
    /\ \A s \in DOMAIN state.sources :
        state.sources[s] \in SourceState /\ state.sources[s].latest # NoEvent
    /\ status \in {"running", "done", "failed"}

(* What the loop has computed after any number of rows is the state that   *)
(* the set of those rows determines: which event is a source's latest does *)
(* not depend on the order of arrival (projection.py:51-82).               *)
StateOfConsumed ==
    NoRepeats(rows) => state = StateOf(Consumed)

(* A projection is only refused when two rows are out of ordinal order,    *)
(* and then always: none is dropped or counted twice (projection.py:52).   *)
RefusedIffDisordered ==
    /\ status = "failed" => ~Increasing(rows)
    /\ status = "done" => Increasing(rows)
=============================================================================
