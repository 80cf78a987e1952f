-------------------------- MODULE CheckpointProofs --------------------------
(***************************************************************************)
(* Proofs about Projection and Checkpoint.                                 *)
(*   - What project_events computes, for every sequence of rows: the loop  *)
(*     may be given any number of rows, over any events, in any order.     *)
(*   - What loads, for any number of writers and calls and for any rows:   *)
(*     whatever dies, fails or is damaged, the file at the path loads or   *)
(*     is refused for damage, and what loads is a state the projector      *)
(*     computed.  The loop runs beside the writers, so its invariant is    *)
(*     half of the one of the files.                                       *)
(***************************************************************************)
EXTENDS Checkpoint, FiniteSetTheorems, SequenceTheorems, TLAPS

-----------------------------------------------------------------------------
(* The loop of project_events.                                             *)

(* The events of the first n rows.                                         *)
Seen(n) == {rows[i].event : i \in 1 .. n}

LastSeen == IF next = 0 THEN 0 ELSE rows[next].ordinal

(* Ordinals of the rows consumed are positive and increase.                *)
InOrder(n) ==
    \A j \in 1 .. n :
        /\ rows[j].ordinal > 0
        /\ \A i \in 1 .. j - 1 : rows[i].ordinal < rows[j].ordinal

(* The strengthening: the counts and the ordinal are those of the rows     *)
(* consumed, each source's latest is one of its events with no greater     *)
(* sequence seen, and its count is the number of its events.               *)
SourceFold(s) ==
    /\ IsLatest(state.sources[s].latest, FromSource(Seen(next), s))
    /\ NoRepeats(rows) =>
        state.sources[s].event_count = Cardinality(FromSource(Seen(next), s))

Fold ==
    /\ state = [event_count |-> next, last_ordinal |-> LastSeen, sources |-> state.sources]
    /\ state.sources \in [{e.source_id : e \in Seen(next)} -> SourceState]
    /\ \A s \in DOMAIN state.sources : SourceFold(s)
    /\ IsFiniteSet(Seen(next))
    /\ InOrder(next)

Outcome ==
    /\ status = "failed" => next < Len(rows) /\ OutOfOrder(rows[next + 1], state)
    /\ status = "done" => next = Len(rows)

IInv == TypeOK /\ Fold /\ Outcome

-----------------------------------------------------------------------------
(* Rows, and the events of a prefix of them.                               *)
LEMMA RowFacts ==
    ASSUME NEW r \in Seq(Row), NEW i \in 1 .. Len(r)
    PROVE  /\ r[i] \in Row /\ r[i].ordinal \in Nat /\ r[i].event \in Event
           /\ r[i].event.source_id \in Sources
           /\ r[i].event.source_sequence \in Nat
<1>1. r[i] \in Row
  OBVIOUS
<1>2. r[i].event \in Event /\ r[i].ordinal \in Nat
  BY <1>1 DEF Row
<1> QED
  BY <1>1, <1>2 DEF Event

(* The events of the first n rows, as the reference definition has them.   *)
LEMMA SeenIsPrefix ==
    ASSUME TypeOK
    PROVE  /\ Len(Consumed) = next
           /\ \A i \in 1 .. next : Consumed[i] = rows[i]
           /\ ToSet(EventsOf(Consumed)) = Seen(next)
<1>1. rows \in Seq(Row) /\ next \in 0 .. Len(rows)
  BY DEF TypeOK
<1>2. Len(Consumed) = next /\ \A i \in 1 .. next : Consumed[i] = rows[i]
  BY <1>1 DEF Consumed
<1>3. DOMAIN Consumed = 1 .. next
  BY <1>1, <1>2 DEF Consumed
<1>4. EventsOf(Consumed) = [i \in 1 .. next |-> rows[i].event]
  BY <1>2, <1>3 DEF EventsOf
<1>5. ToSet(EventsOf(Consumed)) = Seen(next)
  BY <1>4 DEF ToSet, Seen
<1> QED
  BY <1>2, <1>5

(* What one more row adds to the events seen, and to those of each source. *)
LEMMA SeenGrows ==
    ASSUME NEW n \in Nat, NEW s
    PROVE  /\ Seen(n + 1) = Seen(n) \union {rows[n + 1].event}
           /\ rows[n + 1].event.source_id = s =>
                FromSource(Seen(n + 1), s)
                    = FromSource(Seen(n), s) \union {rows[n + 1].event}
           /\ rows[n + 1].event.source_id # s =>
                FromSource(Seen(n + 1), s) = FromSource(Seen(n), s)
<1>1. 1 .. n + 1 = (1 .. n) \union {n + 1}
  OBVIOUS
<1>2. Seen(n + 1) = Seen(n) \union {rows[n + 1].event}
  BY <1>1 DEF Seen
<1> QED
  BY <1>2 DEF FromSource

(* What supersedes: the winner is no older than what it is compared with.  *)
LEMMA UpdatedIsLatest ==
    ASSUME NEW S \in SUBSET Event, NEW e \in Event, NEW c \in SourceState,
           \/ S = {} /\ c = EmptySource
           \/ c.latest # NoEvent /\ IsLatest(c.latest, S)
    PROVE  /\ Updated(c, e) \in SourceState
           /\ Updated(c, e).event_count = c.event_count + 1
           /\ IsLatest(Updated(c, e).latest, S \union {e})
<1>1. /\ c.event_count \in Nat /\ c.latest \in Event \union {NoEvent}
  BY DEF SourceState
<1>2. \A f \in Event : f.source_sequence \in Nat
  BY DEF Event
<1>3. Updated(c, e) \in SourceState /\ Updated(c, e).event_count = c.event_count + 1
  BY <1>1 DEF Updated, SourceState
<1>4. CASE S = {} /\ c = EmptySource
  <2>1. Updated(c, e).latest = e
    BY <1>4 DEF Updated, Supersedes, EmptySource
  <2> QED
    BY <1>2, <1>3, <1>4, <2>1 DEF IsLatest
<1>5. CASE c.latest # NoEvent /\ IsLatest(c.latest, S)
  <2>1. c.latest \in Event
    BY <1>1, <1>5
  <2>2. CASE Supersedes(e, c.latest)
    <3>1. Updated(c, e).latest = e
      BY <2>2 DEF Updated
    <3>2. \A f \in S : f.source_sequence <= e.source_sequence
      BY <1>2, <1>5, <2>1, <2>2 DEF IsLatest, Supersedes
    <3> QED
      BY <1>2, <1>3, <3>1, <3>2 DEF IsLatest
  <2>3. CASE ~Supersedes(e, c.latest)
    <3>1. Updated(c, e).latest = c.latest
      BY <2>3 DEF Updated
    <3>2. e.source_sequence <= c.latest.source_sequence
      BY <1>2, <1>5, <2>1, <2>3 DEF Supersedes
    <3> QED
      BY <1>3, <1>5, <3>1, <3>2 DEF IsLatest
  <2> QED
    BY <2>2, <2>3
<1> QED
  BY <1>3, <1>4, <1>5

-----------------------------------------------------------------------------
(* The empty state is the fold of no rows.                                 *)
LEMMA InitFold == ASSUME Init PROVE IInv
<1>1. rows \in Seq(Row)
  BY InputAssumption DEF Init
<1>2. Seen(0) = {}
  BY DEF Seen
<1>3. TypeOK
  BY <1>1 DEF TypeOK, Init, EmptyState, NoSource
<1>4. /\ state.sources \in [{e.source_id : e \in Seen(next)} -> SourceState]
      /\ DOMAIN state.sources = {}
  BY <1>2 DEF Init, EmptyState, NoSource
<1>5. state = [event_count |-> next, last_ordinal |-> LastSeen, sources |-> state.sources]
  BY DEF Init, EmptyState, LastSeen
<1>6. IsFiniteSet(Seen(next))
  BY <1>2, FS_EmptySet DEF Init
<1>7. InOrder(next)
  BY DEF InOrder, Init
<1> QED
  BY <1>3, <1>4, <1>5, <1>6, <1>7 DEF IInv, Fold, Outcome, Init

(* One more row: every part of the fold, for the source of the row and for *)
(* the others.                                                             *)
LEMMA ApplyKeepsFold == ASSUME IInv, ApplyNext PROVE IInv'
<1> DEFINE row == rows[next + 1]
           e == row.event
           src == e.source_id
           old == SourceOf(state.sources, src)
           seen == Seen(next)
           ids == {f.source_id : f \in seen}
<1>1. /\ rows \in Seq(Row) /\ next \in Nat /\ next < Len(rows)
      /\ next + 1 \in 1 .. Len(rows)
      /\ rows' = rows /\ next' = next + 1 /\ status' = status /\ status = "running"
      /\ state' = Apply(state, row)
      /\ ~OutOfOrder(row, state)
  BY DEF IInv, TypeOK, ApplyNext
<1>2. /\ row \in Row /\ row.ordinal \in Nat /\ e \in Event
      /\ src \in Sources /\ e.source_sequence \in Nat
  BY <1>1, RowFacts
<1>3. seen \in SUBSET Event
  <2>1. \A i \in 1 .. next : i \in 1 .. Len(rows)
    BY <1>1
  <2> QED
    BY <1>1, <2>1, RowFacts DEF Seen
<1>4. /\ state.sources \in [ids -> SourceState]
      /\ state.event_count = next /\ state.last_ordinal = LastSeen
      /\ DOMAIN state.sources = ids
      /\ IsFiniteSet(seen)
  BY DEF IInv, Fold
<1>5. /\ state'.event_count = next + 1 /\ state'.last_ordinal = row.ordinal
      /\ state'.sources = [s \in ids \union {src} |->
                             IF s = src THEN Updated(old, e) ELSE state.sources[s]]
      /\ state' = [event_count |-> next + 1, last_ordinal |-> row.ordinal,
                   sources |-> state'.sources]
  BY <1>1, <1>4 DEF Apply
<1>6. Seen(next') = seen \union {e} /\ Seen(next)' = Seen(next')
  BY <1>1, SeenGrows DEF Seen
<1>7. /\ old \in SourceState
      /\ \/ FromSource(seen, src) = {} /\ old = EmptySource
         \/ old.latest # NoEvent /\ IsLatest(old.latest, FromSource(seen, src))
      /\ NoRepeats(rows) => old.event_count = Cardinality(FromSource(seen, src))
  <2>1. CASE src \in ids
    <3>1. old = state.sources[src] /\ SourceFold(src)
      BY <1>4, <2>1 DEF SourceOf, IInv, Fold
    <3>2. old.latest # NoEvent
      BY <1>4, <2>1, <3>1 DEF IInv, TypeOK
    <3> QED
      BY <1>4, <2>1, <3>1, <3>2 DEF SourceFold
  <2>2. CASE src \notin ids
    <3>1. old = EmptySource /\ FromSource(seen, src) = {}
      BY <1>4, <2>2 DEF SourceOf, FromSource
    <3>2. old \in SourceState
      BY <3>1 DEF EmptySource, SourceState
    <3>3. old.event_count = Cardinality(FromSource(seen, src))
      BY <3>1, FS_EmptySet DEF EmptySource
    <3> QED
      BY <3>1, <3>2, <3>3
  <2> QED
    BY <2>1, <2>2
<1>8. /\ Updated(old, e) \in SourceState
      /\ Updated(old, e).event_count = old.event_count + 1
      /\ IsLatest(Updated(old, e).latest, FromSource(seen, src) \union {e})
      /\ Updated(old, e).latest # NoEvent
  <2>1. FromSource(seen, src) \in SUBSET Event
    BY <1>3 DEF FromSource
  <2>2. /\ Updated(old, e) \in SourceState
        /\ Updated(old, e).event_count = old.event_count + 1
        /\ IsLatest(Updated(old, e).latest, FromSource(seen, src) \union {e})
    BY <1>2, <1>7, <2>1, UpdatedIsLatest
  <2>3. Updated(old, e).latest \in Event
    BY <1>2, <2>1, <2>2 DEF IsLatest
  <2> QED
    BY <2>2, <2>3, InputAssumption
<1>9. FromSource(seen \union {e}, src) = FromSource(seen, src) \union {e}
  BY DEF FromSource
<1>10. ASSUME NEW s \in ids \union {src} PROVE SourceFold(s)'
  <2>1. CASE s = src
    <3>1. state'.sources[s] = Updated(old, e)
      BY <1>5, <2>1
    <3>2. FromSource(Seen(next), s)' = FromSource(seen, src) \union {e}
      BY <1>6, <1>9, <2>1 DEF FromSource
    <3>3. ASSUME NoRepeats(rows)
          PROVE  Updated(old, e).event_count
                    = Cardinality(FromSource(seen, src) \union {e})
      <4>1. e \notin FromSource(seen, src)
        <5>1. \A i \in 1 .. next : rows[i].event # e
          BY <1>1, <3>3 DEF NoRepeats
        <5> QED
          BY <5>1 DEF FromSource, Seen
      <4>2. IsFiniteSet(FromSource(seen, src))
        BY <1>4, FS_Subset DEF FromSource
      <4>3. Cardinality(FromSource(seen, src) \union {e})
                = Cardinality(FromSource(seen, src)) + 1
        BY <4>1, <4>2, FS_AddElement
      <4>4. old.event_count = Cardinality(FromSource(seen, src))
        BY <1>7, <3>3
      <4>5. Updated(old, e).event_count = old.event_count + 1
        BY <1>8
      <4> QED
        BY <4>3, <4>4, <4>5
    <3> QED
      BY <1>1, <1>8, <3>1, <3>2, <3>3 DEF SourceFold
  <2>2. CASE s # src
    <3>1. s \in ids /\ state'.sources[s] = state.sources[s]
      BY <1>5, <2>2
    <3>2. FromSource(Seen(next), s)' = FromSource(seen, s)
      BY <1>6, <2>2 DEF FromSource
    <3>3. SourceFold(s)
      BY <1>4, <3>1 DEF IInv, Fold
    <3> QED
      BY <1>1, <3>1, <3>2, <3>3 DEF SourceFold
  <2> QED
    BY <2>1, <2>2
<1>11. {f.source_id : f \in seen \union {e}} = ids \union {src}
  OBVIOUS
<1>12. state'.sources \in [{f.source_id : f \in Seen(next')} -> SourceState]
  BY <1>4, <1>5, <1>6, <1>8, <1>11
<1>13. InOrder(next)' /\ LastSeen' = row.ordinal
  <2>1. LastSeen' = row.ordinal
    BY <1>1 DEF LastSeen
  <2>2. row.ordinal > LastSeen /\ LastSeen \in Nat
    BY <1>1, <1>2, <1>4 DEF OutOfOrder, IInv, TypeOK
  <2>3. \A i \in 1 .. next : rows[i].ordinal < row.ordinal
    <3> TAKE i \in 1 .. next
    <3>1. next # 0 /\ LastSeen = rows[next].ordinal
      BY <1>1 DEF LastSeen
    <3>2. InOrder(next)
      BY DEF IInv, Fold
    <3>3. i \in 1 .. Len(rows) /\ rows[i].ordinal \in Nat
      BY <1>1, RowFacts
    <3>4. rows[i].ordinal <= LastSeen
      BY <1>1, <2>2, <3>1, <3>2, <3>3 DEF InOrder
    <3> QED
      BY <1>2, <2>2, <3>3, <3>4
  <2>4. ASSUME NEW j \in 1 .. next + 1
        PROVE  /\ rows[j].ordinal > 0
               /\ \A i \in 1 .. j - 1 : rows[i].ordinal < rows[j].ordinal
    <3>1. CASE j \in 1 .. next
      BY <3>1 DEF IInv, Fold, InOrder
    <3>2. CASE j = next + 1
      BY <1>1, <1>2, <2>2, <2>3, <3>2
    <3> QED
      BY <1>1, <3>1, <3>2
  <2> QED
    BY <1>1, <2>1, <2>4 DEF InOrder
<1>14. IsFiniteSet(seen \union {e})
  BY <1>4, FS_AddElement
<1>15. Fold'
  <2>1. DOMAIN state'.sources = ids \union {src}
    BY <1>5
  <2>2. \A s \in DOMAIN state'.sources : SourceFold(s)'
    BY <1>10, <2>1
  <2>3. state' = [event_count |-> next', last_ordinal |-> LastSeen',
                  sources |-> state'.sources]
    BY <1>1, <1>5, <1>13
  <2>4. Seen(next)' = seen \union {e} /\ IsFiniteSet(Seen(next)')
    BY <1>6, <1>14
  <2>5. state'.sources \in [{f.source_id : f \in Seen(next)'} -> SourceState]
    BY <1>6, <1>12
  <2> HIDE DEF row, e, src, old, seen, ids
  <2> QED
    BY <1>13, <2>2, <2>3, <2>4, <2>5 DEF Fold
<1>16. TypeOK'
  <2>1. ids \subseteq Sources
    BY <1>4 DEF IInv, TypeOK
  <2>2. \A s \in ids \union {src} : /\ state'.sources[s] \in SourceState
                                    /\ state'.sources[s].latest # NoEvent
    BY <1>4, <1>5, <1>8 DEF IInv, TypeOK
  <2>3. DOMAIN state'.sources = ids \union {src}
    BY <1>5
  <2>4. \A s \in DOMAIN state'.sources : /\ state'.sources[s] \in SourceState
                                        /\ state'.sources[s].latest # NoEvent
    BY <2>2, <2>3
  <2>5. DOMAIN state'.sources \subseteq Sources
    BY <1>2, <2>1, <2>3
  <2>6. next' \in 0 .. Len(rows') /\ rows' \in Seq(Row)
    BY <1>1
  <2>7. state'.event_count \in Nat /\ state'.last_ordinal \in Nat
    BY <1>1, <1>2, <1>5
  <2>8. status' \in {"running", "done", "failed"}
    BY <1>1
  <2> HIDE DEF row, e, src, old, seen, ids
  <2> QED
    BY <2>4, <2>5, <2>6, <2>7, <2>8 DEF TypeOK
<1>17. Outcome'
  BY <1>1 DEF Outcome
<1> QED
  BY <1>15, <1>16, <1>17 DEF IInv

(* Refusing and finishing leave the fold alone and fix the outcome.        *)
LEMMA NextKeeps == ASSUME IInv, [Next]_vars PROVE IInv'
<1>1. CASE ApplyNext
  BY <1>1, ApplyKeepsFold
<1>2. CASE Refuse
  <2>1. TypeOK' /\ Fold'
    BY <1>2 DEF IInv, Refuse, TypeOK, Fold, SourceFold, Seen, LastSeen, InOrder
  <2>2. Outcome'
    BY <1>2 DEF Refuse, Outcome, OutOfOrder
  <2> QED
    BY <2>1, <2>2 DEF IInv
<1>3. CASE Finish
  <2>1. TypeOK' /\ Fold'
    BY <1>3 DEF IInv, Finish, TypeOK, Fold, SourceFold, Seen, LastSeen, InOrder
  <2>2. Outcome'
    BY <1>3 DEF Finish, Outcome
  <2> QED
    BY <2>1, <2>2 DEF IInv
<1>4. CASE UNCHANGED vars
  BY <1>4 DEF vars, IInv, TypeOK, Fold, SourceFold, Seen, LastSeen, InOrder,
              Outcome, OutOfOrder
<1> QED
  BY <1>1, <1>2, <1>3, <1>4 DEF Next

(* The inductive invariant of the loop (projection.py:51-89).              *)
THEOREM Invariance == Spec => []IInv
<1>1. Init => IInv
  BY InitFold
<1>2. IInv /\ [Next]_vars => IInv'
  BY NextKeeps
<1> QED
  BY <1>1, <1>2, PTL DEF Spec

(* Type correctness of the loop.                                           *)
THEOREM TypeCorrect == Spec => []TypeOK
  BY Invariance, PTL DEF IInv

(* The fold, when no identity or position repeats, is the reference.       *)
LEMMA FoldIsStateOf == ASSUME IInv PROVE StateOfConsumed
<1> SUFFICES ASSUME NoRepeats(rows) PROVE state = StateOf(Consumed)
  BY DEF StateOfConsumed
<1> DEFINE seen == Seen(next)
           ids == {e.source_id : e \in seen}
           Reference(s) == CHOOSE e \in FromSource(seen, s) :
                               IsLatest(e, FromSource(seen, s))
<1>1. /\ rows \in Seq(Row) /\ next \in 0 .. Len(rows)
      /\ \A i \in 1 .. next : rows[i].event \in Event
  <2>1. rows \in Seq(Row) /\ next \in 0 .. Len(rows)
    BY DEF IInv, TypeOK
  <2>2. \A i \in 1 .. next : i \in 1 .. Len(rows)
    BY <2>1
  <2> QED
    BY <2>1, <2>2, RowFacts
<1>2. /\ Len(Consumed) = next /\ ToSet(EventsOf(Consumed)) = seen
      /\ \A i \in 1 .. next : Consumed[i] = rows[i]
  BY SeenIsPrefix DEF IInv
<1>3. LastOrdinal(Consumed) = LastSeen
  <2>1. CASE next = 0
    <3>1. Consumed = <<>>
      BY <1>1, <1>2, <2>1 DEF Consumed
    <3> QED
      BY <2>1, <3>1 DEF LastOrdinal, LastSeen
  <2>2. CASE next # 0
    <3>1. Consumed # <<>> /\ next \in 1 .. next
      BY <1>1, <1>2, <2>2
    <3> QED
      BY <1>2, <2>2, <3>1 DEF LastOrdinal, LastSeen
  <2> QED
    BY <2>1, <2>2
<1>4. ASSUME NEW s \in ids
      PROVE  state.sources[s] = [event_count |-> Cardinality(FromSource(seen, s)),
                                 latest      |-> Reference(s)]
  <2> DEFINE c == state.sources[s]
             S == FromSource(seen, s)
  <2>1. SourceFold(s) /\ c \in SourceState
    BY DEF IInv, Fold
  <2>2. c.event_count = Cardinality(S) /\ IsLatest(c.latest, S)
    BY <2>1 DEF SourceFold
  <2>3. \A e, f \in S : e.source_sequence = f.source_sequence => e = f
    <3> SUFFICES ASSUME NEW i \in 1 .. next, NEW j \in 1 .. next,
                        rows[i].event.source_id = rows[j].event.source_id,
                        rows[i].event.source_sequence = rows[j].event.source_sequence
                 PROVE  i = j
      BY DEF FromSource, Seen
    <3> QED
      BY <1>1 DEF NoRepeats, Position
  <2>4. \A e \in S : e.source_sequence \in Nat
    BY <1>1 DEF FromSource, Seen, Event
  <2>5. \A e \in S : IsLatest(e, S) => e = c.latest
    BY <2>2, <2>3, <2>4 DEF IsLatest
  <2>6. Reference(s) = c.latest
    BY <2>2, <2>5 DEF IsLatest
  <2>7. c = [event_count |-> c.event_count, latest |-> c.latest]
    BY <2>1 DEF SourceState
  <2> QED
    BY <2>2, <2>6, <2>7
<1>5. state.sources \in [ids -> SourceState]
  BY DEF IInv, Fold
<1>6. state.sources = SourcesOf(seen)
  BY <1>4, <1>5 DEF SourcesOf
<1>7. state = [event_count |-> next, last_ordinal |-> LastSeen, sources |-> state.sources]
  BY DEF IInv, Fold
<1> QED
  BY <1>2, <1>3, <1>6, <1>7 DEF StateOf

(* After any number of rows, in any order, the loop has computed what the  *)
(* set of those rows determines (projection.py:51-89).                     *)
THEOREM OrderIrrelevant == Spec => []StateOfConsumed
  BY Invariance, FoldIsStateOf, PTL

(* A projection is refused exactly when two rows are out of ordinal order  *)
(* (projection.py:52-54).                                                  *)
THEOREM RefusalExact == Spec => []RefusedIffDisordered
<1>1. IInv => RefusedIffDisordered
  <2> SUFFICES ASSUME IInv PROVE RefusedIffDisordered
    OBVIOUS
  <2>1. /\ rows \in Seq(Row) /\ next \in 0 .. Len(rows)
        /\ state.last_ordinal = LastSeen /\ InOrder(next)
    BY DEF IInv, TypeOK, Fold
  <2>2. ASSUME status = "failed" PROVE ~Increasing(rows)
    <3>1. next + 1 \in 1 .. Len(rows) /\ rows[next + 1].ordinal <= LastSeen
      BY <2>1, <2>2 DEF IInv, Outcome, OutOfOrder
    <3>2. rows[next + 1].ordinal \in Nat
      BY <2>1, <3>1, RowFacts
    <3>3. CASE next = 0
      BY <2>1, <3>1, <3>2, <3>3 DEF LastSeen, Increasing
    <3>4. CASE next # 0
      <4>1. next \in 1 .. (next + 1) - 1 /\ LastSeen = rows[next].ordinal
        BY <2>1, <3>4 DEF LastSeen
      <4>2. next \in 1 .. Len(rows) /\ rows[next].ordinal \in Nat
        BY <2>1, <3>4, RowFacts
      <4> QED
        BY <2>1, <3>1, <3>2, <4>1, <4>2 DEF Increasing
    <3> QED
      BY <3>3, <3>4
  <2>3. ASSUME status = "done" PROVE Increasing(rows)
    BY <2>1, <2>3 DEF IInv, Outcome, InOrder, Increasing
  <2> QED
    BY <2>2, <2>3 DEF RefusedIffDisordered
<1> QED
  BY <1>1, Invariance, PTL

-----------------------------------------------------------------------------
(* The files: the inductive invariant.                                     *)

File(doc, synced, given, damaged) ==
    [doc |-> doc, synced |-> synced, given |-> given, damaged |-> damaged]

(* The states of the first rows of the ledger.                             *)
StateAt(n) == StateOf(SubSeq(rows, 1, n))

(* A file with a whole checkpoint that is on the disk.                     *)
WholeFile(file) ==
    \E n \in 0 .. Len(rows) :
        file = File(CheckpointMapping(StateAt(n)), TRUE, StateAt(n), FALSE)

(* What damage leaves: no checkpoint, or one in which either the state or  *)
(* its digest is as it was written.                                        *)
DamagedFile(file) ==
    \E n \in 0 .. Len(rows) :
        /\ file = File(file.doc, TRUE, StateAt(n), TRUE)
        /\ \/ file.doc \in {Torn, Reshaped}
           \/ file.doc.state = Stamped(StateAt(n))
           \/ file.doc.state_sha256 = Stamped(StateAt(n))

Settled(file) == file = Nothing \/ WholeFile(file) \/ DamagedFile(file)

(* What each writer's temporary file holds at each of its steps.           *)
TemporaryFits(w) ==
    /\ wpc[w] = "write" =>
        \E n \in 0 .. Len(rows) : temporary[w] = EmptyFile(StateAt(n))
    /\ wpc[w] = "sync" =>
        \E n \in 0 .. Len(rows) :
            temporary[w] = File(CheckpointMapping(StateAt(n)), FALSE, StateAt(n), FALSE)
    /\ wpc[w] = "replace" => WholeFile(temporary[w])

FilesInv ==
    /\ rows \in Seq(Row)
    /\ wpc \in [Writers -> {"idle", "write", "sync", "replace", "clean"}]
    /\ DOMAIN temporary = Writers
    /\ Settled(target) /\ Settled(durable)
    /\ \A w \in Writers : TemporaryFits(w)

CheckpointInv == IInv /\ FilesInv

-----------------------------------------------------------------------------
(* Loading.                                                                *)

(* No file, a torn one and a reshaped one are not the checkpoint of any    *)
(* state.                                                                  *)
LEMMA Shapes ==
    ASSUME NEW STATE st
    PROVE  /\ CheckpointMapping(st) \notin {NoFile, Torn, Reshaped}
           /\ Stamped(st) # NotObject
           /\ Torn # NoFile /\ Reshaped # NoFile
<1>1. "other" \in DOMAIN NoFile /\ "other" \in DOMAIN Torn
      /\ "other" \in DOMAIN Reshaped /\ "other" \in DOMAIN NotObject
  BY DEF Other, NoFile, Torn, Reshaped, NotObject
<1>2. "other" \notin DOMAIN CheckpointMapping(st) /\ "other" \notin DOMAIN Stamped(st)
  BY DEF CheckpointMapping, Stamped
<1>3. NoFile.other # Torn.other /\ NoFile.other # Reshaped.other
  BY DEF Other, NoFile, Torn, Reshaped
<1> QED
  BY <1>1, <1>2, <1>3

(* A whole checkpoint loads (checkpoint.py:71-94).                         *)
LEMMA WholeLoads ==
    ASSUME NEW STATE st PROVE LoadError(CheckpointMapping(st)) = "none"
BY Shapes DEF LoadError, CheckpointMapping, Stamped, DigestMatches

(* Whatever loads is a document whose digest is that of its state.         *)
LEMMA LoadedMatches ==
    ASSUME NEW STATE doc, LoadError(doc) = "none"
    PROVE  doc \notin {NoFile, Torn, Reshaped} /\ doc.state_sha256 = doc.state
BY DEF LoadError, DigestMatches

-----------------------------------------------------------------------------
(* The steps.                                                              *)

(* At first there is no checkpoint file.                                   *)
LEMMA CheckpointInitInv == ASSUME CheckpointInit PROVE CheckpointInv
<1>1. IInv
  BY InitFold DEF CheckpointInit
<1>2. FilesInv
  BY <1>1 DEF CheckpointInit, FilesInv, Settled, TemporaryFits, IInv, TypeOK
<1> QED
  BY <1>1, <1>2 DEF CheckpointInv

(* Steps of the loop do not touch the rows or the files.                   *)
LEMMA LoopStep ==
    ASSUME CheckpointInv, [Next]_vars, UNCHANGED checkpointVars PROVE CheckpointInv'
<1>1. IInv'
  BY NextKeeps DEF CheckpointInv
<1>2. rows' = rows
  BY DEF Next, ApplyNext, Refuse, Finish, vars
<1>3. FilesInv'
  BY <1>2 DEF CheckpointInv, FilesInv, checkpointVars, Settled, WholeFile, DamagedFile,
              TemporaryFits, StateAt
<1> QED
  BY <1>1, <1>3 DEF CheckpointInv

(* What the projector has computed is the state of the rows consumed.      *)
LEMMA ComputedState ==
    ASSUME CheckpointInv, LedgerRows(rows)
    PROVE  \E n \in 0 .. Len(rows) : state = StateAt(n)
<1>1. state = StateOf(Consumed)
  BY FoldIsStateOf DEF CheckpointInv, StateOfConsumed, LedgerRows
<1>2. next \in 0 .. Len(rows)
  BY DEF CheckpointInv, IInv, TypeOK
<1> QED
  BY <1>1, <1>2 DEF Consumed, StateAt

(* A step of one writer leaves the others' files as they are.              *)
LEMMA OthersFit ==
    ASSUME FilesInv, NEW w \in Writers, rows' = rows,
           NEW pc, Goto(w, pc), pc \in {"idle", "write", "sync", "replace", "clean"},
           DOMAIN temporary' = DOMAIN temporary,
           \A v \in Writers \ {w} : temporary'[v] = temporary[v],
           TemporaryFits(w)',
           Settled(target)', Settled(durable)'
    PROVE  FilesInv'
<1>1. wpc' \in [Writers -> {"idle", "write", "sync", "replace", "clean"}]
  BY DEF FilesInv, Goto
<1>2. ASSUME NEW v \in Writers \ {w} PROVE TemporaryFits(v)'
  BY DEF FilesInv, Goto, TemporaryFits, WholeFile, StateAt
<1> QED
  BY <1>1, <1>2 DEF FilesInv

(* A step that leaves the file and the loaded state alone keeps what is    *)
(* said of them.                                                           *)
LEMMA SettledKept ==
    ASSUME FilesInv, UNCHANGED <<rows, target, durable>>
    PROVE  Settled(target)' /\ Settled(durable)'
BY DEF FilesInv, Settled, WholeFile, DamagedFile, StateAt

(* os.fsync changes one field of what is known of the file; said field by  *)
(* field, since the provers do not rewrite Boolean fields of a record.     *)
LEMMA SyncedFile ==
    ASSUME CheckpointInv, NEW w \in Writers, Sync(w), NEW n \in 0 .. Len(rows),
           temporary[w] = File(CheckpointMapping(StateAt(n)), FALSE, StateAt(n), FALSE)
    PROVE  temporary'[w] = File(CheckpointMapping(StateAt(n)), TRUE, StateAt(n), FALSE)
<1> DEFINE new == temporary'[w]
           file == File(CheckpointMapping(StateAt(n)), TRUE, StateAt(n), FALSE)
<1>1. /\ new.doc = CheckpointMapping(StateAt(n)) /\ new.synced = TRUE
      /\ new.given = StateAt(n) /\ new.damaged = FALSE
      /\ DOMAIN new = {"doc", "synced", "given", "damaged"}
  BY DEF File, Sync, CheckpointInv, FilesInv
<1>2. new = [f \in DOMAIN new |-> new[f]]
  BY DEF File, Sync, CheckpointInv, FilesInv
<1>3. /\ file.doc = CheckpointMapping(StateAt(n)) /\ file.synced = TRUE
      /\ file.given = StateAt(n) /\ file.damaged = FALSE
      /\ DOMAIN file = {"doc", "synced", "given", "damaged"}
      /\ file = [f \in DOMAIN file |-> file[f]]
  BY DEF File
<1> HIDE DEF new, file
<1>4. DOMAIN new = DOMAIN file
  BY <1>1, <1>3
<1>5. \A f \in DOMAIN file : new[f] = file[f]
  BY <1>1, <1>3
<1>6. new = [f \in DOMAIN file |-> file[f]]
  BY <1>2, <1>4, <1>5
<1>7. new = file
  BY <1>3, <1>6
<1> QED
  BY <1>7 DEF new, file

(* Only what is complete and on the disk reaches the path.                 *)
LEMMA WriterStep ==
    ASSUME CheckpointInv, NEW w \in Writers, WriterNext(w), UNCHANGED vars
    PROVE  FilesInv'
<1> USE DEF CheckpointInv
<1>0. rows' = rows
  BY DEF vars
<1>1. CASE BeginWrite(w)
  <2>1. PICK n \in 0 .. Len(rows) : state = StateAt(n)
    BY <1>1, ComputedState DEF BeginWrite
  <2>2. temporary'[w] = EmptyFile(StateAt(n)) /\ wpc'[w] = "write"
    BY <1>1, <2>1 DEF BeginWrite, Goto, FilesInv
  <2>3. TemporaryFits(w)'
    BY <1>0, <2>2 DEF TemporaryFits, StateAt
  <2>4. Settled(target)' /\ Settled(durable)'
    BY <1>0, <1>1, SettledKept DEF BeginWrite
  <2> QED
    BY <1>0, <1>1, <2>3, <2>4, OthersFit DEF BeginWrite, FilesInv
<1>2. CASE WriteContent(w)
  <2>1. PICK n \in 0 .. Len(rows) : temporary[w] = EmptyFile(StateAt(n))
    BY <1>2 DEF WriteContent, FilesInv, TemporaryFits
  <2>2. temporary'[w] = [EmptyFile(StateAt(n)) EXCEPT !.doc = CheckpointMapping(StateAt(n))]
    BY <1>2, <2>1 DEF WriteContent, FilesInv, EmptyFile
  <2>3. temporary'[w] = File(CheckpointMapping(StateAt(n)), FALSE, StateAt(n), FALSE)
    BY <2>2 DEF File, EmptyFile
  <2>4. wpc'[w] = "sync"
    BY <1>2 DEF WriteContent, Goto, FilesInv
  <2>5. TemporaryFits(w)'
    BY <1>0, <2>3, <2>4 DEF TemporaryFits, StateAt
  <2>6. Settled(target)' /\ Settled(durable)'
    BY <1>0, <1>2, SettledKept DEF WriteContent
  <2> QED
    BY <1>0, <1>2, <2>5, <2>6, OthersFit DEF WriteContent, FilesInv
<1>3. CASE Sync(w)
  <2>1. PICK n \in 0 .. Len(rows) :
            temporary[w] = File(CheckpointMapping(StateAt(n)), FALSE, StateAt(n), FALSE)
    BY <1>3 DEF Sync, FilesInv, TemporaryFits
  <2>2. temporary'[w] = File(CheckpointMapping(StateAt(n)), TRUE, StateAt(n), FALSE)
    BY <1>3, <2>1, SyncedFile
  <2>3. wpc'[w] = "replace"
    BY <1>3 DEF Sync, Goto, FilesInv
  <2>4. TemporaryFits(w)'
    BY <1>0, <2>2, <2>3 DEF TemporaryFits, WholeFile, StateAt
  <2>5. Settled(target)' /\ Settled(durable)'
    BY <1>0, <1>3, SettledKept DEF Sync
  <2> QED
    BY <1>0, <1>3, <2>4, <2>5, OthersFit DEF Sync, FilesInv
<1>4. CASE Replace(w)
  <2>1. WholeFile(temporary[w])
    BY <1>4 DEF Replace, FilesInv, TemporaryFits
  <2>2. Settled(target)'
    BY <1>0, <1>4, <2>1 DEF Replace, Settled, WholeFile, StateAt
  <2>3. Settled(durable)'
    BY <1>0, <1>4 DEF Replace, FilesInv, Settled, WholeFile, DamagedFile, StateAt
  <2>4. TemporaryFits(w)'
    BY <1>4 DEF Replace, Goto, FilesInv, TemporaryFits
  <2> QED
    BY <1>0, <1>4, <2>2, <2>3, <2>4, OthersFit DEF Replace, FilesInv
<1>5. CASE Fails(w)
  <2>1. TemporaryFits(w)'
    BY <1>5 DEF Fails, Goto, FilesInv, TemporaryFits
  <2>2. Settled(target)' /\ Settled(durable)'
    BY <1>0, <1>5, SettledKept DEF Fails
  <2> QED
    BY <1>0, <1>5, <2>1, <2>2, OthersFit DEF Fails, FilesInv
<1>6. CASE CleanUp(w) \/ Dies(w)
  <2>1. TemporaryFits(w)'
    BY <1>6 DEF CleanUp, Dies, Goto, FilesInv, TemporaryFits
  <2>2. Settled(target)' /\ Settled(durable)'
    BY <1>0, <1>6, SettledKept DEF CleanUp, Dies
  <2> QED
    BY <1>0, <1>6, <2>1, <2>2, OthersFit DEF CleanUp, Dies, FilesInv
<1> QED
  BY <1>1, <1>2, <1>3, <1>4, <1>5, <1>6 DEF WriterNext

(* The power fails: what was there was synchronized, so it is still there. *)
LEMMA PowerStep ==
    ASSUME CheckpointInv, PowerLoss, UNCHANGED vars PROVE FilesInv'
<1>0. rows' = rows
  BY DEF vars
<1>1. target.synced /\ durable.synced
  BY DEF CheckpointInv, FilesInv, Settled, WholeFile, DamagedFile, File, Nothing
<1>2. target' \in {target, durable} /\ durable' = target'
  BY <1>1 DEF PowerLoss
<1>3. Settled(target)' /\ Settled(durable)'
  BY <1>0, <1>2 DEF CheckpointInv, FilesInv, Settled, WholeFile, DamagedFile, StateAt
<1> QED
  BY <1>0, <1>3 DEF CheckpointInv, FilesInv, PowerLoss, TemporaryFits

(* One field changes: the state or its digest is left as it was.           *)
LEMMA AlterStep ==
    ASSUME CheckpointInv, Alter, UNCHANGED vars PROVE FilesInv'
<1>0. rows' = rows
  BY DEF vars
<1>1. PICK n \in 0 .. Len(rows) :
          target = File(CheckpointMapping(StateAt(n)), TRUE, StateAt(n), FALSE)
  BY DEF CheckpointInv, FilesInv, Settled, WholeFile, DamagedFile, File, Nothing, Alter
<1>2. ASSUME NEW STATE doc, Damage(doc),
             \/ doc \in {Torn, Reshaped}
             \/ doc.state = Stamped(StateAt(n))
             \/ doc.state_sha256 = Stamped(StateAt(n))
      PROVE  FilesInv'
  <2>1. target' = File(doc, TRUE, StateAt(n), TRUE)
    BY <1>1, <1>2 DEF Damage, File
  <2>2. target' = File(target'.doc, TRUE, StateAt(n), TRUE) /\ target'.doc = doc
    BY <2>1 DEF File
  <2>3. DamagedFile(target)'
    BY <1>0, <1>2, <2>2 DEF DamagedFile, StateAt
  <2> QED
    BY <1>0, <1>2, <2>3 DEF Damage, CheckpointInv, FilesInv, Settled, WholeFile,
                            DamagedFile, TemporaryFits, StateAt
<1> DEFINE whole == CheckpointMapping(StateAt(n))
<1>3. target.doc = whole
  BY <1>1 DEF File
<1>4. ASSUME NEW field \in Fields, NEW value
      PROVE  \/ [whole EXCEPT ![field] = value].state = Stamped(StateAt(n))
             \/ [whole EXCEPT ![field] = value].state_sha256 = Stamped(StateAt(n))
  BY DEF CheckpointMapping, Fields
<1> QED
  BY <1>2, <1>3, <1>4 DEF Alter

(* Every step keeps the invariant: writers, the loader, failures and       *)
(* crashes.                                                                *)
LEMMA CheckpointNextInv ==
    ASSUME CheckpointInv, [CheckpointNext]_<<vars, checkpointVars>>
    PROVE  CheckpointInv'
<1>1. CASE [Next]_vars /\ UNCHANGED checkpointVars
  BY <1>1, LoopStep
<1>2. CASE ((\E w \in Writers : WriterNext(w)) \/ PowerLoss \/ Alter) /\ UNCHANGED vars
  <2>1. IInv'
    BY <1>2, NextKeeps DEF CheckpointInv
  <2>2. FilesInv'
    BY <1>2, WriterStep, PowerStep, AlterStep
  <2> QED
    BY <2>1, <2>2 DEF CheckpointInv
<1> QED
  BY <1>1, <1>2 DEF CheckpointNext

-----------------------------------------------------------------------------
(* The theorems.                                                           *)

(* The invariant of the writers and of the loop they checkpoint            *)
(* (checkpoint.py:47-68).                                                  *)
THEOREM CheckpointInvariance == CheckpointSpec => []CheckpointInv
BY CheckpointInitInv, CheckpointNextInv, PTL DEF CheckpointSpec

(* What loads is the state its writer was given, and that the state of     *)
(* some first rows of the ledger (checkpoint.py:71-94).                    *)
THEOREM LoadedIsGenuine == CheckpointSpec => []LoadedWasProjected
<1>1. ASSUME CheckpointInv PROVE LoadedWasProjected
  <2> SUFFICES ASSUME LoadError(target.doc) = "none"
               PROVE  /\ target.doc.state.body = target.given
                      /\ \E n \in 0 .. Len(rows) :
                             target.given = StateOf(SubSeq(rows, 1, n))
    BY DEF LoadedWasProjected
  <2>1. /\ target.doc \notin {NoFile, Torn, Reshaped}
        /\ target.doc.state_sha256 = target.doc.state
    BY LoadedMatches
  <2>2. WholeFile(target) \/ DamagedFile(target)
    BY <1>1, <2>1 DEF CheckpointInv, FilesInv, Settled, Nothing
  <2>3. PICK n \in 0 .. Len(rows) :
            target.given = StateAt(n) /\ target.doc.state = Stamped(StateAt(n))
    BY <2>1, <2>2 DEF WholeFile, DamagedFile, File, CheckpointMapping
  <2> QED
    BY <2>3 DEF Stamped, StateAt
<1> QED
  BY <1>1, CheckpointInvariance, PTL

(* The path never holds a file that is refused, unless something damaged   *)
(* it (checkpoint.py:58-68).                                               *)
THEOREM NeverUnreadable == CheckpointSpec => []CheckpointReadable
<1>1. ASSUME CheckpointInv PROVE CheckpointReadable
  <2> SUFFICES ASSUME ~target.damaged, target.doc # NoFile
               PROVE  LoadError(target.doc) = "none"
    BY DEF CheckpointReadable
  <2>1. PICK n \in 0 .. Len(rows) :
            target = File(CheckpointMapping(StateAt(n)), TRUE, StateAt(n), FALSE)
    BY <1>1 DEF CheckpointInv, FilesInv, Settled, WholeFile, DamagedFile, File, Nothing
  <2>2. target.doc = CheckpointMapping(StateAt(n))
    BY <2>1 DEF File
  <2> QED
    BY <2>2, WholeLoads
<1> QED
  BY <1>1, CheckpointInvariance, PTL
=============================================================================
