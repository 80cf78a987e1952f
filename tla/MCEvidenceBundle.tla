-------------------------- MODULE MCEvidenceBundle --------------------------
(***************************************************************************)
(* Two builders that race for one target, over a ledger that grows to two  *)
(* rows while they read it.  The second history has a gap in its ordinals, *)
(* and its second row is a late, lower sequence of the same source.        *)
(***************************************************************************)
EXTENDS EvidenceBundle, TLC

Ev(id, seq) ==
    [event_id |-> id, source_id |-> "s", source_sequence |-> seq,
     observed_at |-> 0, ingested_at |-> 1, payload |-> "p"]

MCHistories ==
    {<<[ordinal |-> 1, event |-> Ev("a", 0)], [ordinal |-> 2, event |-> Ev("b", 1)]>>,
     <<[ordinal |-> 1, event |-> Ev("a", 1)], [ordinal |-> 3, event |-> Ev("b", 0)]>>}

Symmetry == Permutations(Builders)
=============================================================================
