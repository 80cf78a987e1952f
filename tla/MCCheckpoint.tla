---------------------------- MODULE MCCheckpoint ----------------------------
(***************************************************************************)
(* Every sequence of up to three rows over a few events of two sources,    *)
(* with ordinals that may repeat, decrease or have gaps, is projected; two *)
(* writers checkpoint those that a ledger can return.                      *)
(***************************************************************************)
EXTENDS Checkpoint, TLC

Ev(id, src, seq, ingested) ==
    [event_id |-> id, source_id |-> src, source_sequence |-> seq,
     observed_at |-> 0, ingested_at |-> ingested, payload |-> "p"]

MCEvents ==
    {Ev("a", "s", 0, 1), Ev("b", "s", 1, 1), Ev("c", "s", 2, 2), Ev("d", "t", 0, 1)}

MCRows == [ordinal : 0 .. 3, event : MCEvents]

MCInputs == UNION {[1 .. n -> MCRows] : n \in 0 .. 3}

MCSymmetry == Permutations(Writers)
=============================================================================
