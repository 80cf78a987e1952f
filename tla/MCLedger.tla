------------------------------ MODULE MCLedger ------------------------------
(***************************************************************************)
(* A small instance of Ledger: two threads share a handle, a third one     *)
(* uses a handle of its own, as a second process would.                    *)
(***************************************************************************)
EXTENDS Ledger, TLC

CONSTANTS h1, h2, t1, t2, t3

MCHandleOf == [t \in {t1, t2, t3} |-> IF t = t3 THEN h2 ELSE h1]

Ev(id, seq, payload) ==
    [event_id |-> id, source_id |-> "s", source_sequence |-> seq,
     observed_at |-> 0, ingested_at |-> 0, payload |-> payload]

A == Ev("a", 1, "p")
SameIdOtherContent == Ev("a", 1, "q")
SamePositionOtherId == Ev("b", 1, "p")
C == Ev("c", 2, "p")

(* One fresh batch, one that repeats itself, one that contradicts the      *)
(* first by identity and one that does by position after a fresh event, an *)
(* empty one and a malformed one.                                          *)
MCBatches ==
    {<<A>>, <<C, A, C>>, <<SameIdOtherContent>>, <<C, SamePositionOtherId>>,
     <<>>, <<A, Invalid>>}

(* A fresh batch and one that conflicts with it after a first event.       *)
MCLiveBatches == {<<A>>, <<C, SameIdOtherContent>>}
=============================================================================
