--------------------------- MODULE MCMqttRuntime ---------------------------
(***************************************************************************)
(* Small instances of MqttRuntime.  The messages: one event in two         *)
(* spellings of one document (1 and 1.0), another document under its       *)
(* identity, another identity at its position, an unrelated event.         *)
(***************************************************************************)
EXTENDS MqttRuntime, TLC

Msg(id, seq, payload) ==
    [event_id |-> id, source_id |-> "s", source_sequence |-> seq,
     observed_at |-> 1, payload |-> payload]

MCValueOf == [p \in Payloads |-> IF p = "1.0" THEN "1" ELSE p]

MCAllMessages ==
    {Msg("a", 1, "1"), Msg("a", 1, "1.0"), Msg("a", 1, "2"), Msg("b", 1, "1"),
     Msg("c", 2, "1")}

MCMessages ==
    {Msg("a", 1, "1"), Msg("a", 1, "1.0"), Msg("a", 1, "2"), Msg("c", 2, "1")}

MCSymmetry == Permutations(Runtimes)
=============================================================================
