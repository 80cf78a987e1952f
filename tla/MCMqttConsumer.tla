--------------------------- MODULE MCMqttConsumer ---------------------------
(***************************************************************************)
(* Small instances of MqttConsumer: one consumer, an event, an event that  *)
(* claims its position, and a delivery the adapter refuses.                *)
(***************************************************************************)
EXTENDS MqttConsumer, TLC

Msg(id, seq) ==
    [event_id |-> id, source_id |-> "s", source_sequence |-> seq,
     observed_at |-> 1, payload |-> "p"]

MCMessages == {Msg("a", 1), Msg("b", 1)}
MCOneMessage == {Msg("a", 1)}
MCValueOf == [p \in Payloads |-> p]
=============================================================================
