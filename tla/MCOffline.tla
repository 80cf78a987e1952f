----------------------------- MODULE MCOffline -----------------------------
(***************************************************************************)
(* The command-line tools, one at a time: they share no state, and every   *)
(* behaviour belongs to one of them.                                       *)
(*   - run_campaign, for each of the eight scenarios;                      *)
(*   - evaluate_quality, of every consistent ledger of up to MaxRows rows  *)
(*     over a few events, as a bundle builder calls it;                    *)
(*   - run_recovery_campaign, up to MaxAttempts times on one workspace;    *)
(*   - the historical import, of every input of up to MaxLines lines, up   *)
(*     to MaxImports times with the same output paths.                     *)
(***************************************************************************)
EXTENDS Campaign, Recovery, Historical, TLC

CONSTANTS
    MaxRows,
    MaxLines

Ev(id, src, seq, at, lag, p) ==
    [event_id |-> id, source_id |-> src, source_sequence |-> seq,
     observed_at |-> at, ingested_at |-> at + lag, payload |-> p]

(* Sequences with a gap of one and of two positions, payloads that repeat, *)
(* a late arrival, and a producer whose clock stepped back (event 4).      *)
MCEvents ==
    {Ev(0, "s", 0, 0, 0, 0), Ev(1, "s", 1, 10, 60, 0), Ev(2, "s", 3, 90, 61, 0),
     Ev(3, "s", 2, 20, 0, 1), Ev(4, "s", 6, 5, 0, 0), Ev(5, "t", 0, 0, 0, 0)}

MCLogs == {l \in UNION {[1 .. n -> MCEvents] : n \in 0 .. MaxRows} :
              IsInjective(l)}

MCLedgers == {[n \in DOMAIN l |-> [ordinal |-> n, event |-> l[n]]] : l \in MCLogs}

MCIds == 0 .. 7
MCTimes == {60, 90, 151}

(* Admissible parameters, and the boundaries that are refused.             *)
MCRequests ==
    {[count |-> 5, crash_after |-> k] : k \in 1 .. 4}
        \union {[count |-> c, crash_after |-> k] : c \in {1, 2}, k \in {0, 1, 2}}

L(flaw, id, stream, at) ==
    [flaw |-> flaw, event_id |-> id, stream |-> stream, observed_at |-> at,
     payload |-> 0]

(* Lines that are accepted, repeat an identity, are flawed in each way, or *)
(* were observed after the import.                                         *)
MCLines ==
    {L("none", 0, "s", 1), L("none", 1, "s", 0), L("none", 0, "t", 0),
     L("none", 2, "s", 2), L("unmappable", 3, "t", 0),
     L("unsupported_record_shape", 3, "s", 0), L("none", NoId, "s", 0),
     L("blank_line", NoId, "s", 0), L("undecodable", NoId, "s", 0)}

MCInputFiles == UNION {[1 .. n -> MCLines] : n \in 0 .. MaxLines}

MCInit ==
    \/ CampaignInit /\ QualityIdle /\ RecoveryInit /\ ImportIdle
    \/ CampaignIdle /\ QualityInit /\ RecoveryInit /\ ImportIdle
    \/ CampaignIdle /\ QualityIdle /\ RecoveryInit /\ ImportIdle
    \/ CampaignIdle /\ QualityIdle /\ RecoveryInit /\ ImportInit

(* Who has begun keeps going.                                              *)
Evaluating == phase # "idle" \/ stored # <<>>
Recovering == attempts > 0
Importing == step # "idle"

MCNext ==
    \/ CampaignNext /\ UNCHANGED <<recoveryVars, importVars>>
    \/ RecoveryNext /\ ~Evaluating /\ ~Importing
       /\ UNCHANGED <<campaignVars, qualityVars, importVars>>
    \/ ImportNext /\ ~Evaluating /\ ~Recovering
       /\ UNCHANGED <<campaignVars, qualityVars, recoveryVars>>

MCSpec ==
    MCInit /\ [][MCNext]_<<campaignVars, qualityVars, recoveryVars, importVars>>
=============================================================================
