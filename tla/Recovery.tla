------------------------------ MODULE Recovery ------------------------------
(***************************************************************************)
(* run_recovery_campaign: a child process is killed after committing some  *)
(* deliveries, the parent reopens its ledger, redelivers everything and    *)
(* compares the replayed state with that of an uninterrupted reference.    *)
(* The workspace is a directory that survives every attempt.               *)
(***************************************************************************)
EXTENDS Integers, ProjectedState, Simulator

CONSTANTS
    Requests,       \* [count, crash_after]: the parameters of a campaign
    MaxAttempts     \* bound on the campaigns run on one workspace

ASSUME RequestAssumption == Requests \subseteq [count : Int, crash_after : Int]

VARIABLES
    stage,          \* "ready", "reference", "child", "reopen", "redeliver",
                    \* "refused", "failed", "rejected", "diverged", "verified"
    request,        \* the parameters of the current attempt
    attempts,
    workspace,      \* whether the directory exists
    disk,           \* the events of edge-ledger.sqlite3
    reference,      \* the events of the reference ledger
    delivered,      \* how many events the current loop has delivered
    committed,      \* recovered_ledger.count() at reopening
    metrics         \* of the runtime that redelivers

recoveryVars == <<stage, request, attempts, workspace, disk, reference,
                  delivered, committed, metrics>>

NoMetrics == [accepted |-> 0, duplicate |-> 0, rejected |-> 0,
              disconnects |-> 0, reconnects |-> 0]

RecoveryInit ==
    /\ stage = "ready" /\ attempts = 0
    /\ request = [count |-> 0, crash_after |-> 0]
    /\ workspace = FALSE /\ disk = <<>> /\ reference = <<>>
    /\ delivered = 0 /\ committed = 0 /\ metrics = NoMetrics

Events == Baseline(request.count)

(* MqttIngestionRuntime.ingest of what event_to_mqtt made of e: the topic  *)
(* and payload say everything but the reception time, and a committed      *)
(* event that matches is offered again as it was committed.                *)
Offered(log, e, received_at) ==
    LET candidate == [e EXCEPT !.ingested_at = received_at]
        matching == {s \in ToSet(log) : ProducerPart(s) = ProducerPart(candidate)}
    IN  IF matching # {} THEN CHOOSE s \in matching : TRUE ELSE candidate

Delivered(log, e, received_at) ==
    LET event == Offered(log, e, received_at)
    IN  IF ~Ordered(event) \/ ~Compatible(log, <<event>>)
        THEN [log |-> log, as |-> "rejected"]
        ELSE IF Contains(log, event)
        THEN [log |-> log, as |-> "duplicate"]
        ELSE [log |-> Append(log, event), as |-> "accepted"]

Downtime == 300         \* timedelta(minutes=5)

ReceivedAtBoundary(index) ==    \* fault: the crash boundary is off by one
    Events[index].ingested_at
        + (IF index <= request.crash_after + 1 THEN 0 ELSE Downtime)

ReceivedAt(index) ==
    Events[index].ingested_at + (IF index <= request.crash_after THEN 0 ELSE Downtime)

Admissible(r) == r.count >= 2 /\ 1 <= r.crash_after /\ r.crash_after < r.count

(* root.mkdir(exist_ok=False)                                              *)
WorkspaceReused == TRUE         \* fault: mkdir(exist_ok=True)

WorkspaceFree == ~workspace

Idle == stage \in {"ready", "refused", "failed", "rejected", "diverged", "verified"}

Run ==
    /\ Idle /\ attempts < MaxAttempts
    /\ attempts' = attempts + 1
    /\ request' \in Requests
    /\ IF Admissible(request') /\ WorkspaceFree
       THEN stage' = "reference" /\ workspace' = TRUE
       ELSE stage' = "refused" /\ UNCHANGED workspace
    /\ reference' = <<>> /\ delivered' = 0 /\ committed' = 0 /\ metrics' = NoMetrics
    /\ UNCHANGED disk

DeliverReference ==
    /\ stage = "reference" /\ delivered < request.count
    /\ LET result == Delivered(reference, Events[delivered + 1], ReceivedAt(delivered + 1))
       IN  /\ reference' = result.log
           /\ stage' = IF result.as = "rejected" THEN "rejected" ELSE stage
    /\ delivered' = delivered + 1
    /\ UNCHANGED <<request, attempts, workspace, disk, committed, metrics>>

StartChild ==       \* subprocess.run
    /\ stage = "reference" /\ delivered = request.count
    /\ stage' = "child" /\ delivered' = 0
    /\ UNCHANGED <<request, attempts, workspace, disk, reference, committed, metrics>>

(* _crash_worker                                                           *)
ChildDelivers ==
    /\ stage = "child" /\ delivered < request.crash_after
    /\ LET e == Events[delivered + 1]
           result == Delivered(disk, e, e.ingested_at)
       IN  /\ disk' = result.log
           /\ stage' = IF result.as = "rejected" THEN "failed" ELSE stage
    /\ delivered' = delivered + 1
    /\ UNCHANGED <<request, attempts, workspace, reference, committed, metrics>>

ChildExits ==       \* os._exit(CRASH_EXIT_CODE)
    /\ stage = "child" /\ delivered = request.crash_after
    /\ stage' = "reopen" /\ delivered' = 0
    /\ UNCHANGED <<request, attempts, workspace, disk, reference, committed, metrics>>

ChildDies ==        \* any other return code, at any point
    /\ stage = "child"
    /\ stage' = "failed"
    /\ UNCHANGED <<request, attempts, workspace, disk, reference, delivered,
                   committed, metrics>>

Reopen ==
    /\ stage = "reopen"
    /\ committed' = Len(disk)
    /\ metrics' = [metrics EXCEPT !.disconnects = @ + 1, !.reconnects = @ + 1]
    /\ stage' = "redeliver"
    /\ UNCHANGED <<request, attempts, workspace, disk, reference, delivered>>

Redeliver ==
    /\ stage = "redeliver" /\ delivered < request.count
    /\ LET e == Events[delivered + 1]
           result == Delivered(disk, e, e.ingested_at + Downtime)
       IN  /\ disk' = result.log
           /\ metrics' = [metrics EXCEPT ![result.as] = @ + 1]
           /\ stage' = IF result.as = "rejected" THEN "rejected" ELSE stage
    /\ delivered' = delivered + 1
    /\ UNCHANGED <<request, attempts, workspace, reference, committed>>

StateOfLog(log) ==
    StateOf([n \in DOMAIN log |-> [ordinal |-> n, event |-> log[n]]])

(* replay, the comparison of the digests, and the bundle of what is there. *)
Compare ==
    /\ stage = "redeliver" /\ delivered = request.count
    /\ stage' = IF StateOfLog(disk) = StateOfLog(reference)
                THEN "verified" ELSE "diverged"
    /\ UNCHANGED <<request, attempts, workspace, disk, reference, delivered,
                   committed, metrics>>

ParentDies ==
    /\ stage \in {"reference", "reopen", "redeliver"}
    /\ stage' = "failed"
    /\ UNCHANGED <<request, attempts, workspace, disk, reference, delivered,
                   committed, metrics>>

RecoveryNext ==
    \/ Run \/ DeliverReference \/ StartChild \/ ChildDelivers \/ ChildExits \/ ChildDies
    \/ Reopen \/ Redeliver \/ Compare \/ ParentDies

RecoverySpec == RecoveryInit /\ [][RecoveryNext]_recoveryVars

-----------------------------------------------------------------------------
(* Properties.                                                             *)

(* Wherever the child is killed, redelivering everything reaches the state *)
(* of the uninterrupted run: no campaign that reaches the comparison fails *)
(* it, and no redelivery is rejected, though all carry another reception   *)
(* time than what is committed (recovery.py:129-142).                      *)
Converges == stage \notin {"rejected", "diverged"}

(* A verified campaign found exactly the deliveries committed before the   *)
(* crash, answered those as duplicates and accepted the others once, also  *)
(* when earlier attempts on the workspace failed half-way                  *)
(* (docs/recovery-campaign-v1.md:20, recovery.py:95, 130).                 *)
RedeliveryExact ==
    stage = "verified" =>
        /\ committed = request.crash_after
        /\ metrics = [accepted    |-> request.count - request.crash_after,
                      duplicate   |-> request.crash_after,
                      rejected    |-> 0,
                      disconnects |-> 1,
                      reconnects  |-> 1]
        /\ Len(disk) = request.count
=============================================================================
