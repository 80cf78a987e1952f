---------------------------- MODULE MqttRuntime ----------------------------
(***************************************************************************)
(* MqttIngestionRuntime: what one or several consumer processes make of    *)
(* the MQTT deliveries they receive, over one ledger.                      *)
(*                                                                         *)
(* A delivery looks the event up and ingests it in two ledger calls, with  *)
(* the ledger free in between, and counts the answer in a third step: the  *)
(* row is committed before its delivery is counted.  Each call is one step *)
(* here: Ledger shows that a call takes effect at once.  The lock of a     *)
(* runtime is the absence of a second delivery in progress in it.          *)
(***************************************************************************)
EXTENDS CanonicalEvents

CONSTANTS
    Runtimes,       \* consumer processes, one runtime each
    Messages,       \* producer records: what topic and payload bytes say
    BadEnvelopes,   \* deliveries mqtt_to_event itself refuses
    BadContracts,   \* deliveries only CanonicalEvent.from_mapping refuses
    Times,          \* readings of the receiver's clock
    ValueOf,        \* [Payloads -> values]: the document Python decodes;
                    \* 1, 1.0 and true are one value and three payloads
    NoMessage,
    MaxReceived     \* bound: deliveries to one runtime process

ProducerRecord == [event_id : EventIds, source_id : Sources,
                   source_sequence : Nat, observed_at : Nat,
                   payload : Payloads]

Deliveries == Messages \union BadEnvelopes \union BadContracts

ASSUME MessageAssumption ==
    /\ Messages \subseteq ProducerRecord
    /\ Messages \intersect (BadEnvelopes \union BadContracts) = {}
    /\ NoMessage \notin Deliveries
    /\ Times \subseteq Nat
    /\ MaxReceived \in Nat

ASSUME ProcessAssumption == IsFiniteSet(Runtimes)

VARIABLES
    log,            \* the ledger: its events in ordinal order
    stage,          \* "idle", "mapped", "looked_up" or "ingested"
    message,        \* the delivery in progress, or the last one
    event,          \* the event the one in progress became
    result,         \* what ledger.ingest answered, until it is counted
    metrics,        \* RuntimeMetrics, process-local
    last,           \* the DeliveryResult of the last delivery
    known,          \* ghost: the message matched the log on arrival
    raised,         \* ghost: deliveries of the process that ended in an
                    \* exception and have no disposition
    forgotten,      \* ghost: accepted deliveries of processes that died
    uncredited      \* ghost: rows whose delivery ended, by an exception or
                    \* with its process, after COMMIT and before its count

runtimeVars == <<log, stage, message, event, result, metrics, last, known,
                 raised, forgotten, uncredited>>

Counters == {"received", "accepted", "duplicates", "rejected",
             "disconnects", "reconnects"}

Zero == [c \in Counters |-> 0]
NoDelivery == [disposition |-> "none", ordinal |-> 0, code |-> "none"]
NoResult == [status |-> "none", ordinal |-> 0]

Bump(m, counted) ==
    [c \in Counters |-> IF c \in counted THEN m[c] + 1 ELSE m[c]]

-----------------------------------------------------------------------------
RuntimeInit ==
    /\ log = <<>>
    /\ stage = [r \in Runtimes |-> "idle"]
    /\ message = [r \in Runtimes |-> NoMessage]
    /\ event = [r \in Runtimes |-> NoMessage]
    /\ result = [r \in Runtimes |-> NoResult]
    /\ metrics = [r \in Runtimes |-> Zero]
    /\ last = [r \in Runtimes |-> NoDelivery]
    /\ known = [r \in Runtimes |-> FALSE]
    /\ raised = [r \in Runtimes |-> 0]
    /\ forgotten = 0
    /\ uncredited = 0

(* The topic names source and type, the payload the rest, the receiver's   *)
(* clock the reception time.                                               *)
EventFrom(m, now) ==
    [event_id |-> m.event_id, source_id |-> m.source_id,
     source_sequence |-> m.source_sequence, observed_at |-> m.observed_at,
     ingested_at |-> now, payload |-> m.payload]

(* candidate == committed, without their reception times: a comparison of  *)
(* decoded documents, not of bytes.                                        *)
MatchesExactly(e, f) == e = f       \* fault: reception times are compared

Matches(e, f) ==
    [ProducerPart(e) EXCEPT !.payload = ValueOf[@]]
        = [ProducerPart(f) EXCEPT !.payload = ValueOf[@]]

Matching(e) == {i \in DOMAIN log : Matches(log[i], e)}

(* The delivery ends with a disposition, which the metrics count.          *)
Rejected(code) == [disposition |-> "rejected", ordinal |-> 0, code |-> code]

(* The log holds what the message says, byte for byte.                     *)
Committed(m) == \E i \in DOMAIN log : ProducerPart(log[i]) = m

CountedNever == {}                  \* fault: a handler forgets its counter

CountedOnReject == {"rejected"}

(* The message arrives; mqtt_to_event maps it or the delivery is rejected. *)
Receive(r, m, now) ==
    /\ stage[r] = "idle"
    /\ metrics[r]["received"] < MaxReceived
    /\ message' = [message EXCEPT ![r] = m]
    /\ \/ /\ \/ m \in BadEnvelopes
                /\ last' = [last EXCEPT ![r] = Rejected("adapter")]
             \/ m \in BadContracts
                /\ last' = [last EXCEPT ![r] = Rejected("event_contract")]
             \/ /\ m \in Messages
                /\ ~Ordered(EventFrom(m, now))
                /\ last' = [last EXCEPT ![r] =
                                Rejected("ingestion_before_observation")]
          /\ metrics' = [metrics EXCEPT ![r] = Bump(@, {"received"} \union CountedOnReject)]
          /\ known' = [known EXCEPT ![r] = FALSE]
          /\ UNCHANGED <<stage, event>>
       \/ /\ m \in Messages
          /\ Ordered(EventFrom(m, now))
          /\ event' = [event EXCEPT ![r] = EventFrom(m, now)]
          /\ metrics' = [metrics EXCEPT ![r] = Bump(@, {"received"})]
          /\ known' = [known EXCEPT ![r] = Committed(m)]
          /\ last' = [last EXCEPT ![r] = NoDelivery]
          /\ stage' = [stage EXCEPT ![r] = "mapped"]
    /\ UNCHANGED <<log, result, raised, forgotten, uncredited>>

(* find_event: a committed event with the same identity and the same       *)
(* producer fields replaces the candidate, so its reception time stays.    *)
LookUpById(r) ==                    \* fault: the content is not compared
    /\ stage[r] = "mapped"
    /\ LET known_ids == {i \in DOMAIN log : log[i].event_id = event[r].event_id}
       IN  event' = IF known_ids = {} THEN event
                    ELSE [event EXCEPT ![r] = log[CHOOSE i \in known_ids : TRUE]]
    /\ stage' = [stage EXCEPT ![r] = "looked_up"]
    /\ UNCHANGED <<log, message, result, metrics, last, known, raised,
                   forgotten, uncredited>>

LookUp(r) ==
    /\ stage[r] = "mapped"
    /\ event' = [event EXCEPT ![r] =
                    IF Matching(@) # {} THEN log[CHOOSE i \in Matching(@) : TRUE]
                    ELSE @]
    /\ stage' = [stage EXCEPT ![r] = "looked_up"]
    /\ UNCHANGED <<log, message, result, metrics, last, known, raised,
                   forgotten, uncredited>>

(* ledger.ingest commits the event and answers, or it finds a conflict,    *)
(* which is counted here: no row is behind it.                             *)
Ingest(r) ==
    /\ stage[r] = "looked_up"
    /\ LET batch == <<event[r]>>
       IN  \/ /\ Compatible(log, batch)
              /\ log' = log \o Fresh(log, batch)
              /\ result' = [result EXCEPT ![r] = AnswerOf(log, batch)[1]]
              /\ stage' = [stage EXCEPT ![r] = "ingested"]
              /\ UNCHANGED <<event, metrics, last>>
           \/ /\ ~Compatible(log, batch)
              /\ metrics' = [metrics EXCEPT ![r] = Bump(@, CountedOnReject)]
              /\ last' = [last EXCEPT ![r] = Rejected("ledger_identity_conflict")]
              /\ event' = [event EXCEPT ![r] = NoMessage]
              /\ stage' = [stage EXCEPT ![r] = "idle"]
              /\ UNCHANGED <<log, result>>
    /\ UNCHANGED <<message, known, raised, forgotten, uncredited>>

(* The answer is counted and the DeliveryResult made of it.                *)
CountedAccepted(status) == "accepted"   \* fault: duplicates count as accepted

CountedAs(status) == IF status = "accepted" THEN "accepted" ELSE "duplicates"

Count(r) ==
    /\ stage[r] = "ingested"
    /\ metrics' = [metrics EXCEPT ![r] = Bump(@, {CountedAs(result[r].status)})]
    /\ last' = [last EXCEPT ![r] =
                    [disposition |-> result[r].status,
                     ordinal |-> result[r].ordinal, code |-> "none"]]
    /\ event' = [event EXCEPT ![r] = NoMessage]
    /\ result' = [result EXCEPT ![r] = NoResult]
    /\ stage' = [stage EXCEPT ![r] = "idle"]
    /\ UNCHANGED <<log, message, known, raised, forgotten, uncredited>>

(* 1 while a row of the delivery in progress is committed and not counted. *)
Uncounted(r) ==
    IF stage[r] = "ingested" /\ result[r].status = "accepted" THEN 1 ELSE 0

(* A ledger call raises what no except clause names (a busy database, a    *)
(* value SQLite cannot store, an interrupt, which may also come after its  *)
(* COMMIT): the exception leaves ingest, and the delivery is not counted.  *)
Raise(r) ==
    /\ stage[r] # "idle"
    /\ stage' = [stage EXCEPT ![r] = "idle"]
    /\ event' = [event EXCEPT ![r] = NoMessage]
    /\ result' = [result EXCEPT ![r] = NoResult]
    /\ raised' = [raised EXCEPT ![r] = @ + 1]
    /\ uncredited' = uncredited + Uncounted(r)
    /\ last' = [last EXCEPT ![r] = [NoDelivery EXCEPT !.disposition = "raised"]]
    /\ UNCHANGED <<log, message, metrics, known, forgotten>>

(* Notifications of the broker client, counted under the runtime's lock.   *)
RecordDisconnect(r) ==
    /\ stage[r] = "idle"
    /\ metrics' = [metrics EXCEPT ![r] = Bump(@, {"disconnects"})]
    /\ UNCHANGED <<log, stage, message, event, result, last, known, raised,
                   forgotten, uncredited>>

RecordReconnect(r) ==
    /\ stage[r] = "idle"
    /\ metrics' = [metrics EXCEPT ![r] = Bump(@, {"reconnects"})]
    /\ UNCHANGED <<log, stage, message, event, result, last, known, raised,
                   forgotten, uncredited>>

(* The process dies; the one that replaces it starts with new metrics.     *)
Die(r) ==
    /\ stage' = [stage EXCEPT ![r] = "idle"]
    /\ message' = [message EXCEPT ![r] = NoMessage]
    /\ event' = [event EXCEPT ![r] = NoMessage]
    /\ result' = [result EXCEPT ![r] = NoResult]
    /\ metrics' = [metrics EXCEPT ![r] = Zero]
    /\ last' = [last EXCEPT ![r] = NoDelivery]
    /\ known' = [known EXCEPT ![r] = FALSE]
    /\ raised' = [raised EXCEPT ![r] = 0]
    /\ forgotten' = forgotten + metrics[r]["accepted"]
    /\ uncredited' = uncredited + Uncounted(r)
    /\ UNCHANGED log

RuntimeNext ==
    \E r \in Runtimes :
        \/ \E m \in Deliveries, now \in Times : Receive(r, m, now)
        \/ LookUp(r)
        \/ Ingest(r)
        \/ Count(r)
        \/ Raise(r)
        \/ metrics[r] # Zero /\ Die(r)

RuntimeSpec == RuntimeInit /\ [][RuntimeNext]_runtimeVars

-----------------------------------------------------------------------------
(* Properties.                                                             *)

DeliveryResult ==
    [disposition : {"none", "accepted", "duplicate", "rejected", "raised"},
     ordinal : Nat,
     code : {"none", "adapter", "event_contract",
             "ingestion_before_observation", "ledger_identity_conflict"}]

(* Types, and every event in progress or in the log is one that            *)
(* from_mapping could have returned.                                       *)
RuntimeTypeOK ==
    /\ log \in Seq(Event)
    /\ stage \in [Runtimes -> {"idle", "mapped", "looked_up", "ingested"}]
    /\ message \in [Runtimes -> Deliveries \union {NoMessage}]
    /\ event \in [Runtimes -> Event \union {NoMessage}]
    /\ result \in [Runtimes -> [status : {"none", "accepted", "duplicate"},
                                ordinal : Nat]]
    /\ metrics \in [Runtimes -> [Counters -> Nat]]
    /\ last \in [Runtimes -> DeliveryResult]
    /\ known \in [Runtimes -> BOOLEAN]
    /\ raised \in [Runtimes -> Nat]
    /\ forgotten \in Nat
    /\ uncredited \in Nat
    /\ \A i \in DOMAIN log : log[i].ingested_at >= log[i].observed_at
    /\ \A r \in Runtimes : stage[r] # "idle" => event[r] \in Event

(* Every delivery is counted once as received and, unless it ended in an   *)
(* exception or is still in progress, once under its disposition           *)
(* (mqtt.py:168, 181-201).                                                 *)
CountersBalanced ==
    \A r \in Runtimes :
        metrics[r]["received"] =
            metrics[r]["accepted"] + metrics[r]["duplicates"]
            + metrics[r]["rejected"] + raised[r]
            + (IF stage[r] = "idle" THEN 0 ELSE 1)

Credit(r) == metrics[r]["accepted"] + Uncounted(r)

CreditSum == FoldSet(LAMBDA r, n : n + Credit(r), 0, Runtimes)

(* No row of the ledger is credited to two deliveries, however many        *)
(* processes receive the same message, retry and restart; and each is      *)
(* credited to one, which has counted it or still will, unless an          *)
(* exception or the death of its process came between COMMIT               *)
(* (ledger.py:211) and the count (mqtt.py:198).  Such a row stays          *)
(* uncredited: the retry of its message is a duplicate.                    *)
RowsCredited == CreditSum + forgotten + uncredited = Len(log)

(* A delivery reported as accepted or duplicate names a row that carries   *)
(* its identity, its position and its document (mqtt.py:172-203).          *)
ResultMatchesRow ==
    \A r \in Runtimes :
        last[r].disposition \in {"accepted", "duplicate"} =>
            /\ last[r].ordinal \in DOMAIN log
            /\ Matches(log[last[r].ordinal], EventFrom(message[r], 0))

(* A retry that arrives after its event was committed, however much later  *)
(* and on whichever process, is a duplicate, unless the receiver's clock   *)
(* has fallen behind the observation (mqtt.py:171-179).                    *)
RetryIdempotent ==
    \A r \in Runtimes :
        known[r] => last[r].disposition \in {"none", "duplicate", "raised"}

(* docs/mqtt-boundary-v1.md:35: a matching retry is classified as a        *)
(* duplicate even if it arrives later.  No message is rejected as a        *)
(* conflict with an event that has its own producer fields.                *)
MatchingNeverConflicts ==
    \A r \in Runtimes :
        last[r].code = "ledger_identity_conflict" =>
            ~Committed(message[r])

(* ADR-0006: the original receipt time is retained when a later            *)
(* byte-equivalent delivery arrives; ADR-0002: different content under the *)
(* same identity is a conflict.  A duplicate repeats the committed bytes.  *)
DuplicateIsByteEquivalent ==
    \A r \in Runtimes :
        last[r].disposition = "duplicate" =>
            ProducerPart(log[last[r].ordinal]) = message[r]
=============================================================================
