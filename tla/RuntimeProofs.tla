---------------------------- MODULE RuntimeProofs ----------------------------
(***************************************************************************)
(* Proofs about MqttRuntime, for any number of runtimes, messages and      *)
(* deliveries: each delivery is counted once, what is reported of it names *)
(* a row with its document, and a retry of a committed message is never    *)
(* rejected, whatever other processes commit between its two ledger calls. *)
(***************************************************************************)
EXTENDS MqttRuntime, FiniteSetTheorems, SequenceTheorems, TLAPS

-----------------------------------------------------------------------------
(* The inductive invariant, runtime by runtime.                            *)

BalancedAt(r) ==
    metrics[r]["received"] =
        metrics[r]["accepted"] + metrics[r]["duplicates"]
        + metrics[r]["rejected"] + raised[r]
        + (IF stage[r] = "idle" THEN 0 ELSE 1)

ResultAt(r) ==
    last[r].disposition \in {"accepted", "duplicate"} =>
        /\ message[r] \in Messages
        /\ last[r].ordinal \in DOMAIN log
        /\ Matches(log[last[r].ordinal], EventFrom(message[r], 0))

RetryAt(r) ==
    known[r] => last[r].disposition \in {"none", "duplicate", "raised"}

(* The event in progress carries the message's document, also when it was  *)
(* replaced by a committed one; nothing is reported of it yet.             *)
InProgress(r) ==
    stage[r] # "idle" =>
        /\ message[r] \in Messages
        /\ Matches(event[r], EventFrom(message[r], 0))
        /\ Ordered(event[r])
        /\ last[r] = NoDelivery

(* What was committed when the message arrived stays so, and is found.     *)
KnownKept(r) ==
    known[r] =>
        /\ stage[r] = "mapped" => /\ Committed(message[r])
                                  /\ ProducerPart(event[r]) = message[r]
        /\ stage[r] = "looked_up" => Contains(log, event[r])

(* The answer that is still to be counted names a row with the document,   *)
(* and is a duplicate if the event was committed on arrival.               *)
AnswerAt(r) ==
    stage[r] = "ingested" =>
        /\ result[r].status \in {"accepted", "duplicate"}
        /\ result[r].ordinal \in DOMAIN log
        /\ Matches(log[result[r].ordinal], EventFrom(message[r], 0))
        /\ known[r] => result[r].status = "duplicate"

Sound(r) ==
    /\ BalancedAt(r) /\ ResultAt(r) /\ RetryAt(r)
    /\ InProgress(r) /\ KnownKept(r) /\ AnswerAt(r)

RuntimeInv ==
    /\ RuntimeTypeOK
    /\ Consistent(ToSet(log))
    /\ \A r \in Runtimes : Sound(r)

-----------------------------------------------------------------------------
(* Events and logs.                                                        *)

(* The event made of a message says what its producer wrote.               *)
LEMMA MessageEvent ==
    ASSUME NEW m \in Messages, NEW now \in Nat
    PROVE  /\ EventFrom(m, now) \in Event
           /\ ProducerPart(EventFrom(m, now)) = m
<1>1. m \in ProducerRecord
  BY MessageAssumption
<1>2. EventFrom(m, now) \in Event
  BY <1>1 DEF ProducerRecord, EventFrom, Event
<1>3. ProducerPart(EventFrom(m, now)) = m
  BY <1>1 DEF ProducerRecord, EventFrom, ProducerPart
<1> QED
  BY <1>2, <1>3

(* Reception times do not matter to a comparison of documents.             *)
LEMMA MatchesByProducer ==
    ASSUME NEW e, NEW f, ProducerPart(e) = ProducerPart(f) PROVE Matches(e, f)
BY DEF Matches

(* Being the same document is an equivalence of messages.                  *)
LEMMA MatchesEquivalence ==
    ASSUME NEW e, NEW f, NEW g
    PROVE  /\ Matches(e, f) => Matches(f, e)
           /\ Matches(e, f) /\ Matches(f, g) => Matches(e, g)
BY DEF Matches

(* What ingest_many makes of a batch of one event.                         *)
LEMMA SingleBatch ==
    ASSUME NEW l \in Seq(Event), NEW e \in Event
    PROVE  /\ Contains(l, e) => Fresh(l, <<e>>) = <<>>
           /\ ~Contains(l, e) => Fresh(l, <<e>>) = <<e>>
           /\ IsFresh(l, <<e>>, 1) <=> ~Contains(l, e)
           /\ ToSet(<<e>>) = {e}
<1> DEFINE b == <<e>>
           gained == {i \in DOMAIN b : IsFresh(l, b, i)}
           rank(i) == Cardinality({j \in gained : j <= i})
           pick(n) == CHOOSE i \in gained : rank(i) = n
<1>1. DOMAIN b = {1} /\ b[1] = e /\ ToSet(b) = {e}
  BY DEF ToSet
<1>2. IsFresh(l, b, 1) <=> ~Contains(l, e)
  BY <1>1 DEF IsFresh
<1>3. Fresh(l, b) = [n \in 1 .. Cardinality(gained) |-> b[pick(n)]]
  BY DEF Fresh
<1>4. CASE Contains(l, e)
  <2>1. gained = {}
    BY <1>1, <1>2, <1>4
  <2>2. Cardinality(gained) = 0
    BY <2>1, FS_EmptySet
  <2> HIDE DEF gained, pick
  <2>3. Fresh(l, b) = <<>>
    BY <1>3, <2>2
  <2> QED
    BY <1>1, <1>2, <1>4, <2>3
<1>5. CASE ~Contains(l, e)
  <2>1. gained = {1}
    BY <1>1, <1>2, <1>5
  <2>2. Cardinality(gained) = 1
    BY <2>1, FS_Singleton
  <2>3. {j \in gained : j <= 1} = {1}
    BY <2>1
  <2>4. rank(1) = 1
    BY <2>3, FS_Singleton
  <2>5. pick(1) = 1
    BY <2>1, <2>4
  <2> HIDE DEF gained, pick, rank, b
  <2>6. Fresh(l, b) = [n \in 1 .. 1 |-> b[pick(n)]]
    BY <1>3, <2>2
  <2>7. \A n \in 1 .. 1 : b[pick(n)] = e
    BY <1>1, <2>5
  <2>8. Fresh(l, b) = [n \in 1 .. 1 |-> e]
    BY <2>6, <2>7
  <2>9. Fresh(l, b) = <<e>>
    BY <2>8
  <2> QED
    BY <1>1, <1>2, <1>5, <2>9 DEF b
<1> QED
  BY <1>4, <1>5

(* The answer to a batch of one compatible event.                          *)
LEMMA SingleAnswer ==
    ASSUME NEW l \in Seq(Event), NEW e \in Event
    PROVE  LET after == l \o Fresh(l, <<e>>)
               answer == AnswerOf(l, <<e>>)[1]
           IN  /\ after \in Seq(Event)
               /\ Len(after) >= Len(l)
               /\ \A i \in 1 .. Len(l) : after[i] = l[i]
               /\ ToSet(after) = ToSet(l) \union {e}
               /\ answer.status = IF Contains(l, e) THEN "duplicate" ELSE "accepted"
               /\ answer.ordinal \in DOMAIN after
               /\ after[answer.ordinal] = e
               /\ answer \in [status : {"none", "accepted", "duplicate"}, ordinal : Nat]
<1> DEFINE after == l \o Fresh(l, <<e>>)
           ordinal == CHOOSE n \in DOMAIN after : after[n] = e
<1>1. Fresh(l, <<e>>) \in Seq(Event)
  <2>1. <<>> \in Seq(Event) /\ <<e>> \in Seq(Event)
    OBVIOUS
  <2> QED
    BY <2>1, SingleBatch
<1>2. /\ after \in Seq(Event)
      /\ Len(after) = Len(l) + Len(Fresh(l, <<e>>))
      /\ \A i \in 1 .. Len(l) : after[i] = l[i]
  BY <1>1, ConcatProperties
<1>3. \E n \in DOMAIN after : after[n] = e
  <2>1. CASE Contains(l, e)
    <3>1. after = l
      BY <2>1, SingleBatch, ConcatEmptySeq
    <3> QED
      BY <2>1, <3>1 DEF Contains
  <2>2. CASE ~Contains(l, e)
    <3>1. Fresh(l, <<e>>) = <<e>>
      BY <2>2, SingleBatch
    <3>2. Len(after) = Len(l) + 1 /\ after[Len(l) + 1] = e
      BY <1>1, <3>1, ConcatProperties
    <3> QED
      BY <1>2, <3>2
  <2> QED
    BY <2>1, <2>2
<1>4. ToSet(after) = ToSet(l) \union {e}
  <2>1. CASE Contains(l, e)
    <3>1. after = l
      BY <2>1, SingleBatch, ConcatEmptySeq
    <3> QED
      BY <2>1, <3>1 DEF Contains, ToSet
  <2>2. CASE ~Contains(l, e)
    <3>1. Fresh(l, <<e>>) = <<e>>
      BY <2>2, SingleBatch
    <3>2. Len(after) = Len(l) + 1 /\ after[Len(l) + 1] = e
      BY <1>1, <3>1, ConcatProperties
    <3>3. DOMAIN after = 1 .. Len(l) + 1 /\ DOMAIN l = 1 .. Len(l)
      BY <1>2, <3>2
    <3> HIDE DEF after
    <3>4. \A i \in DOMAIN l : after[i] = l[i] /\ i \in DOMAIN after
      BY <1>2, <3>3
    <3>5. \A i \in DOMAIN after : i \in DOMAIN l \/ i = Len(l) + 1
      BY <3>3
    <3> QED
      BY <3>2, <3>3, <3>4, <3>5 DEF ToSet
  <2> QED
    BY <2>1, <2>2
<1>5. AnswerOf(l, <<e>>)[1]
        = [status |-> IF IsFresh(l, <<e>>, 1) THEN "accepted" ELSE "duplicate",
           ordinal |-> ordinal]
  <2>1. DOMAIN <<e>> = {1} /\ <<e>>[1] = e
    OBVIOUS
  <2>2. AnswerOf(l, <<e>>)
            = [i \in DOMAIN <<e>> |->
                  [status |-> IF IsFresh(l, <<e>>, i) THEN "accepted" ELSE "duplicate",
                   ordinal |-> CHOOSE n \in DOMAIN after : after[n] = <<e>>[i]]]
    BY DEF AnswerOf
  <2> HIDE DEF after
  <2> QED
    BY <2>1, <2>2
<1>6. ordinal \in DOMAIN after /\ after[ordinal] = e
  BY <1>3
<1> HIDE DEF after, ordinal
<1>7. AnswerOf(l, <<e>>)[1].status = IF Contains(l, e) THEN "duplicate" ELSE "accepted"
  BY <1>5, SingleBatch
<1>8. AnswerOf(l, <<e>>)[1].ordinal = ordinal
  BY <1>5
<1>9. Len(after) >= Len(l)
  BY <1>1, <1>2
<1>10. AnswerOf(l, <<e>>)[1] \in [status : {"none", "accepted", "duplicate"}, ordinal : Nat]
  <2>1. ordinal \in Nat
    BY <1>2, <1>6
  <2> QED
    BY <1>5, <2>1
<1> QED
  BY <1>2, <1>4, <1>6, <1>7, <1>8, <1>9, <1>10 DEF after

-----------------------------------------------------------------------------
(* What a step leaves alone.                                               *)

LogExtends ==
    /\ log' \in Seq(Event)
    /\ Len(log') >= Len(log)
    /\ \A i \in 1 .. Len(log) : log'[i] = log[i]

Kept(s) ==
    /\ stage'[s] = stage[s] /\ message'[s] = message[s]
    /\ event'[s] = event[s] /\ result'[s] = result[s] /\ metrics'[s] = metrics[s]
    /\ last'[s] = last[s] /\ known'[s] = known[s] /\ raised'[s] = raised[s]

(* The ledger only grows, so what a runtime that does not move knows of it *)
(* stays true while the others commit.                                     *)
LEMMA SoundKept ==
    ASSUME RuntimeTypeOK, LogExtends, NEW s \in Runtimes, Sound(s), Kept(s)
    PROVE  Sound(s)'
<1>1. /\ log \in Seq(Event) /\ log' \in Seq(Event)
      /\ DOMAIN log = 1 .. Len(log) /\ DOMAIN log' = 1 .. Len(log')
      /\ Len(log) \in Nat /\ Len(log') \in Nat
  BY DEF RuntimeTypeOK, LogExtends
<1>2. \A i \in DOMAIN log : i \in DOMAIN log' /\ log'[i] = log[i]
  BY <1>1 DEF LogExtends
<1>3. BalancedAt(s)'
  BY DEF Sound, BalancedAt, Kept
<1>4. ResultAt(s)'
  BY <1>2 DEF Sound, ResultAt, Kept
<1>5. RetryAt(s)'
  BY DEF Sound, RetryAt, Kept
<1>6. InProgress(s)'
  BY DEF Sound, InProgress, Kept
<1>7. KnownKept(s)'
  <2>1. Committed(message[s]) => Committed(message[s])'
    <3>1. Committed(message[s]) => \E i \in DOMAIN log' : ProducerPart(log'[i]) = message'[s]
      BY <1>2 DEF Committed, Kept
    <3> QED
      BY <3>1 DEF Committed
  <2>2. Contains(log, event[s]) => Contains(log', event'[s])
    BY <1>2 DEF Contains, Kept
  <2> QED
    BY <2>1, <2>2 DEF Sound, KnownKept, Kept
<1>8. AnswerAt(s)'
  BY <1>2 DEF Sound, AnswerAt, Kept
<1> QED
  BY <1>3, <1>4, <1>5, <1>6, <1>7, <1>8 DEF Sound

(* A step of one runtime that leaves the ledger alone has only that        *)
(* runtime to answer for.                                                  *)
LEMMA OthersSound ==
    ASSUME RuntimeInv, NEW r \in Runtimes, LogExtends, Sound(r)',
           \A s \in Runtimes \ {r} : Kept(s)
    PROVE  \A s \in Runtimes : Sound(s)'
<1> SUFFICES ASSUME NEW s \in Runtimes, s # r PROVE Sound(s)'
  OBVIOUS
<1> QED
  BY SoundKept DEF RuntimeInv

(* A ledger that did not change still extends what it was.                 *)
LEMMA LogUnchanged ==
    ASSUME RuntimeTypeOK, UNCHANGED log PROVE LogExtends
BY DEF RuntimeTypeOK, LogExtends

-----------------------------------------------------------------------------
(* The actions.                                                            *)

(* No runtime has received anything.                                       *)
LEMMA RuntimeInitInv == ASSUME RuntimeInit PROVE RuntimeInv
<1>1. RuntimeTypeOK
  BY DEF RuntimeInit, RuntimeTypeOK, Zero, NoDelivery, NoResult, DeliveryResult, Counters
<1>2. Consistent(ToSet(log))
  BY DEF RuntimeInit, Consistent, ToSet
<1>3. ASSUME NEW r \in Runtimes PROVE Sound(r)
  BY DEF RuntimeInit, Sound, BalancedAt, ResultAt, RetryAt, InProgress, KnownKept,
         AnswerAt, Zero, NoDelivery, Counters
<1> QED
  BY <1>1, <1>2, <1>3 DEF RuntimeInv

(* A counter that is bumped goes up by one, and the others stay.           *)
LEMMA Bumped ==
    ASSUME NEW m \in [Counters -> Nat], NEW counted
    PROVE  /\ Bump(m, counted) \in [Counters -> Nat]
           /\ \A c \in Counters :
                Bump(m, counted)[c] = IF c \in counted THEN m[c] + 1 ELSE m[c]
BY DEF Bump

(* ingest begins: received is counted, nothing is read yet.                *)
LEMMA ReceiveStep ==
    ASSUME RuntimeInv, NEW r \in Runtimes, NEW m \in Deliveries,
           NEW now \in Times, Receive(r, m, now)
    PROVE  RuntimeInv'
<1> USE DEF RuntimeInv
<1>0. now \in Nat /\ 0 \in Nat
  BY MessageAssumption
<1>1. /\ message' = [message EXCEPT ![r] = m]
      /\ UNCHANGED <<log, result, raised, forgotten, uncredited>> /\ stage[r] = "idle"
  BY DEF Receive
<1>2. LogExtends
  BY <1>1, LogUnchanged
<1>3. Consistent(ToSet(log))'
  BY <1>1
<1>4. CASE /\ \E code \in {"adapter", "event_contract", "ingestion_before_observation"} :
                  last' = [last EXCEPT ![r] = Rejected(code)]
           /\ metrics' = [metrics EXCEPT ![r] = Bump(@, {"received"} \union CountedOnReject)]
           /\ known' = [known EXCEPT ![r] = FALSE]
           /\ UNCHANGED <<stage, event>>
  <2>1. PICK code \in {"adapter", "event_contract", "ingestion_before_observation"} :
            last' = [last EXCEPT ![r] = Rejected(code)]
    BY <1>4
  <2>2. Rejected(code) \in DeliveryResult
    BY DEF Rejected, DeliveryResult
  <2>3. /\ metrics[r] \in [Counters -> Nat]
        /\ metrics'[r] \in [Counters -> Nat]
        /\ metrics'[r] = Bump(metrics[r], {"received", "rejected"})
    <3>1. {"received"} \union CountedOnReject = {"received", "rejected"}
      BY DEF CountedOnReject
    <3>2. metrics'[r] = Bump(metrics[r], {"received", "rejected"})
      BY <1>4, <3>1 DEF RuntimeTypeOK
    <3>3. metrics[r] \in [Counters -> Nat]
      BY DEF RuntimeTypeOK
    <3> QED
      BY <3>2, <3>3, Bumped
  <2>4. metrics' \in [Runtimes -> [Counters -> Nat]]
    BY <1>4, <2>3 DEF RuntimeTypeOK
  <2>5. RuntimeTypeOK'
    BY <1>1, <1>4, <2>1, <2>2, <2>4 DEF RuntimeTypeOK
  <2>6. /\ metrics'[r]["received"] = metrics[r]["received"] + 1
        /\ metrics'[r]["rejected"] = metrics[r]["rejected"] + 1
        /\ metrics'[r]["accepted"] = metrics[r]["accepted"]
        /\ metrics'[r]["duplicates"] = metrics[r]["duplicates"]
    BY <2>3, Bumped DEF Counters
  <2>7. BalancedAt(r)'
    <3>1. /\ metrics[r]["received"] \in Nat /\ metrics[r]["accepted"] \in Nat
          /\ metrics[r]["duplicates"] \in Nat /\ metrics[r]["rejected"] \in Nat
          /\ raised[r] \in Nat
      BY <2>3 DEF RuntimeTypeOK, Counters
    <3>2. /\ metrics[r]["received"] = metrics[r]["accepted"] + metrics[r]["duplicates"]
                                      + metrics[r]["rejected"] + raised[r] + 0
          /\ stage'[r] = "idle" /\ raised'[r] = raised[r]
      BY <1>1, <1>4 DEF Sound, BalancedAt
    <3> QED
      BY <2>6, <3>1, <3>2 DEF BalancedAt
  <2>8. last'[r] = Rejected(code) /\ ~known'[r] /\ stage'[r] = "idle"
    BY <1>1, <1>4, <2>1 DEF RuntimeTypeOK
  <2>9. Sound(r)'
    BY <2>7, <2>8 DEF Sound, ResultAt, RetryAt, InProgress, KnownKept, AnswerAt, Rejected
  <2>10. \A s \in Runtimes \ {r} : Kept(s)
    BY <1>1, <1>4, <2>1 DEF Kept, RuntimeTypeOK
  <2> QED
    BY <1>2, <1>3, <2>5, <2>9, <2>10, OthersSound
<1>5. CASE /\ m \in Messages
           /\ Ordered(EventFrom(m, now))
           /\ event' = [event EXCEPT ![r] = EventFrom(m, now)]
           /\ metrics' = [metrics EXCEPT ![r] = Bump(@, {"received"})]
           /\ known' = [known EXCEPT ![r] = Committed(m)]
           /\ last' = [last EXCEPT ![r] = NoDelivery]
           /\ stage' = [stage EXCEPT ![r] = "mapped"]
  <2>1. /\ EventFrom(m, now) \in Event /\ ProducerPart(EventFrom(m, now)) = m
        /\ ProducerPart(EventFrom(m, 0)) = m
    BY <1>0, <1>5, MessageEvent
  <2>2. NoDelivery \in DeliveryResult /\ Committed(m) \in BOOLEAN
    BY DEF NoDelivery, DeliveryResult, Committed
  <2>3. /\ metrics[r] \in [Counters -> Nat]
        /\ metrics'[r] \in [Counters -> Nat]
        /\ metrics'[r] = Bump(metrics[r], {"received"})
    BY <1>5, Bumped DEF RuntimeTypeOK
  <2>4. metrics' \in [Runtimes -> [Counters -> Nat]]
    BY <1>5, <2>3 DEF RuntimeTypeOK
  <2>5. RuntimeTypeOK'
    <3>1. known' \in [Runtimes -> BOOLEAN]
      BY <1>5, <2>2 DEF RuntimeTypeOK
    <3> HIDE DEF Committed
    <3> QED
      BY <1>1, <1>5, <2>1, <2>2, <2>4, <3>1 DEF RuntimeTypeOK
  <2>6. /\ metrics'[r]["received"] = metrics[r]["received"] + 1
        /\ metrics'[r]["rejected"] = metrics[r]["rejected"]
        /\ metrics'[r]["accepted"] = metrics[r]["accepted"]
        /\ metrics'[r]["duplicates"] = metrics[r]["duplicates"]
    BY <2>3, Bumped DEF Counters
  <2>7. /\ stage'[r] = "mapped" /\ last'[r] = NoDelivery
        /\ event'[r] = EventFrom(m, now) /\ message'[r] = m
    BY <1>1, <1>5 DEF RuntimeTypeOK
  <2>8. BalancedAt(r)'
    <3>1. /\ metrics[r]["received"] \in Nat /\ metrics[r]["accepted"] \in Nat
          /\ metrics[r]["duplicates"] \in Nat /\ metrics[r]["rejected"] \in Nat
          /\ raised[r] \in Nat
      BY <2>3 DEF RuntimeTypeOK, Counters
    <3>2. /\ metrics[r]["received"] = metrics[r]["accepted"] + metrics[r]["duplicates"]
                                      + metrics[r]["rejected"] + raised[r] + 0
          /\ raised'[r] = raised[r]
      BY <1>1 DEF Sound, BalancedAt
    <3> QED
      BY <2>6, <2>7, <3>1, <3>2 DEF BalancedAt
  <2>9. InProgress(r)'
    <3>1. Matches(EventFrom(m, now), EventFrom(m, 0))
      BY <2>1, MatchesByProducer
    <3> QED
      BY <1>5, <2>7, <3>1 DEF InProgress
  <2>10. KnownKept(r)'
    <3>1. known'[r] => Committed(m)
      BY <1>5 DEF RuntimeTypeOK
    <3>2. Committed(m) => Committed(message[r])'
      BY <1>1, <2>7 DEF Committed
    <3> QED
      BY <2>1, <2>7, <3>1, <3>2 DEF KnownKept
  <2>11. Sound(r)'
    BY <2>7, <2>8, <2>9, <2>10 DEF Sound, ResultAt, RetryAt, AnswerAt, NoDelivery
  <2>12. \A s \in Runtimes \ {r} : Kept(s)
    BY <1>1, <1>5 DEF Kept, RuntimeTypeOK
  <2> QED
    BY <1>2, <1>3, <2>5, <2>11, <2>12, OthersSound
<1> QED
  BY <1>4, <1>5 DEF Receive

(* find_event replaces the event by one with the same document, if any.    *)
LEMMA LookUpStep ==
    ASSUME RuntimeInv, NEW r \in Runtimes, LookUp(r) PROVE RuntimeInv'
<1> USE DEF RuntimeInv
<1> DEFINE found == Matching(event[r])
           e == IF found # {} THEN log[CHOOSE i \in found : TRUE] ELSE event[r]
<1>1. /\ stage[r] = "mapped"
      /\ event' = [event EXCEPT ![r] = e]
      /\ stage' = [stage EXCEPT ![r] = "looked_up"]
      /\ UNCHANGED <<log, message, result, metrics, last, known, raised,
                     forgotten, uncredited>>
  BY DEF LookUp
<1>2. /\ event[r] \in Event /\ message[r] \in Messages
      /\ Matches(event[r], EventFrom(message[r], 0))
      /\ Ordered(event[r]) /\ last[r] = NoDelivery
  BY <1>1 DEF RuntimeTypeOK, Sound, InProgress
<1>3. /\ e \in Event /\ Ordered(e)
      /\ Matches(e, EventFrom(message[r], 0))
      /\ found # {} => Contains(log, e)
  <2>1. CASE found = {}
    BY <1>2, <2>1
  <2>2. CASE found # {}
    <3>1. PICK i \in DOMAIN log : e = log[i] /\ Matches(log[i], event[r])
      BY <2>2 DEF Matching
    <3>2. e \in Event /\ Ordered(e)
      BY <3>1 DEF RuntimeTypeOK, Ordered
    <3>3. Matches(e, EventFrom(message[r], 0))
      <4>1. Matches(e, event[r])
        BY <3>1
      <4> HIDE DEF e, found
      <4> QED
        BY <1>2, <4>1, MatchesEquivalence
    <3>4. Contains(log, e)
      <4> HIDE DEF e, found
      <4> QED
        BY <3>1 DEF Contains
    <3> QED
      BY <3>2, <3>3, <3>4
  <2> QED
    BY <2>1, <2>2
<1>4. known[r] => found # {}
  <2>1. SUFFICES ASSUME known[r] PROVE found # {}
    OBVIOUS
  <2>2. Committed(message[r]) /\ ProducerPart(event[r]) = message[r]
    BY <1>1, <2>1 DEF Sound, KnownKept
  <2>3. PICK i \in DOMAIN log : ProducerPart(log[i]) = message[r]
    BY <2>2 DEF Committed
  <2>4. Matches(log[i], event[r])
    BY <2>2, <2>3, MatchesByProducer
  <2> QED
    BY <2>4 DEF Matching
<1> HIDE DEF e, found
<1>5. LogExtends
  BY <1>1, LogUnchanged
<1>6. Consistent(ToSet(log))'
  BY <1>1
<1>7. RuntimeTypeOK'
  BY <1>1, <1>3 DEF RuntimeTypeOK
<1>8. stage'[r] = "looked_up" /\ event'[r] = e
  BY <1>1 DEF RuntimeTypeOK
<1>9. Sound(r)'
  <2>1. BalancedAt(r)'
    BY <1>1, <1>8 DEF Sound, BalancedAt
  <2>2. InProgress(r)'
    BY <1>1, <1>2, <1>3, <1>8 DEF InProgress
  <2>3. KnownKept(r)'
    BY <1>1, <1>3, <1>4, <1>8 DEF KnownKept
  <2>4. ResultAt(r)' /\ RetryAt(r)' /\ AnswerAt(r)'
    BY <1>1, <1>2, <1>8 DEF ResultAt, RetryAt, AnswerAt, NoDelivery
  <2> QED
    BY <2>1, <2>2, <2>3, <2>4 DEF Sound
<1>10. \A s \in Runtimes \ {r} : Kept(s)
  BY <1>1 DEF Kept, RuntimeTypeOK
<1> QED
  BY <1>5, <1>6, <1>7, <1>9, <1>10, OthersSound

(* A committed event is compatible with the ledger that holds it.          *)
LEMMA CommittedCompatible ==
    ASSUME Consistent(ToSet(log)), NEW STATE e, Contains(log, e)
    PROVE  Compatible(log, <<e>>)
<1>1. ToSet(<<e>>) = {e}
  BY DEF ToSet
<1>2. e \in ToSet(log)
  BY DEF Contains, ToSet
<1>3. ToSet(log) \union ToSet(<<e>>) = ToSet(log)
  BY <1>1, <1>2
<1> QED
  BY <1>3 DEF Compatible

(* ledger.ingest answers for the event, or its conflict is counted.        *)
LEMMA IngestStep ==
    ASSUME RuntimeInv, NEW r \in Runtimes, Ingest(r) PROVE RuntimeInv'
<1> USE DEF RuntimeInv
<1> DEFINE batch == <<event[r]>>
           answer == AnswerOf(log, batch)[1]
<1>1. /\ stage[r] = "looked_up"
      /\ UNCHANGED <<message, known, raised, forgotten, uncredited>>
  BY DEF Ingest
<1>2. /\ event[r] \in Event /\ message[r] \in Messages
      /\ Matches(event[r], EventFrom(message[r], 0))
      /\ Ordered(event[r]) /\ last[r] = NoDelivery
  BY <1>1 DEF RuntimeTypeOK, Sound, InProgress
<1>3. /\ metrics[r] \in [Counters -> Nat] /\ raised[r] \in Nat
      /\ metrics[r]["received"] \in Nat /\ metrics[r]["accepted"] \in Nat
      /\ metrics[r]["duplicates"] \in Nat /\ metrics[r]["rejected"] \in Nat
  BY DEF RuntimeTypeOK, Counters
<1>4. /\ metrics[r]["received"] = metrics[r]["accepted"] + metrics[r]["duplicates"]
                                  + metrics[r]["rejected"] + raised[r] + 1
      /\ raised'[r] = raised[r]
  BY <1>1 DEF Sound, BalancedAt, RuntimeTypeOK
<1>5. known[r] => Contains(log, event[r])
  BY <1>1 DEF Sound, KnownKept
<1>6. CASE /\ Compatible(log, batch)
           /\ log' = log \o Fresh(log, batch)
           /\ result' = [result EXCEPT ![r] = answer]
           /\ stage' = [stage EXCEPT ![r] = "ingested"]
           /\ UNCHANGED <<event, metrics, last>>
  <2>1. /\ log' \in Seq(Event)
        /\ Len(log') >= Len(log)
        /\ \A i \in 1 .. Len(log) : log'[i] = log[i]
        /\ ToSet(log') = ToSet(log) \union {event[r]}
        /\ answer.status = IF Contains(log, event[r]) THEN "duplicate" ELSE "accepted"
        /\ answer.ordinal \in DOMAIN log'
        /\ log'[answer.ordinal] = event[r]
        /\ answer \in [status : {"none", "accepted", "duplicate"}, ordinal : Nat]
    <3>1. log \in Seq(Event)
      BY DEF RuntimeTypeOK
    <3> QED
      BY <1>2, <1>6, <3>1, SingleAnswer
  <2>2. LogExtends
    BY <2>1 DEF LogExtends
  <2>3. Consistent(ToSet(log))'
    <3>1. ToSet(batch) = {event[r]}
      BY DEF ToSet
    <3>2. ToSet(log)' = ToSet(log')
      BY DEF ToSet
    <3>3. Consistent(ToSet(log) \union {event[r]})
      BY <1>6, <3>1 DEF Compatible
    <3> QED
      BY <2>1, <3>2, <3>3 DEF Consistent
  <2> HIDE DEF answer
  <2>4. \A i \in DOMAIN log' : log'[i].ingested_at >= log'[i].observed_at
    <3>1. SUFFICES ASSUME NEW i \in DOMAIN log' PROVE Ordered(log'[i])
      BY DEF Ordered
    <3>2. log'[i] \in ToSet(log) \union {event[r]}
      BY <2>1 DEF ToSet
    <3>3. \A e \in ToSet(log) : Ordered(e)
      BY DEF RuntimeTypeOK, ToSet, Ordered
    <3> QED
      BY <1>2, <3>2, <3>3
  <2>5. RuntimeTypeOK'
    BY <1>1, <1>6, <2>1, <2>4 DEF RuntimeTypeOK
  <2>6. /\ stage'[r] = "ingested" /\ result'[r] = answer
        /\ last'[r] = NoDelivery /\ metrics'[r] = metrics[r]
        /\ event'[r] = event[r] /\ message'[r] = message[r] /\ known'[r] = known[r]
    BY <1>1, <1>2, <1>6 DEF RuntimeTypeOK
  <2>7. BalancedAt(r)'
    BY <1>4, <2>6 DEF BalancedAt
  <2>8. InProgress(r)'
    BY <1>2, <2>6 DEF InProgress
  <2>9. AnswerAt(r)'
    <3>1. Matches(log'[answer.ordinal], EventFrom(message[r], 0))
      BY <1>2, <2>1
    <3> QED
      BY <1>5, <2>1, <2>6, <3>1 DEF AnswerAt
  <2>10. Sound(r)'
    BY <2>6, <2>7, <2>8, <2>9 DEF Sound, ResultAt, RetryAt, KnownKept, NoDelivery
  <2>11. \A s \in Runtimes \ {r} : Kept(s)
    BY <1>1, <1>6 DEF Kept, RuntimeTypeOK
  <2> QED
    BY <2>2, <2>3, <2>5, <2>10, <2>11, OthersSound
<1>7. CASE /\ ~Compatible(log, batch)
           /\ metrics' = [metrics EXCEPT ![r] = Bump(@, CountedOnReject)]
           /\ last' = [last EXCEPT ![r] = Rejected("ledger_identity_conflict")]
           /\ event' = [event EXCEPT ![r] = NoMessage]
           /\ stage' = [stage EXCEPT ![r] = "idle"]
           /\ UNCHANGED <<log, result>>
  <2>1. ~known[r]
    BY <1>5, <1>7, CommittedCompatible
  <2>2. LogExtends /\ Consistent(ToSet(log))'
    BY <1>7, LogUnchanged
  <2>3. Rejected("ledger_identity_conflict") \in DeliveryResult
    BY DEF Rejected, DeliveryResult
  <2>4. metrics'[r] = Bump(metrics[r], {"rejected"})
    BY <1>7 DEF RuntimeTypeOK, CountedOnReject
  <2>5. /\ metrics'[r] \in [Counters -> Nat]
        /\ metrics'[r]["received"] = metrics[r]["received"]
        /\ metrics'[r]["rejected"] = metrics[r]["rejected"] + 1
        /\ metrics'[r]["accepted"] = metrics[r]["accepted"]
        /\ metrics'[r]["duplicates"] = metrics[r]["duplicates"]
    BY <1>3, <2>4, Bumped DEF Counters
  <2>6. metrics' \in [Runtimes -> [Counters -> Nat]]
    BY <1>7, <2>5 DEF RuntimeTypeOK
  <2>7. RuntimeTypeOK'
    BY <1>1, <1>7, <2>3, <2>6 DEF RuntimeTypeOK
  <2>8. last'[r].disposition = "rejected" /\ ~known'[r] /\ stage'[r] = "idle"
    BY <1>1, <1>7, <2>1 DEF RuntimeTypeOK, Rejected
  <2>9. BalancedAt(r)'
    BY <1>3, <1>4, <2>5, <2>8 DEF BalancedAt
  <2>10. Sound(r)'
    BY <2>8, <2>9 DEF Sound, ResultAt, RetryAt, InProgress, KnownKept, AnswerAt
  <2>11. \A s \in Runtimes \ {r} : Kept(s)
    BY <1>1, <1>7 DEF Kept, RuntimeTypeOK
  <2> QED
    BY <2>2, <2>7, <2>10, <2>11, OthersSound
<1> QED
  BY <1>6, <1>7 DEF Ingest

(* The answer of ledger.ingest is counted and reported.                    *)
LEMMA CountStep ==
    ASSUME RuntimeInv, NEW r \in Runtimes, Count(r) PROVE RuntimeInv'
<1> USE DEF RuntimeInv
<1>1. /\ stage[r] = "ingested"
      /\ metrics' = [metrics EXCEPT ![r] = Bump(@, {CountedAs(result[r].status)})]
      /\ last' = [last EXCEPT ![r] =
                    [disposition |-> result[r].status,
                     ordinal |-> result[r].ordinal, code |-> "none"]]
      /\ event' = [event EXCEPT ![r] = NoMessage]
      /\ result' = [result EXCEPT ![r] = NoResult]
      /\ stage' = [stage EXCEPT ![r] = "idle"]
      /\ UNCHANGED <<log, message, known, raised, forgotten, uncredited>>
  BY DEF Count
<1>2. PICK answer : answer = result[r]
  OBVIOUS
<1>3. /\ answer.status \in {"accepted", "duplicate"}
      /\ answer.ordinal \in DOMAIN log /\ answer.ordinal \in Nat
      /\ Matches(log[answer.ordinal], EventFrom(message[r], 0))
      /\ known[r] => answer.status = "duplicate"
      /\ message[r] \in Messages
  BY <1>1, <1>2 DEF Sound, AnswerAt, InProgress, RuntimeTypeOK
<1>4. LogExtends /\ Consistent(ToSet(log))'
  BY <1>1, LogUnchanged
<1>5. PICK counted \in {"accepted", "duplicates"} : counted = CountedAs(answer.status)
  BY DEF CountedAs
<1>6. /\ metrics[r] \in [Counters -> Nat] /\ raised[r] \in Nat
      /\ metrics[r]["received"] \in Nat /\ metrics[r]["accepted"] \in Nat
      /\ metrics[r]["duplicates"] \in Nat /\ metrics[r]["rejected"] \in Nat
  BY DEF RuntimeTypeOK, Counters
<1>7. metrics'[r] = Bump(metrics[r], {counted})
  BY <1>1, <1>2, <1>5 DEF RuntimeTypeOK
<1>8. /\ metrics'[r] \in [Counters -> Nat]
      /\ \A c \in Counters :
            metrics'[r][c] = IF c = counted THEN metrics[r][c] + 1 ELSE metrics[r][c]
  BY <1>6, <1>7, Bumped
<1>9. metrics' \in [Runtimes -> [Counters -> Nat]]
  BY <1>1, <1>8 DEF RuntimeTypeOK
<1>10. [disposition |-> answer.status, ordinal |-> answer.ordinal, code |-> "none"]
            \in DeliveryResult
  BY <1>3 DEF DeliveryResult
<1>11. RuntimeTypeOK'
  BY <1>1, <1>2, <1>9, <1>10 DEF RuntimeTypeOK, NoResult
<1>12. /\ last'[r].disposition = answer.status /\ last'[r].ordinal = answer.ordinal
       /\ stage'[r] = "idle" /\ raised'[r] = raised[r]
       /\ message'[r] = message[r] /\ known'[r] = known[r]
  BY <1>1, <1>2 DEF RuntimeTypeOK
<1>13. BalancedAt(r)'
  <2>1. /\ metrics'[r]["received"] = metrics[r]["received"]
        /\ metrics'[r]["rejected"] = metrics[r]["rejected"]
        /\ metrics'[r]["accepted"] + metrics'[r]["duplicates"]
              = metrics[r]["accepted"] + metrics[r]["duplicates"] + 1
    BY <1>5, <1>6, <1>8 DEF Counters
  <2>2. metrics'[r]["accepted"] \in Nat /\ metrics'[r]["duplicates"] \in Nat
    BY <1>8 DEF Counters
  <2>3. metrics[r]["received"] = metrics[r]["accepted"] + metrics[r]["duplicates"]
                                 + metrics[r]["rejected"] + raised[r] + 1
    BY <1>1 DEF Sound, BalancedAt
  <2> QED
    BY <1>6, <1>12, <2>1, <2>2, <2>3 DEF BalancedAt
<1>14. ResultAt(r)' /\ RetryAt(r)'
  BY <1>1, <1>3, <1>12 DEF ResultAt, RetryAt
<1>15. Sound(r)'
  BY <1>12, <1>13, <1>14 DEF Sound, InProgress, KnownKept, AnswerAt
<1>16. \A s \in Runtimes \ {r} : Kept(s)
  BY <1>1 DEF Kept, RuntimeTypeOK
<1> QED
  BY <1>4, <1>11, <1>15, <1>16, OthersSound

(* What is written off with a delivery is a number of rows.                *)
LEMMA WrittenOff ==
    ASSUME RuntimeTypeOK, NEW r, uncredited' = uncredited + Uncounted(r)
    PROVE  uncredited' \in Nat
<1>1. Uncounted(r) \in Nat
  BY DEF Uncounted
<1>2. uncredited \in Nat
  BY DEF RuntimeTypeOK
<1> QED
  BY <1>1, <1>2

(* An exception leaves the delivery without a disposition.                 *)
LEMMA RaiseStep ==
    ASSUME RuntimeInv, NEW r \in Runtimes, Raise(r) PROVE RuntimeInv'
<1> USE DEF RuntimeInv
<1>1. LogExtends /\ Consistent(ToSet(log))'
  BY LogUnchanged DEF Raise
<1>2. [NoDelivery EXCEPT !.disposition = "raised"]
        = [disposition |-> "raised", ordinal |-> 0, code |-> "none"]
  BY DEF NoDelivery
<1>3. [NoDelivery EXCEPT !.disposition = "raised"] \in DeliveryResult
  BY <1>2 DEF DeliveryResult
<1>4. RuntimeTypeOK'
  <2>1. uncredited' \in Nat
    BY WrittenOff DEF Raise
  <2> QED
    BY <1>3, <2>1 DEF RuntimeTypeOK, Raise, NoResult
<1>5. /\ stage'[r] = "idle" /\ last'[r].disposition = "raised"
      /\ raised'[r] = raised[r] + 1
  BY <1>2 DEF RuntimeTypeOK, Raise
<1>6. BalancedAt(r)'
  <2>1. /\ metrics[r]["received"] \in Nat /\ metrics[r]["accepted"] \in Nat
        /\ metrics[r]["duplicates"] \in Nat /\ metrics[r]["rejected"] \in Nat
        /\ raised[r] \in Nat
    BY DEF RuntimeTypeOK, Counters
  <2>2. metrics[r]["received"] = metrics[r]["accepted"] + metrics[r]["duplicates"]
                                 + metrics[r]["rejected"] + raised[r] + 1
    BY DEF Sound, BalancedAt, Raise
  <2> QED
    BY <1>5, <2>1, <2>2 DEF BalancedAt, Raise
<1>7. Sound(r)'
  BY <1>5, <1>6 DEF Sound, ResultAt, RetryAt, InProgress, KnownKept, AnswerAt
<1>8. \A s \in Runtimes \ {r} : Kept(s)
  BY DEF Kept, RuntimeTypeOK, Raise
<1> QED
  BY <1>1, <1>4, <1>7, <1>8, OthersSound

(* Notifications of the client touch counters that balance nothing.        *)
LEMMA NotifyStep ==
    ASSUME RuntimeInv, NEW r \in Runtimes, RecordDisconnect(r) \/ RecordReconnect(r)
    PROVE  RuntimeInv'
<1> USE DEF RuntimeInv
<1>1. PICK c \in {"disconnects", "reconnects"} :
            metrics' = [metrics EXCEPT ![r] = Bump(@, {c})]
  BY DEF RecordDisconnect, RecordReconnect
<1>2. UNCHANGED <<log, stage, message, event, result, last, known, raised,
                  forgotten, uncredited>>
  BY DEF RecordDisconnect, RecordReconnect
<1>3. LogExtends /\ Consistent(ToSet(log))'
  BY <1>2, LogUnchanged
<1>4. metrics[r] \in [Counters -> Nat] /\ metrics'[r] = Bump(metrics[r], {c})
  BY <1>1 DEF RuntimeTypeOK
<1>5. /\ metrics'[r] \in [Counters -> Nat]
      /\ metrics'[r]["received"] = metrics[r]["received"]
      /\ metrics'[r]["rejected"] = metrics[r]["rejected"]
      /\ metrics'[r]["accepted"] = metrics[r]["accepted"]
      /\ metrics'[r]["duplicates"] = metrics[r]["duplicates"]
  BY <1>4, Bumped DEF Counters
<1>6. metrics' \in [Runtimes -> [Counters -> Nat]]
  BY <1>1, <1>5 DEF RuntimeTypeOK
<1>7. RuntimeTypeOK'
  BY <1>2, <1>6 DEF RuntimeTypeOK
<1>8. BalancedAt(r)'
  BY <1>2, <1>5 DEF Sound, BalancedAt
<1>9. ResultAt(r)' /\ RetryAt(r)' /\ InProgress(r)' /\ AnswerAt(r)'
  BY <1>2 DEF Sound, ResultAt, RetryAt, InProgress, AnswerAt
<1>10. KnownKept(r)'
  BY <1>2 DEF Sound, KnownKept, Committed
<1>11. Sound(r)'
  BY <1>8, <1>9, <1>10 DEF Sound
<1>12. \A s \in Runtimes \ {r} : Kept(s)
  BY <1>1, <1>2 DEF Kept, RuntimeTypeOK
<1> QED
  BY <1>3, <1>7, <1>11, <1>12, OthersSound

(* The process that replaces a dead one has received nothing.              *)
LEMMA DieStep ==
    ASSUME RuntimeInv, NEW r \in Runtimes, Die(r) PROVE RuntimeInv'
<1> USE DEF RuntimeInv
<1>1. LogExtends /\ Consistent(ToSet(log))'
  BY LogUnchanged DEF Die
<1>2. NoDelivery \in DeliveryResult /\ Zero \in [Counters -> Nat]
  BY DEF NoDelivery, DeliveryResult, Zero
<1>3. metrics[r]["accepted"] \in Nat
  BY DEF RuntimeTypeOK, Counters
<1>4. known' \in [Runtimes -> BOOLEAN]
  BY DEF RuntimeTypeOK, Die
<1>5. RuntimeTypeOK'
  <2>1. uncredited' \in Nat
    BY WrittenOff DEF Die
  <2> QED
    BY <1>2, <1>3, <1>4, <2>1 DEF RuntimeTypeOK, Die, NoResult
<1>6. /\ stage'[r] = "idle" /\ last'[r] = NoDelivery
      /\ raised'[r] = 0 /\ metrics'[r] = Zero /\ ~known'[r]
  BY DEF RuntimeTypeOK, Die
<1>7. BalancedAt(r)'
  BY <1>6 DEF BalancedAt, Zero, Counters
<1>8. Sound(r)'
  BY <1>6, <1>7 DEF Sound, ResultAt, RetryAt, InProgress, KnownKept, AnswerAt, NoDelivery
<1>9. \A s \in Runtimes \ {r} : Kept(s)
  BY DEF Kept, RuntimeTypeOK, Die
<1> QED
  BY <1>1, <1>5, <1>8, <1>9, OthersSound

(* A step that changes nothing.                                            *)
LEMMA RuntimeStutter ==
    ASSUME RuntimeInv, UNCHANGED runtimeVars PROVE RuntimeInv'
<1> USE DEF RuntimeInv
<1>1. LogExtends /\ RuntimeTypeOK' /\ Consistent(ToSet(log))'
  BY LogUnchanged DEF runtimeVars, RuntimeTypeOK
<1>2. \A s \in Runtimes : Kept(s)
  BY DEF runtimeVars, Kept
<1> QED
  BY <1>1, <1>2, SoundKept

(* Every step of every runtime keeps the invariant.                        *)
LEMMA RuntimeNextInv == ASSUME RuntimeInv, [RuntimeNext]_runtimeVars PROVE RuntimeInv'
<1>1. CASE UNCHANGED runtimeVars
  BY <1>1, RuntimeStutter
<1>2. CASE RuntimeNext
  <2>1. PICK r \in Runtimes :
            \/ \E m \in Deliveries, now \in Times : Receive(r, m, now)
            \/ LookUp(r) \/ Ingest(r) \/ Count(r) \/ Raise(r) \/ Die(r)
    BY <1>2 DEF RuntimeNext
  <2> QED
    BY <2>1, ReceiveStep, LookUpStep, IngestStep, CountStep, RaiseStep, DieStep
<1> QED
  BY <1>1, <1>2

-----------------------------------------------------------------------------
(* Theorems.                                                               *)

(* The conjunction above holds in every state.                             *)
THEOREM RuntimeInvariance == RuntimeSpec => []RuntimeInv
BY RuntimeInitInv, RuntimeNextInv, PTL DEF RuntimeSpec

(* Every event in progress or in the log is one that from_mapping could    *)
(* have returned.                                                          *)
THEOREM RuntimeTypeCorrect == RuntimeSpec => []RuntimeTypeOK
<1>1. RuntimeInv => RuntimeTypeOK
  BY DEF RuntimeInv
<1> QED
  BY <1>1, RuntimeInvariance, PTL

(* RuntimeMetrics: every delivery is counted once as received and once     *)
(* under its disposition, if it has one.                                   *)
THEOREM CountedOnce == RuntimeSpec => []CountersBalanced
<1>1. RuntimeInv => CountersBalanced
  BY DEF RuntimeInv, Sound, BalancedAt, CountersBalanced
<1> QED
  BY <1>1, RuntimeInvariance, PTL

(* ingest: what is reported as accepted or duplicate is in the ledger, at  *)
(* the ordinal reported and with the document delivered.                   *)
THEOREM ReportedRow == RuntimeSpec => []ResultMatchesRow
<1>1. RuntimeInv => ResultMatchesRow
  BY DEF RuntimeInv, Sound, ResultAt, ResultMatchesRow
<1> QED
  BY <1>1, RuntimeInvariance, PTL

(* ingest: a retry of a committed message is a duplicate on every runtime, *)
(* whatever the others commit between its look-up and its ledger call.     *)
THEOREM Idempotence == RuntimeSpec => []RetryIdempotent
<1>1. RuntimeInv => RetryIdempotent
  BY DEF RuntimeInv, Sound, RetryAt, RetryIdempotent
<1> QED
  BY <1>1, RuntimeInvariance, PTL

-----------------------------------------------------------------------------
(* Sums over the runtimes.  The fold of the community modules is a         *)
(* recursive function on sets; that it is one, and how the sum depends on  *)
(* its terms, follows from the smallest set for which it would fail.       *)

AnyOf(s) == CHOOSE x \in s : TRUE

(* h sums the terms g over every subset of T.                              *)
Sums(h, g, T) ==
    h = [s \in SUBSET T |->
            IF s = {} THEN 0 ELSE h[s \ {AnyOf(s)}] + g[AnyOf(s)]]

Total(g, T) == (CHOOSE h : Sums(h, g, T))[T]

(* A set of subsets of a finite set has one that holds no other of them.   *)
LEMMA SmallestSubset ==
    ASSUME NEW R, IsFiniteSet(R), NEW C \in SUBSET SUBSET R, C # {}
    PROVE  \E s \in C : \A u \in C : u \subseteq s => u = s
<1>1. IsWellFoundedOn(StrictSubsetOrdering(R), SUBSET R)
  BY FS_StrictSubsetOrderingWellFounded, FS_FiniteSubsetsOfFinite
<1>2. PICK s \in C : \A u \in C : <<u, s>> \notin StrictSubsetOrdering(R)
  <2> HIDE DEF StrictSubsetOrdering, IsWellFoundedOn
  <2> QED
    BY <1>1, WFMin
<1> QED
  BY <1>2 DEF StrictSubsetOrdering

(* What a sum is of a set that is not empty.                               *)
LEMMA SumOf ==
    ASSUME NEW T, NEW h, NEW g, Sums(h, g, T), NEW s \in SUBSET T
    PROVE  /\ s = {} => h[s] = 0
           /\ s # {} => /\ AnyOf(s) \in s
                        /\ s \ {AnyOf(s)} \in SUBSET T /\ s \ {AnyOf(s)} # s
                        /\ h[s] = h[s \ {AnyOf(s)}] + g[AnyOf(s)]
<1>1. s # {} => AnyOf(s) \in s
  BY DEF AnyOf
<1>2. h[s] = IF s = {} THEN 0 ELSE h[s \ {AnyOf(s)}] + g[AnyOf(s)]
  <2> HIDE DEF AnyOf
  <2> QED
    BY DEF Sums
<1> QED
  BY <1>1, <1>2

(* The sum over no runtime.                                                *)
LEMMA SumOfNone ==
    ASSUME NEW T, NEW h, NEW g, Sums(h, g, T) PROVE h[{}] = 0
<1> HIDE DEF AnyOf
<1> QED
  BY DEF Sums

(* Two sums of the same terms agree where both are defined.                *)
LEMMA SumsAgree ==
    ASSUME NEW R, IsFiniteSet(R), NEW g, NEW h, NEW k,
           NEW A \in SUBSET R, NEW B \in SUBSET R, Sums(h, g, A), Sums(k, g, B),
           NEW s \in SUBSET (A \intersect B)
    PROVE  h[s] = k[s]
<1> DEFINE C == {u \in SUBSET (A \intersect B) : h[u] # k[u]}
<1> SUFFICES ASSUME C # {} PROVE FALSE
  OBVIOUS
<1>1. C \in SUBSET SUBSET R
  OBVIOUS
<1>2. PICK u \in C : \A v \in C : v \subseteq u => v = u
  <2> HIDE DEF C
  <2> QED
    BY <1>1, SmallestSubset
<1>3. u \in SUBSET A /\ u \in SUBSET B /\ h[u] # k[u]
  OBVIOUS
<1>4. u # {}
  BY <1>3, SumOf
<1>5. /\ AnyOf(u) \in u /\ u \ {AnyOf(u)} # u
      /\ h[u] = h[u \ {AnyOf(u)}] + g[AnyOf(u)]
      /\ k[u] = k[u \ {AnyOf(u)}] + g[AnyOf(u)]
  BY <1>3, <1>4, SumOf
<1>6. h[u \ {AnyOf(u)}] = k[u \ {AnyOf(u)}]
  BY <1>2, <1>5
<1> QED
  BY <1>3, <1>5, <1>6

(* The sum is there: it is put together from those over smaller sets.      *)
LEMMA SumExists ==
    ASSUME NEW R, IsFiniteSet(R), NEW g
    PROVE  \E h : Sums(h, g, R)
<1> DEFINE C == {T \in SUBSET R : ~ \E h : Sums(h, g, T)}
<1> SUFFICES ASSUME C # {} PROVE FALSE
  OBVIOUS
<1>1. C \in SUBSET SUBSET R
  OBVIOUS
<1>2. PICK T \in C : \A u \in C : u \subseteq T => u = T
  <2> HIDE DEF C
  <2> QED
    BY <1>1, SmallestSubset
<1> DEFINE part(u) == CHOOSE h : Sums(h, g, u)
           less(s) == s \ {AnyOf(s)}
           sum == [s \in SUBSET T |->
                    IF s = {} THEN 0 ELSE part(less(s))[less(s)] + g[AnyOf(s)]]
<1>3. ASSUME NEW u \in SUBSET T, u # T PROVE Sums(part(u), g, u)
  <2>1. \E h : Sums(h, g, u)
    BY <1>2, <1>3
  <2> HIDE DEF Sums
  <2> QED
    BY <2>1
<1>4. ASSUME NEW s \in SUBSET T, s # {}
      PROVE  less(s) \in SUBSET T /\ less(s) # T /\ AnyOf(s) \in s
  BY <1>4 DEF AnyOf
<1>5. ASSUME NEW s \in SUBSET T, s # {} PROVE sum[less(s)] = part(less(s))[less(s)]
  <2> DEFINE u == less(s)
  <2>1. u \in SUBSET T /\ u # T /\ T \in SUBSET R
    BY <1>4, <1>5
  <2>2. Sums(part(u), g, u)
    BY <1>3, <2>1
  <2>3. CASE u = {}
    <3> HIDE DEF part, u
    <3>1. part(u)[u] = 0
      BY <2>2, <2>3, SumOf
    <3>2. sum[u] = 0
      BY <2>1, <2>3
    <3> QED
      BY <3>1, <3>2 DEF u
  <2>4. CASE u # {}
    <3> DEFINE v == less(u)
    <3>1. v \in SUBSET T /\ v # T /\ v \in SUBSET u
      BY <1>4, <2>1, <2>4
    <3>2. Sums(part(v), g, v)
      BY <1>3, <3>1
    <3>3. part(u)[u] = part(u)[v] + g[AnyOf(u)]
      <4> HIDE DEF part, u
      <4> QED
        BY <2>2, <2>4, SumOf
    <3>4. part(u)[v] = part(v)[v]
      <4> HIDE DEF part, u, v
      <4>1. u \in SUBSET R /\ v \in SUBSET R /\ v \in SUBSET (u \intersect v)
        BY <2>1, <3>1
      <4> QED
        BY <2>2, <3>2, <4>1, SumsAgree
    <3>5. sum[u] = part(v)[v] + g[AnyOf(u)]
      <4> HIDE DEF part, u
      <4> QED
        BY <2>1, <2>4
    <3> QED
      BY <3>3, <3>4, <3>5
  <2> QED
    BY <2>3, <2>4
<1>6. Sums(sum, g, T)
  <2> SUFFICES sum = [s \in SUBSET T |->
                        IF s = {} THEN 0 ELSE sum[less(s)] + g[AnyOf(s)]]
    BY DEF Sums
  <2> DEFINE again == [s \in SUBSET T |->
                        IF s = {} THEN 0 ELSE sum[less(s)] + g[AnyOf(s)]]
  <2>1. ASSUME NEW s \in SUBSET T PROVE sum[s] = again[s]
    <3>1. CASE s = {}
      BY <3>1
    <3>2. CASE s # {}
      <4>1. sum[less(s)] = part(less(s))[less(s)]
        BY <1>5, <3>2
      <4>2. sum[s] = part(less(s))[less(s)] + g[AnyOf(s)]
        <5> HIDE DEF part, less
        <5> QED
          BY <3>2
      <4>3. again[s] = sum[less(s)] + g[AnyOf(s)]
        <5> HIDE DEF sum, less
        <5> QED
          BY <3>2
      <4> QED
        BY <4>1, <4>2, <4>3
    <3> QED
      BY <3>1, <3>2
  <2>2. DOMAIN sum = SUBSET T /\ DOMAIN again = SUBSET T
    OBVIOUS
  <2>3. sum = [s \in SUBSET T |-> sum[s]] /\ again = [s \in SUBSET T |-> again[s]]
    <3>1. sum = [s \in SUBSET T |-> sum[s]]
      <4> HIDE DEF part, less
      <4> QED
        OBVIOUS
    <3>2. again = [s \in SUBSET T |-> again[s]]
      <4> HIDE DEF sum, less
      <4> QED
        OBVIOUS
    <3> QED
      BY <3>1, <3>2
  <2> HIDE DEF sum, again
  <2>4. sum = again
    BY <2>1, <2>3
  <2> QED
    BY <2>4 DEF again
<1> HIDE DEF sum, Sums
<1> QED
  BY <1>2, <1>6

(* One term that grows by d makes the sum grow by d.                       *)
LEMMA SumChange ==
    ASSUME NEW R, IsFiniteSet(R), NEW g \in [R -> Int], NEW k \in [R -> Int],
           NEW r \in R, NEW d \in Int,
           k[r] = g[r] + d, \A x \in R \ {r} : k[x] = g[x]
    PROVE  Total(g, R) \in Int /\ Total(k, R) = Total(g, R) + d
<1>1. PICK h : Sums(h, g, R) /\ Total(g, R) = h[R]
  BY SumExists DEF Total
<1>2. PICK j : Sums(j, k, R) /\ Total(k, R) = j[R]
  BY SumExists DEF Total
<1> DEFINE Fits(s) == /\ h[s] \in Int
                      /\ j[s] = h[s] + (IF r \in s THEN d ELSE 0)
           C == {s \in SUBSET R : ~Fits(s)}
<1>3. C = {}
  <2> SUFFICES ASSUME C # {} PROVE FALSE
    OBVIOUS
  <2>1. C \in SUBSET SUBSET R
    OBVIOUS
  <2>2. PICK s \in C : \A u \in C : u \subseteq s => u = s
    <3> HIDE DEF C
    <3> QED
      BY <2>1, SmallestSubset
  <2>3. s \in SUBSET R /\ ~Fits(s)
    OBVIOUS
  <2>4. s # {}
    <3>1. h[{}] = 0 /\ j[{}] = 0
      BY <1>1, <1>2, SumOfNone
    <3>2. Fits({})
      BY <3>1
    <3> HIDE DEF Fits
    <3> QED
      BY <2>3, <3>2
  <2> DEFINE x == AnyOf(s)
             u == s \ {x}
  <2>5. /\ x \in s /\ u # s /\ u \in SUBSET R
        /\ h[s] = h[u] + g[x] /\ j[s] = j[u] + k[x]
    BY <1>1, <1>2, <2>3, <2>4, SumOf
  <2>6. Fits(u)
    BY <2>2, <2>5
  <2>7. x \in R /\ g[x] \in Int
    BY <2>3, <2>5
  <2>8. r \in u <=> r \in s /\ r # x
    OBVIOUS
  <2> HIDE DEF x, u
  <2>9. CASE x = r
    BY <2>3, <2>5, <2>6, <2>7, <2>8, <2>9
  <2>10. CASE x # r
    <3>1. k[x] = g[x]
      BY <2>7, <2>10
    <3> QED
      BY <2>3, <2>5, <2>6, <2>7, <2>8, <2>10, <3>1
  <2> QED
    BY <2>9, <2>10
<1> QED
  BY <1>1, <1>2, <1>3

(* Terms that are all 0 sum to 0.                                          *)
LEMMA SumZero ==
    ASSUME NEW R, IsFiniteSet(R), NEW g, \A x \in R : g[x] = 0
    PROVE  Total(g, R) = 0
<1>1. PICK h : Sums(h, g, R) /\ Total(g, R) = h[R]
  BY SumExists DEF Total
<1> DEFINE C == {s \in SUBSET R : h[s] # 0}
<1>2. C = {}
  <2> SUFFICES ASSUME C # {} PROVE FALSE
    OBVIOUS
  <2>1. C \in SUBSET SUBSET R
    OBVIOUS
  <2>2. PICK s \in C : \A u \in C : u \subseteq s => u = s
    <3> HIDE DEF C
    <3> QED
      BY <2>1, SmallestSubset
  <2>3. s # {}
    BY <1>1, SumOf
  <2>4. /\ AnyOf(s) \in s /\ s \ {AnyOf(s)} # s /\ s \ {AnyOf(s)} \in SUBSET R
        /\ h[s] = h[s \ {AnyOf(s)}] + g[AnyOf(s)]
    BY <1>1, <2>3, SumOf
  <2>5. h[s \ {AnyOf(s)}] = 0
    BY <2>2, <2>4
  <2> QED
    BY <2>4, <2>5
<1> QED
  BY <1>1, <1>2

-----------------------------------------------------------------------------
(* Every row of the ledger is credited to one delivery of one process, if  *)
(* the delivery got as far as its count.                                   *)

Credits == [r \in Runtimes |-> Credit(r)]

(* The fold over the runtimes is the sum of their credits.                 *)
LEMMA CreditIsSum ==
    /\ CreditSum = Total(Credits, Runtimes)
    /\ CreditSum' = Total(Credits', Runtimes)
<1>1. CreditSum = Total(Credits, Runtimes)
  BY DEF CreditSum, FoldSet, MapThenFoldSet, Total, Sums, AnyOf, Credits
<1>2. CreditSum' = Total(Credits', Runtimes)
  BY DEF CreditSum, FoldSet, MapThenFoldSet, Total, Sums, AnyOf, Credits
<1> QED
  BY <1>1, <1>2

(* Credits are numbers.                                                    *)
LEMMA CreditsAreNumbers ==
    ASSUME RuntimeTypeOK, RuntimeTypeOK', NEW s \in Runtimes
    PROVE  /\ metrics[s]["accepted"] \in Int /\ metrics'[s]["accepted"] \in Int
           /\ Uncounted(s) \in Int /\ Uncounted(s)' \in Int
           /\ Credit(s) \in Int /\ Credit(s)' \in Int
           /\ Credit(s) = metrics[s]["accepted"] + Uncounted(s)
           /\ Credit(s)' = metrics'[s]["accepted"] + Uncounted(s)'
<1>1. /\ metrics[s] \in [Counters -> Nat] /\ metrics'[s] \in [Counters -> Nat]
      /\ "accepted" \in Counters
  BY DEF RuntimeTypeOK, Counters
<1>2. metrics[s]["accepted"] \in Int /\ metrics'[s]["accepted"] \in Int
  BY <1>1
<1>3. Uncounted(s) \in Int /\ Uncounted(s)' \in Int
  BY DEF Uncounted
<1> QED
  BY <1>2, <1>3 DEF Credit

(* The credit changes at one runtime only, and the sum by as much.         *)
LEMMA CreditMoves ==
    ASSUME RuntimeTypeOK, RuntimeTypeOK', NEW r \in Runtimes, NEW d \in Int,
           Credit(r)' = Credit(r) + d,
           \A s \in Runtimes \ {r} : Credit(s)' = Credit(s)
    PROVE  CreditSum \in Int /\ CreditSum' = CreditSum + d
<1>1. CreditSum = Total(Credits, Runtimes) /\ CreditSum' = Total(Credits', Runtimes)
  BY CreditIsSum
<1>2. \A s \in Runtimes : Credit(s) \in Int /\ Credit(s)' \in Int
  BY CreditsAreNumbers
<1>3. PICK g \in [Runtimes -> Int] : g = Credits
  <2>1. Credits \in [Runtimes -> Int]
    BY <1>2 DEF Credits
  <2> QED
    BY <2>1
<1>4. PICK k \in [Runtimes -> Int] : k = Credits'
  <2>1. Credits' \in [Runtimes -> Int]
    BY <1>2 DEF Credits
  <2> QED
    BY <2>1
<1>5. k[r] = g[r] + d /\ \A s \in Runtimes \ {r} : k[s] = g[s]
  BY <1>3, <1>4 DEF Credits
<1>6. Total(g, Runtimes) \in Int /\ Total(k, Runtimes) = Total(g, Runtimes) + d
  BY <1>5, SumChange, ProcessAssumption
<1> HIDE DEF CreditSum
<1> QED
  BY <1>1, <1>3, <1>4, <1>6

(* What one runtime gains in credit, and what is written off, is what the  *)
(* ledger gains in rows.                                                   *)
LEMMA CreditBalance ==
    ASSUME RuntimeTypeOK, RuntimeTypeOK', RowsCredited, NEW r \in Runtimes,
           NEW d \in Int, NEW e \in Int,
           Credit(r)' = Credit(r) + d,
           \A s \in Runtimes \ {r} : Credit(s)' = Credit(s),
           Len(log') = Len(log) + e,
           forgotten' + uncredited' + d = forgotten + uncredited + e
    PROVE  RowsCredited'
<1>1. CreditSum \in Int /\ CreditSum' = CreditSum + d
  BY CreditMoves
<1> HIDE DEF CreditSum
<1>2. /\ forgotten \in Int /\ forgotten' \in Int
      /\ uncredited \in Int /\ uncredited' \in Int
      /\ Len(log) \in Int
  BY DEF RuntimeTypeOK
<1>3. CreditSum + forgotten + uncredited = Len(log)
  BY DEF RowsCredited
<1>4. PICK a \in Int, b \in Int : a = CreditSum /\ b = CreditSum'
  BY <1>1
<1>5. PICK f \in Int, g \in Int : f = forgotten /\ g = forgotten'
  BY <1>2
<1>6. PICK u \in Int, v \in Int : u = uncredited /\ v = uncredited'
  BY <1>2
<1>7. PICK n \in Int : n = Len(log)
  BY <1>2
<1>8. /\ a + f + u = n /\ b = a + d
      /\ g + v + d = f + u + e
  BY <1>1, <1>3, <1>4, <1>5, <1>6, <1>7
<1>9. b + g + v = n + e
  BY <1>8
<1>10. CreditSum' + forgotten' + uncredited' = Len(log')
  BY <1>4, <1>5, <1>6, <1>7, <1>9
<1> QED
  BY <1>10 DEF RowsCredited

(* A step that commits nothing and leaves every credit as it was.          *)
LEMMA NothingCredited ==
    ASSUME RuntimeTypeOK, RuntimeTypeOK', RowsCredited, NEW r \in Runtimes,
           UNCHANGED <<log, forgotten, uncredited>>,
           \A s \in Runtimes : Credit(s)' = Credit(s)
    PROVE  RowsCredited'
<1>1. Credit(r) \in Int
  BY CreditsAreNumbers
<1> HIDE DEF RowsCredited
<1>2. PICK d \in Int : d = 0
  OBVIOUS
<1>3. Credit(r)' = Credit(r) + d
  BY <1>1, <1>2
<1>4. Len(log') = Len(log) + d
  BY <1>2 DEF RuntimeTypeOK
<1>5. forgotten' + uncredited' + d = forgotten + uncredited + d
  OBVIOUS
<1> QED
  BY <1>3, <1>4, <1>5, CreditBalance

(* The runtimes that do not move keep their credit.                        *)
LEMMA OtherCredits ==
    ASSUME NEW r, \A s \in Runtimes \ {r} : Kept(s)
    PROVE  \A s \in Runtimes \ {r} : Credit(s)' = Credit(s)
BY DEF Kept, Credit, Uncounted

(* ledger.ingest: a credit is due exactly when a row is new.               *)
LEMMA IngestCredits ==
    ASSUME RuntimeInv, RuntimeTypeOK', RowsCredited, NEW r \in Runtimes, Ingest(r)
    PROVE  RowsCredited'
<1> HIDE DEF RowsCredited
<1> DEFINE batch == <<event[r]>>
           answer == AnswerOf(log, batch)[1]
<1>0. RuntimeTypeOK
  BY DEF RuntimeInv
<1>1. /\ event[r] \in Event /\ log \in Seq(Event) /\ stage[r] = "looked_up"
      /\ UNCHANGED <<forgotten, uncredited>> /\ forgotten \in Nat /\ uncredited \in Nat
  BY <1>0 DEF Ingest, RuntimeTypeOK
<1>2. \A s \in Runtimes \ {r} : Credit(s)' = Credit(s)
  <2>1. \A s \in Runtimes \ {r} : Kept(s)
    BY <1>0 DEF Kept, Ingest, RuntimeTypeOK
  <2> QED
    BY <2>1, OtherCredits
<1>3. Uncounted(r) = 0
  BY <1>1 DEF Uncounted
<1>4. CASE /\ Compatible(log, batch)
           /\ log' = log \o Fresh(log, batch)
           /\ result' = [result EXCEPT ![r] = answer]
           /\ stage' = [stage EXCEPT ![r] = "ingested"]
           /\ UNCHANGED <<event, metrics, last>>
  <2> DEFINE d == IF Contains(log, event[r]) THEN 0 ELSE 1
  <2>1. answer.status = IF Contains(log, event[r]) THEN "duplicate" ELSE "accepted"
    BY <1>1, <1>4, SingleAnswer
  <2> HIDE DEF answer
  <2>2. stage'[r] = "ingested" /\ result'[r] = answer /\ metrics' = metrics
    BY <1>0, <1>4 DEF RuntimeTypeOK
  <2>3. Uncounted(r)' = d
    BY <2>1, <2>2 DEF Uncounted
  <2>4. Len(log') = Len(log) + d
    <3>1. CASE Contains(log, event[r])
      BY <1>1, <1>4, <3>1, SingleBatch
    <3>2. CASE ~Contains(log, event[r])
      <4>1. log' = log \o <<event[r]>>
        BY <1>1, <1>4, <3>2, SingleBatch
      <4>2. Len(log') = Len(log) + Len(<<event[r]>>) /\ Len(<<event[r]>>) = 1
        BY <1>1, <4>1
      <4> QED
        BY <3>2, <4>2
    <3> QED
      BY <3>1, <3>2
  <2>5. d \in Int
    OBVIOUS
  <2> HIDE DEF d
  <2>6. Credit(r)' = Credit(r) + d
    <3>1. /\ metrics[r]["accepted"] \in Int
          /\ Credit(r) = metrics[r]["accepted"] + Uncounted(r)
          /\ Credit(r)' = metrics'[r]["accepted"] + Uncounted(r)'
      BY <1>0, CreditsAreNumbers
    <3> QED
      BY <1>3, <2>2, <2>3, <2>5, <3>1
  <2>7. forgotten' + uncredited' + d = forgotten + uncredited + d
    BY <1>1
  <2> QED
    BY <1>0, <1>2, <2>4, <2>5, <2>6, <2>7, CreditBalance
<1>5. CASE /\ ~Compatible(log, batch)
           /\ metrics' = [metrics EXCEPT ![r] = Bump(@, CountedOnReject)]
           /\ last' = [last EXCEPT ![r] = Rejected("ledger_identity_conflict")]
           /\ event' = [event EXCEPT ![r] = NoMessage]
           /\ stage' = [stage EXCEPT ![r] = "idle"]
           /\ UNCHANGED <<log, result>>
  <2>1. metrics'[r]["accepted"] = metrics[r]["accepted"]
    BY <1>0, <1>5 DEF Bump, CountedOnReject, Counters, RuntimeTypeOK
  <2>2. Uncounted(r)' = 0
    BY <1>0, <1>5 DEF Uncounted, RuntimeTypeOK
  <2>3. Credit(r)' = Credit(r)
    BY <1>3, <2>1, <2>2 DEF Credit
  <2>4. \A s \in Runtimes : Credit(s)' = Credit(s)
    BY <1>2, <2>3
  <2>5. UNCHANGED <<log, forgotten, uncredited>>
    BY <1>1, <1>5
  <2> QED
    BY <1>0, <2>4, <2>5, NothingCredited
<1> QED
  BY <1>4, <1>5 DEF Ingest

(* The count of the answer takes over the credit that was due.             *)
LEMMA CountCredits ==
    ASSUME RuntimeInv, RuntimeTypeOK', RowsCredited, NEW r \in Runtimes, Count(r)
    PROVE  RowsCredited'
<1> HIDE DEF RowsCredited
<1>0. RuntimeTypeOK
  BY DEF RuntimeInv
<1>1. \A s \in Runtimes \ {r} : Credit(s)' = Credit(s)
  <2>1. \A s \in Runtimes \ {r} : Kept(s)
    BY <1>0 DEF Kept, Count, RuntimeTypeOK
  <2> QED
    BY <2>1, OtherCredits
<1>2. /\ stage[r] = "ingested" /\ stage'[r] = "idle"
      /\ metrics'[r] = Bump(metrics[r], {CountedAs(result[r].status)})
      /\ metrics[r] \in [Counters -> Nat]
      /\ UNCHANGED <<log, forgotten, uncredited>>
  BY <1>0 DEF Count, RuntimeTypeOK
<1>3. metrics'[r]["accepted"] = metrics[r]["accepted"] + Uncounted(r)
  BY <1>2 DEF Bump, CountedAs, Counters, Uncounted
<1>4. Uncounted(r)' = 0
  BY <1>2 DEF Uncounted
<1>5. Credit(r)' = Credit(r)
  BY <1>0, <1>3, <1>4, CreditsAreNumbers
<1>6. \A s \in Runtimes : Credit(s)' = Credit(s)
  BY <1>1, <1>5
<1> QED
  BY <1>0, <1>2, <1>6, NothingCredited

(* An exception between COMMIT and the count writes the credit off.        *)
LEMMA RaiseCredits ==
    ASSUME RuntimeInv, RuntimeTypeOK', RowsCredited, NEW r \in Runtimes, Raise(r)
    PROVE  RowsCredited'
<1> HIDE DEF RowsCredited
<1>0. RuntimeTypeOK
  BY DEF RuntimeInv
<1>1. \A s \in Runtimes \ {r} : Credit(s)' = Credit(s)
  <2>1. \A s \in Runtimes \ {r} : Kept(s)
    BY <1>0 DEF Kept, Raise, RuntimeTypeOK
  <2> QED
    BY <2>1, OtherCredits
<1>2. /\ stage'[r] = "idle" /\ UNCHANGED <<log, metrics, forgotten>>
      /\ uncredited' = uncredited + Uncounted(r)
      /\ forgotten \in Int /\ uncredited \in Int /\ Len(log) \in Int
  BY <1>0 DEF Raise, RuntimeTypeOK
<1>3. Uncounted(r)' = 0
  BY <1>2 DEF Uncounted
<1>4. PICK d \in Int : d = 0 - Uncounted(r)
  BY <1>0, CreditsAreNumbers
<1>5. /\ metrics[r]["accepted"] \in Int /\ Uncounted(r) \in Int
      /\ Credit(r) = metrics[r]["accepted"] + Uncounted(r)
      /\ Credit(r)' = metrics'[r]["accepted"] + Uncounted(r)'
  BY <1>0, CreditsAreNumbers
<1>6. Credit(r)' = Credit(r) + d
  BY <1>2, <1>3, <1>4, <1>5
<1>7. forgotten' + uncredited' + d = forgotten + uncredited + 0
  BY <1>2, <1>4, <1>5
<1>8. Len(log') = Len(log) + 0
  BY <1>2
<1> QED
  BY <1>0, <1>1, <1>6, <1>7, <1>8, CreditBalance

(* A process that dies takes its counters with it: they are remembered,    *)
(* and a credit that was due is written off.                               *)
LEMMA DieCredits ==
    ASSUME RuntimeInv, RuntimeTypeOK', RowsCredited, NEW r \in Runtimes, Die(r)
    PROVE  RowsCredited'
<1> HIDE DEF RowsCredited
<1>0. RuntimeTypeOK
  BY DEF RuntimeInv
<1>1. \A s \in Runtimes \ {r} : Credit(s)' = Credit(s)
  <2>1. \A s \in Runtimes \ {r} : Kept(s)
    BY <1>0 DEF Kept, Die, RuntimeTypeOK
  <2> QED
    BY <2>1, OtherCredits
<1>2. /\ stage'[r] = "idle" /\ metrics'[r] = Zero /\ UNCHANGED log
      /\ forgotten' = forgotten + metrics[r]["accepted"]
      /\ uncredited' = uncredited + Uncounted(r)
      /\ forgotten \in Int /\ uncredited \in Int /\ Len(log) \in Int
  BY <1>0 DEF Die, RuntimeTypeOK
<1>3. Uncounted(r)' = 0 /\ metrics'[r]["accepted"] = 0
  BY <1>2 DEF Uncounted, Zero, Counters
<1>4. /\ metrics[r]["accepted"] \in Int /\ Uncounted(r) \in Int
      /\ Credit(r) \in Int
      /\ Credit(r) = metrics[r]["accepted"] + Uncounted(r)
      /\ Credit(r)' = metrics'[r]["accepted"] + Uncounted(r)'
  BY <1>0, CreditsAreNumbers
<1>5. PICK d \in Int : d = 0 - Credit(r)
  BY <1>4
<1>6. Credit(r)' = Credit(r) + d
  BY <1>3, <1>4, <1>5
<1>7. forgotten' + uncredited' + d = forgotten + uncredited + 0
  BY <1>2, <1>4, <1>5
<1>8. Len(log') = Len(log) + 0
  BY <1>2
<1> QED
  BY <1>0, <1>1, <1>6, <1>7, <1>8, CreditBalance

(* Every step of every runtime credits what it commits, or writes it off.  *)
LEMMA CreditNext ==
    ASSUME RuntimeInv, RuntimeInv', RowsCredited, [RuntimeNext]_runtimeVars
    PROVE  RowsCredited'
<1>1. RuntimeTypeOK /\ RuntimeTypeOK'
  BY DEF RuntimeInv
<1>2. CASE UNCHANGED runtimeVars
  BY <1>2 DEF runtimeVars, RowsCredited, CreditSum, Credit, Uncounted, FoldSet,
              MapThenFoldSet
<1> HIDE DEF RowsCredited
<1>3. ASSUME NEW r \in Runtimes, NEW m \in Deliveries, NEW now \in Times, Receive(r, m, now)
      PROVE  RowsCredited'
  <2>1. /\ UNCHANGED <<log, forgotten, uncredited>> /\ stage[r] = "idle"
        /\ stage'[r] # "ingested"
        /\ \E counted \in {{"received"}, {"received"} \union CountedOnReject} :
                metrics' = [metrics EXCEPT ![r] = Bump(@, counted)]
    BY <1>1, <1>3 DEF Receive, RuntimeTypeOK
  <2>2. metrics'[r]["accepted"] = metrics[r]["accepted"]
    <3>1. PICK counted \in {{"received"}, {"received"} \union CountedOnReject} :
                metrics' = [metrics EXCEPT ![r] = Bump(@, counted)]
      BY <2>1
    <3>2. /\ metrics'[r] = Bump(metrics[r], counted) /\ "accepted" \notin counted
          /\ metrics[r] \in [Counters -> Nat] /\ "accepted" \in Counters
      BY <1>1, <3>1 DEF CountedOnReject, RuntimeTypeOK, Counters
    <3> QED
      BY <3>2, Bumped
  <2>3. Uncounted(r) = 0 /\ Uncounted(r)' = 0
    BY <2>1 DEF Uncounted
  <2>4. Credit(r)' = Credit(r)
    BY <2>2, <2>3 DEF Credit
  <2>5. \A s \in Runtimes \ {r} : Kept(s)
    BY <1>1, <1>3 DEF Kept, Receive, RuntimeTypeOK
  <2>6. \A s \in Runtimes : Credit(s)' = Credit(s)
    BY <2>4, <2>5, OtherCredits
  <2> QED
    BY <1>1, <2>1, <2>6, NothingCredited
<1>4. ASSUME NEW r \in Runtimes, LookUp(r) PROVE RowsCredited'
  <2>1. UNCHANGED <<log, forgotten, uncredited, metrics>>
    BY <1>4 DEF LookUp
  <2>2. Uncounted(r) = 0 /\ Uncounted(r)' = 0
    BY <1>1, <1>4 DEF LookUp, Uncounted, RuntimeTypeOK
  <2>3. Credit(r)' = Credit(r)
    BY <2>1, <2>2 DEF Credit
  <2>4. \A s \in Runtimes \ {r} : Kept(s)
    BY <1>1, <1>4 DEF Kept, LookUp, RuntimeTypeOK
  <2>5. \A s \in Runtimes : Credit(s)' = Credit(s)
    BY <2>3, <2>4, OtherCredits
  <2> QED
    BY <1>1, <2>1, <2>5, NothingCredited
<1> QED
  BY <1>1, <1>2, <1>3, <1>4, IngestCredits, CountCredits, RaiseCredits, DieCredits
     DEF RuntimeNext

(* MqttIngestionRuntime.ingest: the rows of the ledger are the accepted    *)
(* counters of all processes, those that died included, the rows whose     *)
(* answer is still to be counted, and those whose delivery ended between   *)
(* COMMIT and its count; no row is credited twice.                         *)
THEOREM CreditedOnce == RuntimeSpec => []RowsCredited
<1>1. RuntimeInit => RowsCredited
  <2> SUFFICES ASSUME RuntimeInit PROVE RowsCredited
    OBVIOUS
  <2>1. CreditSum = Total(Credits, Runtimes)
    BY CreditIsSum
  <2>2. PICK g : g = Credits
    OBVIOUS
  <2>3. \A r \in Runtimes : g[r] = 0
    <3>1. \A r \in Runtimes : Credit(r) = 0
      BY DEF RuntimeInit, Credit, Uncounted, Zero, Counters
    <3> QED
      BY <2>2, <3>1 DEF Credits
  <2>4. Total(g, Runtimes) = 0
    BY <2>3, SumZero, ProcessAssumption
  <2>5. forgotten = 0 /\ uncredited = 0 /\ Len(log) = 0
    BY DEF RuntimeInit
  <2> HIDE DEF CreditSum
  <2> QED
    BY <2>1, <2>2, <2>4, <2>5 DEF RowsCredited
<1>2. RuntimeInv /\ RuntimeInv' /\ RowsCredited /\ [RuntimeNext]_runtimeVars => RowsCredited'
  BY CreditNext
<1> QED
  BY <1>1, <1>2, RuntimeInvariance, PTL DEF RuntimeSpec
=============================================================================
