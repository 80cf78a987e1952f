---------------------------- MODULE OfflineProofs ----------------------------
(***************************************************************************)
(* Proofs about the command-line tools that keep a state of their own:     *)
(* recovery campaigns of any size, killed after any delivery, and imports  *)
(* of any files.                                                           *)
(***************************************************************************)
EXTENDS Recovery, Historical, FiniteSetTheorems, SequenceTheorems, TLAPS

-----------------------------------------------------------------------------
(* Recovery: the ledger at every point is a prefix of the events as they   *)
(* arrive first.                                                           *)

FirstArrival(r, i) ==
    [Baseline(r.count)[i] EXCEPT
        !.ingested_at = @ + (IF i <= r.crash_after THEN 0 ELSE Downtime)]

LogUpTo(r, n) == [i \in 1 .. n |-> FirstArrival(r, i)]

(* What the runtime that redelivers has counted after n deliveries.        *)
CountedAfter(r, n) ==
    [accepted    |-> IF n <= r.crash_after THEN 0 ELSE n - r.crash_after,
     duplicate   |-> IF n <= r.crash_after THEN n ELSE r.crash_after,
     rejected    |-> 0,
     disconnects |-> 1,
     reconnects  |-> 1]

Running == {"reference", "child", "reopen", "redeliver"}

RecoveryInv ==
    /\ request \in [count : Int, crash_after : Int]
    /\ ~workspace => disk = <<>>
    /\ stage \in {"ready", "refused", "failed", "verified"} \union Running
    /\ stage \in Running => Admissible(request) /\ workspace
    /\ stage = "reference" =>
        /\ delivered \in 0 .. request.count
        /\ reference = LogUpTo(request, delivered)
        /\ disk = <<>> /\ metrics = NoMetrics
    /\ stage = "child" =>
        /\ delivered \in 0 .. request.crash_after
        /\ reference = LogUpTo(request, request.count)
        /\ disk = LogUpTo(request, delivered) /\ metrics = NoMetrics
    /\ stage = "reopen" =>
        /\ delivered = 0
        /\ reference = LogUpTo(request, request.count)
        /\ disk = LogUpTo(request, request.crash_after) /\ metrics = NoMetrics
    /\ stage = "redeliver" =>
        /\ delivered \in 0 .. request.count
        /\ reference = LogUpTo(request, request.count)
        /\ committed = request.crash_after
        /\ metrics = CountedAfter(request, delivered)
        /\ disk = LogUpTo(request, IF delivered <= request.crash_after
                                   THEN request.crash_after ELSE delivered)
    /\ RedeliveryExact

(* The simulated events as they arrive: each with its own number as        *)
(* identity and position, and never received before it was observed.       *)
LEMMA Arrivals ==
    ASSUME NEW r \in [count : Int, crash_after : Int], NEW i \in 1 .. r.count
    PROVE  /\ FirstArrival(r, i).event_id = i - 1
           /\ Position(FirstArrival(r, i)) = <<SimulatedSource, i - 1>>
           /\ Ordered(FirstArrival(r, i))
           /\ ProducerPart(FirstArrival(r, i)) = ProducerPart(Baseline(r.count)[i])
           /\ Baseline(r.count)[i].event_id = i - 1
           /\ Baseline(r.count)[i].ingested_at \in Nat
           /\ FirstArrival(r, i) = [Baseline(r.count)[i] EXCEPT !.ingested_at =
                Baseline(r.count)[i].ingested_at
                    + (IF i <= r.crash_after THEN 0 ELSE Downtime)]
<1> DEFINE e == Baseline(r.count)[i]
<1>1. e = [event_id        |-> i - 1,
           source_id       |-> SimulatedSource,
           source_sequence |-> i - 1,
           observed_at     |-> (i - 1) * 10,
           ingested_at     |-> (i - 1) * 10 + 1,
           payload         |-> i - 1]
  BY DEF Baseline, SimulatedEvent, IntervalSeconds
<1>2. i - 1 \in Nat /\ (i - 1) * 10 \in Nat
  BY SMT
<1> DEFINE late == IF i <= r.crash_after THEN 0 ELSE Downtime
<1>3. late \in Nat
  BY DEF Downtime
<1> HIDE DEF late
<1>4. [e EXCEPT !.ingested_at = @ + late]
         = [event_id        |-> i - 1,
            source_id       |-> SimulatedSource,
            source_sequence |-> i - 1,
            observed_at     |-> (i - 1) * 10,
            ingested_at     |-> (i - 1) * 10 + 1 + late,
            payload         |-> i - 1]
  BY <1>1
<1>5. FirstArrival(r, i) = [e EXCEPT !.ingested_at = @ + late]
  BY DEF FirstArrival, late
<1>6. FirstArrival(r, i) = [e EXCEPT !.ingested_at = e.ingested_at + late]
  BY <1>4, <1>5, <1>1
<1> HIDE DEF e
<1>7. /\ FirstArrival(r, i).event_id = i - 1
      /\ Position(FirstArrival(r, i)) = <<SimulatedSource, i - 1>>
      /\ ProducerPart(FirstArrival(r, i)) = ProducerPart(e)
      /\ e.event_id = i - 1 /\ e.ingested_at \in Nat
  BY <1>1, <1>2, <1>4, <1>5 DEF Position, ProducerPart
<1>8. Ordered(FirstArrival(r, i))
  <2>1. (i - 1) * 10 + 1 + late >= (i - 1) * 10
    BY <1>2, <1>3
  <2> QED
    BY <1>4, <1>5, <2>1 DEF Ordered
<1> QED
  BY <1>6, <1>7, <1>8 DEF e, late

(* The ledger after n first arrivals.                                      *)
LEMMA LogFacts ==
    ASSUME NEW r \in [count : Int, crash_after : Int], NEW n \in 0 .. r.count
    PROVE  /\ DOMAIN LogUpTo(r, n) = 1 .. n
           /\ Len(LogUpTo(r, n)) = n
           /\ ToSet(LogUpTo(r, n)) = {FirstArrival(r, i) : i \in 1 .. n}
           /\ Consistent(ToSet(LogUpTo(r, n)))
<1>1. DOMAIN LogUpTo(r, n) = 1 .. n /\ \A i \in 1 .. n : LogUpTo(r, n)[i] = FirstArrival(r, i)
  BY DEF LogUpTo
<1>2. Len(LogUpTo(r, n)) = n
  BY DEF LogUpTo
<1>3. ToSet(LogUpTo(r, n)) = {FirstArrival(r, i) : i \in 1 .. n}
  BY <1>1 DEF ToSet
<1>4. ASSUME NEW e \in ToSet(LogUpTo(r, n)), NEW f \in ToSet(LogUpTo(r, n)),
             e.event_id = f.event_id \/ Position(e) = Position(f)
      PROVE  e = f
  <2>1. PICK i \in 1 .. n : e = FirstArrival(r, i)
    BY <1>3
  <2>2. PICK j \in 1 .. n : f = FirstArrival(r, j)
    BY <1>3
  <2>3. i \in 1 .. r.count /\ j \in 1 .. r.count
    OBVIOUS
  <2>4. /\ e.event_id = i - 1 /\ f.event_id = j - 1
        /\ Position(e) = <<SimulatedSource, i - 1>>
        /\ Position(f) = <<SimulatedSource, j - 1>>
    BY <2>1, <2>2, <2>3, Arrivals
  <2>5. i - 1 = j - 1
    BY <1>4, <2>4
  <2>6. i = j
    BY <2>5
  <2> QED
    BY <2>1, <2>2, <2>6
<1> QED
  BY <1>1, <1>2, <1>3, <1>4 DEF Consistent

(* The next event, received when it first arrives, is accepted.            *)
LEMMA DeliverNext ==
    ASSUME NEW r \in [count : Int, crash_after : Int],
           NEW n \in 0 .. r.count - 1, NEW at \in Nat,
           at = Baseline(r.count)[n + 1].ingested_at
                    + (IF n + 1 <= r.crash_after THEN 0 ELSE Downtime)
    PROVE  Delivered(LogUpTo(r, n), Baseline(r.count)[n + 1], at)
                = [log |-> LogUpTo(r, n + 1), as |-> "accepted"]
<1> DEFINE l == LogUpTo(r, n)
           e == Baseline(r.count)[n + 1]
           f == FirstArrival(r, n + 1)
<1>1. n + 1 \in 1 .. r.count /\ n \in 0 .. r.count /\ n + 1 \in 0 .. r.count
  OBVIOUS
<1>2. /\ f = [e EXCEPT !.ingested_at = at]
      /\ f.event_id = n + 1 - 1 /\ Ordered(f)
  BY <1>1, Arrivals
<1>3. \A s \in ToSet(l) : s.event_id # n
  <2> SUFFICES ASSUME NEW s \in ToSet(l) PROVE s.event_id # n
    OBVIOUS
  <2>1. PICK i \in 1 .. n : s = FirstArrival(r, i)
    BY <1>1, LogFacts
  <2>2. i \in 1 .. r.count
    BY <1>1
  <2> QED
    BY <2>1, <2>2, Arrivals
<1>4. f.event_id = n
  BY <1>2
<1> HIDE DEF l, f, e
<1>5. {s \in ToSet(l) : ProducerPart(s) = ProducerPart(f)} = {}
  BY <1>3, <1>4 DEF ProducerPart
<1>6. Offered(l, e, at) = f
  BY <1>2, <1>5 DEF Offered
<1>7. ~Contains(l, f)
  BY <1>3, <1>4 DEF Contains, ToSet
<1>8. Append(l, f) = LogUpTo(r, n + 1)
  BY <1>1 DEF l, f, LogUpTo
<1>9. Compatible(l, <<f>>)
  <2>1. ToSet(<<f>>) = {f}
    BY DEF ToSet
  <2>2. ToSet(l) \union {f} = ToSet(LogUpTo(r, n + 1))
    <3>1. ToSet(l) = {FirstArrival(r, i) : i \in 1 .. n}
      BY <1>1, LogFacts DEF l
    <3>2. ToSet(LogUpTo(r, n + 1)) = {FirstArrival(r, i) : i \in 1 .. n + 1}
      BY <1>1, LogFacts
    <3>3. 1 .. n + 1 = 1 .. n \union {n + 1}
      BY <1>1
    <3> QED
      BY <3>1, <3>2, <3>3 DEF f
  <2>3. Consistent(ToSet(LogUpTo(r, n + 1)))
    BY <1>1, LogFacts
  <2> QED
    BY <2>1, <2>2, <2>3 DEF Compatible
<1> QED
  BY <1>2, <1>6, <1>7, <1>8, <1>9 DEF Delivered, l, e

(* An event that is committed is a duplicate, whenever it is received.     *)
LEMMA DeliverAgain ==
    ASSUME NEW r \in [count : Int, crash_after : Int],
           NEW n \in 0 .. r.count, NEW k \in 1 .. n, NEW at
    PROVE  Delivered(LogUpTo(r, n), Baseline(r.count)[k], at)
                = [log |-> LogUpTo(r, n), as |-> "duplicate"]
<1> DEFINE l == LogUpTo(r, n)
           e == Baseline(r.count)[k]
           f == FirstArrival(r, k)
           candidate == [e EXCEPT !.ingested_at = at]
<1>1. k \in 1 .. r.count
  OBVIOUS
<1>2. f.event_id = k - 1 /\ Ordered(f) /\ ProducerPart(f) = ProducerPart(e)
  BY <1>1, Arrivals
<1>3. ProducerPart(candidate) = ProducerPart(e)
  <2>1. e = SimulatedEvent(k - 1)
    BY <1>1 DEF Baseline
  <2> QED
    BY <2>1 DEF ProducerPart, SimulatedEvent
<1>4. f \in ToSet(l)
  BY LogFacts
<1>5. ASSUME NEW s \in ToSet(l), ProducerPart(s) = ProducerPart(f) PROVE s = f
  <2>1. s.event_id = f.event_id
    BY <1>5 DEF ProducerPart
  <2>2. Consistent(ToSet(l))
    BY LogFacts
  <2> HIDE DEF l, f
  <2> QED
    BY <1>4, <2>1, <2>2 DEF Consistent
<1>6. Offered(l, e, at) = f
  <2> DEFINE matching == {s \in ToSet(l) : ProducerPart(s) = ProducerPart(candidate)}
  <2>1. matching = {f}
    <3> HIDE DEF l, f, e, candidate
    <3> QED
      BY <1>2, <1>3, <1>4, <1>5
  <2>2. Offered(l, e, at) = IF matching # {} THEN CHOOSE s \in matching : TRUE ELSE candidate
    BY DEF Offered
  <2> HIDE DEF matching, l, f, e, candidate
  <2> QED
    BY <2>1, <2>2
<1>7. Contains(l, f)
  <2> HIDE DEF l, f
  <2> QED
    BY <1>4 DEF Contains, ToSet
<1>8. Compatible(l, <<f>>)
  <2>1. ToSet(<<f>>) = {f}
    BY DEF ToSet
  <2>2. Consistent(ToSet(l))
    BY LogFacts
  <2> HIDE DEF l, f
  <2>3. ToSet(l) \union ToSet(<<f>>) = ToSet(l)
    BY <1>4, <2>1
  <2> QED
    BY <2>2, <2>3 DEF Compatible
<1> HIDE DEF l, f, e
<1> QED
  BY <1>2, <1>6, <1>7, <1>8 DEF Delivered, l, e

(* No campaign has run.                                                    *)
LEMMA RecoveryInitInv == ASSUME RecoveryInit PROVE RecoveryInv
BY DEF RecoveryInit, RecoveryInv, Running, RedeliveryExact

(* A campaign starts on a free workspace and an empty ledger, or is        *)
(* refused.                                                                *)
LEMMA RunStep == ASSUME RecoveryInv, Run PROVE RecoveryInv'
<1>1. /\ request' \in Requests
      /\ reference' = <<>> /\ delivered' = 0 /\ metrics' = NoMetrics /\ disk' = disk
  BY DEF Run
<1>2. request' \in [count : Int, crash_after : Int]
  BY <1>1, RequestAssumption
<1>3. CASE Admissible(request') /\ ~workspace /\ stage' = "reference" /\ workspace' = TRUE
  <2>1. disk' = <<>>
    BY <1>1, <1>3 DEF RecoveryInv
  <2>2. 0 \in 0 .. request'.count
    BY <1>2, <1>3 DEF Admissible
  <2>3. LogUpTo(request', 0) = <<>>
    BY DEF LogUpTo
  <2> QED
    BY <1>1, <1>2, <1>3, <2>1, <2>2, <2>3
       DEF RecoveryInv, Running, RedeliveryExact, Admissible
<1>4. CASE stage' = "refused" /\ UNCHANGED workspace
  BY <1>1, <1>2, <1>4 DEF RecoveryInv, Running, RedeliveryExact
<1> QED
  BY <1>3, <1>4 DEF Run, WorkspaceFree

(* The uninterrupted run.                                                  *)
LEMMA DeliverReferenceStep == ASSUME RecoveryInv, DeliverReference PROVE RecoveryInv'
<1>1. PICK r \in [count : Int, crash_after : Int], n \in Nat :
        request = r /\ delivered = n
  BY DEF RecoveryInv, DeliverReference
<1>2. /\ stage = "reference" /\ n \in 0 .. r.count - 1
      /\ Admissible(r) /\ workspace /\ disk = <<>> /\ metrics = NoMetrics
      /\ reference = LogUpTo(r, n)
      /\ delivered' = n + 1
      /\ UNCHANGED <<request, attempts, workspace, disk, committed, metrics>>
  BY <1>1 DEF RecoveryInv, DeliverReference, Running, Admissible
<1> DEFINE at == Baseline(r.count)[n + 1].ingested_at
                    + (IF n + 1 <= r.crash_after THEN 0 ELSE Downtime)
<1>3. ReceivedAt(delivered + 1) = at /\ at \in Nat /\ Events = Baseline(r.count)
  <2>1. n + 1 \in 1 .. r.count
    BY <1>2
  <2>2. Baseline(r.count)[n + 1].ingested_at \in Nat
    BY <2>1, Arrivals
  <2> HIDE DEF at
  <2>3. at \in Nat
    BY <2>2 DEF Downtime, at
  <2> QED
    BY <1>1, <2>3 DEF ReceivedAt, Events, at
<1>4. Delivered(LogUpTo(r, n), Baseline(r.count)[n + 1], at)
        = [log |-> LogUpTo(r, n + 1), as |-> "accepted"]
  BY <1>2, <1>3, DeliverNext
<1> HIDE DEF at
<1>5. reference' = LogUpTo(r, n + 1) /\ stage' = "reference"
  BY <1>1, <1>2, <1>3, <1>4 DEF DeliverReference
<1>6. n + 1 \in 0 .. r.count
  BY <1>2
<1> QED
  BY <1>1, <1>2, <1>5, <1>6 DEF RecoveryInv, Running, RedeliveryExact

(* The child starts on the empty ledger of the workspace.                  *)
LEMMA StartChildStep == ASSUME RecoveryInv, StartChild PROVE RecoveryInv'
<1>1. LogUpTo(request, 0) = <<>> /\ 0 \in 0 .. request.crash_after
  BY DEF RecoveryInv, StartChild, Running, Admissible, LogUpTo
<1> QED
  BY <1>1 DEF RecoveryInv, StartChild, Running, RedeliveryExact

(* The child, up to the delivery it is killed after.                       *)
LEMMA ChildDeliversStep == ASSUME RecoveryInv, ChildDelivers PROVE RecoveryInv'
<1>1. PICK r \in [count : Int, crash_after : Int], n \in Nat :
        request = r /\ delivered = n
  BY DEF RecoveryInv, ChildDelivers
<1>2. /\ stage = "child" /\ n + 1 \in 0 .. r.crash_after
      /\ Admissible(r) /\ workspace /\ metrics = NoMetrics
      /\ reference = LogUpTo(r, r.count) /\ disk = LogUpTo(r, n)
      /\ delivered' = n + 1
      /\ UNCHANGED <<request, attempts, workspace, reference, committed, metrics>>
  BY <1>1 DEF RecoveryInv, ChildDelivers, Running, Admissible
<1>3. n \in 0 .. r.count - 1 /\ n + 1 <= r.crash_after
  BY <1>2 DEF Admissible
<1> DEFINE at == Baseline(r.count)[n + 1].ingested_at
<1>4. at \in Nat /\ at = at + (IF n + 1 <= r.crash_after THEN 0 ELSE Downtime)
      /\ Events = Baseline(r.count)
  <2>1. at \in Nat
    BY <1>3, Arrivals
  <2> HIDE DEF at
  <2> QED
    BY <1>1, <1>3, <2>1 DEF Events
<1>5. Delivered(LogUpTo(r, n), Baseline(r.count)[n + 1], at)
        = [log |-> LogUpTo(r, n + 1), as |-> "accepted"]
  BY <1>3, <1>4, DeliverNext
<1>6. disk' = LogUpTo(r, n + 1) /\ stage' = "child"
  BY <1>1, <1>2, <1>4, <1>5 DEF ChildDelivers
<1> QED
  BY <1>1, <1>2, <1>6 DEF RecoveryInv, Running, RedeliveryExact

(* The parent finds what the child committed, and nothing else.            *)
LEMMA ReopenStep == ASSUME RecoveryInv, ChildExits \/ Reopen PROVE RecoveryInv'
<1>1. CASE ChildExits
  BY <1>1 DEF RecoveryInv, ChildExits, Running, RedeliveryExact
<1>2. CASE Reopen
  <2>1. /\ request \in [count : Int, crash_after : Int] /\ Admissible(request)
        /\ disk = LogUpTo(request, request.crash_after) /\ metrics = NoMetrics
        /\ delivered = 0 /\ reference = LogUpTo(request, request.count) /\ workspace
    BY <1>2 DEF RecoveryInv, Reopen, Running
  <2>2. request.crash_after \in 0 .. request.count /\ 0 \in 0 .. request.count
    BY <2>1 DEF Admissible
  <2>3. committed' = request.crash_after
    <3>1. PICK r \in [count : Int, crash_after : Int] : r = request
      BY <2>1
    <3>2. Len(LogUpTo(r, r.crash_after)) = r.crash_after
      BY <2>2, <3>1, LogFacts
    <3> QED
      BY <1>2, <2>1, <3>1, <3>2 DEF Reopen
  <2>4. metrics' = CountedAfter(request, 0)
    <3>1. metrics' = [accepted    |-> 0,
                      duplicate   |-> 0,
                      rejected    |-> 0,
                      disconnects |-> 1,
                      reconnects  |-> 1]
      <4>1. metrics = [accepted    |-> 0,
                       duplicate   |-> 0,
                       rejected    |-> 0,
                       disconnects |-> 0,
                       reconnects  |-> 0]
        BY <2>1 DEF NoMetrics
      <4>2. metrics' = [metrics EXCEPT !.disconnects = 1, !.reconnects = 1]
        BY <1>2, <4>1 DEF Reopen
      <4> QED
        BY <4>1, <4>2
    <3>2. 0 <= request.crash_after
      BY <2>1 DEF Admissible
    <3> QED
      BY <3>1, <3>2 DEF CountedAfter
  <2> QED
    BY <1>2, <2>1, <2>2, <2>3, <2>4 DEF RecoveryInv, Reopen, Running, RedeliveryExact
<1> QED
  BY <1>1, <1>2

(* Redelivery: what is committed is a duplicate, the rest is accepted.     *)
LEMMA RedeliverStep == ASSUME RecoveryInv, Redeliver PROVE RecoveryInv'
<1>1. PICK r \in [count : Int, crash_after : Int], n \in Nat :
        request = r /\ delivered = n
  BY DEF RecoveryInv, Redeliver
<1>2. /\ stage = "redeliver" /\ n \in 0 .. r.count - 1 /\ n + 1 \in 0 .. r.count
      /\ Admissible(r) /\ workspace /\ committed = r.crash_after
      /\ reference = LogUpTo(r, r.count)
      /\ metrics = CountedAfter(r, n)
      /\ disk = LogUpTo(r, IF n <= r.crash_after THEN r.crash_after ELSE n)
      /\ delivered' = n + 1
      /\ UNCHANGED <<request, attempts, workspace, reference, committed>>
  BY <1>1 DEF RecoveryInv, Redeliver, Running, Admissible
<1> DEFINE at == Baseline(r.count)[n + 1].ingested_at + Downtime
           result == Delivered(disk, Baseline(r.count)[n + 1], at)
<1>3. /\ disk' = result.log
      /\ metrics' = [metrics EXCEPT ![result.as] = @ + 1]
      /\ stage' = IF result.as = "rejected" THEN "rejected" ELSE stage
  BY <1>1 DEF Redeliver, Events
<1>4. CASE n + 1 <= r.crash_after
  <2>1. r.crash_after \in 0 .. r.count /\ n + 1 \in 1 .. r.crash_after /\ n <= r.crash_after
    BY <1>2, <1>4 DEF Admissible
  <2>2. result = [log |-> disk, as |-> "duplicate"]
    BY <1>2, <2>1, DeliverAgain
  <2> HIDE DEF result
  <2>3. metrics' = CountedAfter(r, n + 1)
    BY <1>2, <1>3, <1>4, <2>1, <2>2 DEF CountedAfter
  <2>4. disk' = LogUpTo(r, r.crash_after) /\ stage' = "redeliver"
    BY <1>2, <1>3, <2>1, <2>2
  <2> QED
    BY <1>1, <1>2, <1>4, <2>3, <2>4 DEF RecoveryInv, Running, RedeliveryExact
<1>5. CASE ~(n + 1 <= r.crash_after)
  <2>1. (IF n <= r.crash_after THEN r.crash_after ELSE n) = n
    BY <1>2, <1>5 DEF Admissible
  <2>2. at \in Nat
        /\ at = Baseline(r.count)[n + 1].ingested_at
                    + (IF n + 1 <= r.crash_after THEN 0 ELSE Downtime)
    BY <1>2, <1>5, Arrivals DEF Downtime
  <2> HIDE DEF at
  <2>3. result = [log |-> LogUpTo(r, n + 1), as |-> "accepted"]
    BY <1>2, <2>1, <2>2, DeliverNext
  <2> HIDE DEF result
  <2>4. metrics' = CountedAfter(r, n + 1)
    <3>1. r.crash_after \in Int /\ n >= r.crash_after /\ ~(n + 1 <= r.crash_after)
      BY <1>2, <1>5
    <3>2. (IF n <= r.crash_after THEN 0 ELSE n - r.crash_after) = n - r.crash_after
      BY <3>1
    <3>3. (IF n <= r.crash_after THEN n ELSE r.crash_after) = r.crash_after
      BY <3>1
    <3>4. metrics = [accepted    |-> n - r.crash_after,
                     duplicate   |-> r.crash_after,
                     rejected    |-> 0,
                     disconnects |-> 1,
                     reconnects  |-> 1]
      BY <1>2, <3>2, <3>3 DEF CountedAfter
    <3>5. metrics' = [metrics EXCEPT !["accepted"] = @ + 1]
      BY <1>3, <2>3
    <3>6. n - r.crash_after + 1 = n + 1 - r.crash_after
      BY <3>1
    <3>7. metrics' = [accepted    |-> n + 1 - r.crash_after,
                      duplicate   |-> r.crash_after,
                      rejected    |-> 0,
                      disconnects |-> 1,
                      reconnects  |-> 1]
      BY <3>4, <3>5, <3>6
    <3> QED
      BY <3>1, <3>7 DEF CountedAfter
  <2>5. disk' = LogUpTo(r, n + 1) /\ stage' = "redeliver"
    BY <1>2, <1>3, <2>3
  <2> QED
    BY <1>1, <1>2, <1>5, <2>4, <2>5 DEF RecoveryInv, Running, RedeliveryExact
<1> QED
  BY <1>4, <1>5

(* Both ledgers hold the same events, so their states are the same.        *)
LEMMA CompareStep == ASSUME RecoveryInv, Compare PROVE RecoveryInv'
<1>1. PICK r \in [count : Int, crash_after : Int] : request = r
  BY DEF RecoveryInv
<1>2. /\ stage = "redeliver" /\ delivered = r.count
      /\ Admissible(r) /\ workspace /\ committed = r.crash_after
      /\ reference = LogUpTo(r, r.count)
      /\ metrics = CountedAfter(r, r.count)
      /\ disk = LogUpTo(r, IF r.count <= r.crash_after THEN r.crash_after ELSE r.count)
      /\ UNCHANGED <<request, attempts, workspace, disk, reference, delivered,
                     committed, metrics>>
  BY <1>1 DEF RecoveryInv, Compare, Running
<1>3. ~(r.count <= r.crash_after) /\ r.count \in 0 .. r.count
  BY <1>2 DEF Admissible
<1>4. disk = reference /\ Len(disk) = r.count
  BY <1>2, <1>3, LogFacts
<1>5. stage' = "verified"
  BY <1>4 DEF Compare
<1>6. metrics = [accepted    |-> r.count - r.crash_after,
                 duplicate   |-> r.crash_after,
                 rejected    |-> 0,
                 disconnects |-> 1,
                 reconnects  |-> 1]
  BY <1>2, <1>3 DEF CountedAfter
<1> QED
  BY <1>1, <1>2, <1>4, <1>5, <1>6 DEF RecoveryInv, Running, RedeliveryExact

(* Every step of parent and child keeps the conjunction.                   *)
LEMMA RecoveryNextInv == ASSUME RecoveryInv, [RecoveryNext]_recoveryVars PROVE RecoveryInv'
<1>1. CASE ChildDies \/ ParentDies
  BY <1>1 DEF RecoveryInv, ChildDies, ParentDies, Running, RedeliveryExact
<1>2. CASE UNCHANGED recoveryVars
  BY <1>2 DEF RecoveryInv, recoveryVars, RedeliveryExact
<1> QED
  BY <1>1, <1>2, RunStep, DeliverReferenceStep, StartChildStep, ChildDeliversStep,
     ReopenStep, RedeliverStep, CompareStep DEF RecoveryNext

(* The conjunction above holds in every state.                             *)
THEOREM RecoveryInvariance == RecoverySpec => []RecoveryInv
BY RecoveryInitInv, RecoveryNextInv, PTL DEF RecoverySpec

(* run_recovery_campaign: for every number of events and every point at    *)
(* which the child is killed, redelivery is never rejected and reaches the *)
(* state of the uninterrupted run.                                         *)
THEOREM Recovers == RecoverySpec => []Converges
<1>1. RecoveryInv => Converges
  BY DEF RecoveryInv, Running, Converges
<1> QED
  BY <1>1, RecoveryInvariance, PTL

(* run_recovery_campaign: what the report says of a verified campaign is   *)
(* what was committed before the crash and after it.                       *)
THEOREM VerifiedExact == RecoverySpec => []RedeliveryExact
<1>1. RecoveryInv => RedeliveryExact
  BY DEF RecoveryInv
<1> QED
  BY <1>1, RecoveryInvariance, PTL

-----------------------------------------------------------------------------
(* The import: the events qualified so far are numbered by stream, and     *)
(* what stands in the output files was there before or is of this import.  *)

StreamOf(l, s) == {i \in DOMAIN l : l[i].source_id = s}

StreamTo(l, s, n) == {j \in StreamOf(l, s) : j < n}

NumberedIn(l) ==
    \A s \in Sources : \A i \in StreamOf(l, s) :
        l[i].source_sequence = Cardinality(StreamTo(l, s, i))

DistinctIds(l) ==
    \A i, j \in DOMAIN l : l[i].event_id = l[j].event_id => i = j

ImportTypeOK ==
    /\ lines \in Seq(Line) /\ read \in Nat /\ rejections \in Nat
    /\ events \in Seq(Event)
    /\ DOMAIN outputs = {"events", "report"}

(* The tables of the loop say what has been qualified.                     *)
TablesMatch ==
    /\ \A i \in DOMAIN events : events[i].event_id \in seen_event_ids
    /\ \A s \in Sources : Sequence(s) = Cardinality(StreamOf(events, s))

Qualified ==
    /\ TablesMatch /\ NumberedIn(events) /\ DistinctIds(events)
    /\ read = Len(events) + rejections

BeforeOutputs == {"loop", "replay", "events"}

OutputsOwned ==
    /\ \A f \in DOMAIN outputs : outputs[f].whole => outputs[f].exists
    /\ occupied =>
        /\ step # "printed"
        /\ step \in BeforeOutputs => \E f \in DOMAIN outputs : outputs[f].exists
        /\ step = "report" => outputs["report"].exists
    /\ ~occupied =>
        /\ step \in BeforeOutputs => \A f \in DOMAIN outputs : ~outputs[f].exists
        /\ step = "report" => /\ ~outputs["report"].exists
                              /\ outputs["events"].whole
                              /\ outputs["events"].content = events
        /\ step = "printed" => outputs["report"].whole
        /\ outputs["report"].whole =>
            /\ outputs["events"].whole
            /\ outputs["report"].content.canonical_events_sha256 =
                    outputs["events"].content

ImportInv == ImportTypeOK /\ Qualified /\ OutputsOwned

(* The events of a stream are finitely many, before any position too.      *)
LEMMA StreamFinite ==
    ASSUME NEW l \in Seq(Event), NEW s
    PROVE  /\ StreamOf(l, s) \subseteq 1 .. Len(l)
           /\ IsFiniteSet(StreamOf(l, s)) /\ Cardinality(StreamOf(l, s)) \in Nat
<1>1. StreamOf(l, s) \subseteq 1 .. Len(l)
  BY DEF StreamOf
<1>2. IsFiniteSet(1 .. Len(l))
  BY FS_Interval
<1> QED
  BY <1>1, <1>2, FS_Subset, FS_CardinalityType

(* One more event of the log is one more of its own stream only.           *)
LEMMA StreamAppended ==
    ASSUME NEW l \in Seq(Event), NEW e \in Event, NEW s
    PROVE  /\ StreamOf(Append(l, e), s) =
                IF e.source_id = s THEN StreamOf(l, s) \union {Len(l) + 1}
                                   ELSE StreamOf(l, s)
           /\ Cardinality(StreamOf(Append(l, e), s)) =
                Cardinality(StreamOf(l, s)) + (IF e.source_id = s THEN 1 ELSE 0)
<1>1. /\ DOMAIN Append(l, e) = 1 .. Len(l) + 1 /\ DOMAIN l = 1 .. Len(l) /\ Len(l) \in Nat
      /\ Append(l, e)[Len(l) + 1] = e
      /\ \A i \in 1 .. Len(l) : Append(l, e)[i] = l[i]
  OBVIOUS
<1>2. 1 .. Len(l) + 1 = 1 .. Len(l) \union {Len(l) + 1} /\ Len(l) + 1 \notin 1 .. Len(l)
  BY <1>1
<1>3. StreamOf(Append(l, e), s) =
        IF e.source_id = s THEN StreamOf(l, s) \union {Len(l) + 1} ELSE StreamOf(l, s)
  BY <1>1, <1>2 DEF StreamOf
<1>4. /\ IsFiniteSet(StreamOf(l, s)) /\ Len(l) + 1 \notin StreamOf(l, s)
      /\ Cardinality(StreamOf(l, s)) \in Nat
  BY <1>2, StreamFinite
<1>5. Cardinality(StreamOf(l, s) \union {Len(l) + 1}) = Cardinality(StreamOf(l, s)) + 1
  BY <1>4, FS_AddElement
<1> QED
  BY <1>3, <1>4, <1>5

(* _map_record: the sequence number is how many events of the stream were  *)
(* accepted before, so the numbering stays without a gap.                  *)
LEMMA NumberedAppended ==
    ASSUME NEW l \in Seq(Event), NEW e \in Event, NumberedIn(l),
           e.source_sequence = Cardinality(StreamOf(l, e.source_id))
    PROVE  NumberedIn(Append(l, e))
<1> DEFINE m == Append(l, e)
<1>1. /\ DOMAIN m = 1 .. Len(l) + 1 /\ DOMAIN l = 1 .. Len(l) /\ Len(l) \in Nat
      /\ m[Len(l) + 1] = e /\ \A i \in 1 .. Len(l) : m[i] = l[i]
  OBVIOUS
<1> SUFFICES ASSUME NEW s \in Sources, NEW i \in StreamOf(m, s)
             PROVE  m[i].source_sequence = Cardinality(StreamTo(m, s, i))
  BY DEF NumberedIn
<1>2. i \in 1 .. Len(l) + 1 /\ m[i].source_id = s
  BY <1>1 DEF StreamOf
<1>3. /\ StreamOf(l, s) \subseteq 1 .. Len(l)
      /\ StreamOf(m, s) \subseteq StreamOf(l, s) \union {Len(l) + 1}
      /\ StreamOf(l, s) \subseteq StreamOf(m, s)
  BY StreamFinite, StreamAppended
<1> HIDE DEF m
<1>4. StreamTo(m, s, i) = StreamTo(l, s, i)
  BY <1>1, <1>2, <1>3 DEF StreamTo
<1>5. CASE i \in 1 .. Len(l)
  BY <1>1, <1>2, <1>4, <1>5 DEF NumberedIn, StreamOf
<1>6. CASE i = Len(l) + 1
  <2>1. StreamTo(l, s, i) = StreamOf(l, s)
    BY <1>1, <1>3, <1>6 DEF StreamTo
  <2> QED
    BY <1>1, <1>2, <1>4, <1>6, <2>1
<1> QED
  BY <1>1, <1>2, <1>5, <1>6

(* Numbered streams hold no position twice: of two events of a stream, the *)
(* later has one more before it.                                           *)
LEMMA NumberedApart ==
    ASSUME NEW l \in Seq(Event), NumberedIn(l), NEW i \in DOMAIN l, NEW j \in DOMAIN l,
           i < j, l[i].source_id = l[j].source_id
    PROVE  l[i].source_sequence < l[j].source_sequence
<1> DEFINE s == l[i].source_id
           before == StreamTo(l, s, i)
           more == StreamTo(l, s, j)
<1>0. l[i] \in Event /\ i \in Nat /\ j \in Nat
  OBVIOUS
<1>1. s \in Sources /\ i \in StreamOf(l, s) /\ j \in StreamOf(l, s)
  BY <1>0 DEF StreamOf, Event
<1>2. l[i].source_sequence = Cardinality(before) /\ l[j].source_sequence = Cardinality(more)
  BY <1>1 DEF NumberedIn
<1>3. StreamOf(l, s) \subseteq 1 .. Len(l) /\ IsFiniteSet(StreamOf(l, s))
  BY StreamFinite
<1> HIDE DEF s
<1>4. more \subseteq StreamOf(l, s) /\ before \subseteq more /\ i \in more /\ i \notin before
  BY <1>1, <1>3 DEF StreamTo
<1> HIDE DEF before, more
<1>5. IsFiniteSet(more)
  BY <1>3, <1>4, FS_Subset
<1>6. before \in SUBSET more /\ before # more
  BY <1>4
<1>7. IsFiniteSet(before) /\ Cardinality(before) <= Cardinality(more)
      /\ Cardinality(more) # Cardinality(before)
  BY <1>5, <1>6, FS_Subset
<1>8. Cardinality(before) \in Nat /\ Cardinality(more) \in Nat
  BY <1>5, <1>7, FS_CardinalityType
<1> QED
  BY <1>2, <1>7, <1>8

(* What the loop qualifies, the replay's ledgers accept.                   *)
LEMMA NumberedCompatible ==
    ASSUME NEW l \in Seq(Event), NumberedIn(l), DistinctIds(l)
    PROVE  Compatible(<<>>, l)
<1>1. ToSet(<<>>) \union ToSet(l) = {l[i] : i \in DOMAIN l}
  BY DEF ToSet
<1> SUFFICES ASSUME NEW i \in DOMAIN l, NEW j \in DOMAIN l,
                    l[i].event_id = l[j].event_id \/ Position(l[i]) = Position(l[j])
             PROVE  l[i] = l[j]
  BY <1>1 DEF Compatible, Consistent
<1>2. CASE l[i].event_id = l[j].event_id
  BY <1>2 DEF DistinctIds
<1>3. CASE Position(l[i]) = Position(l[j])
  <2>1. /\ l[i].source_id = l[j].source_id
        /\ l[i].source_sequence = l[j].source_sequence
    BY <1>3 DEF Position
  <2>2. l[i] \in Event /\ i \in Nat /\ j \in Nat
    OBVIOUS
  <2>3. l[i].source_sequence \in Nat
    BY <2>2 DEF Event
  <2>4. ~(i < j) /\ ~(j < i)
    <3>1. ASSUME i < j PROVE FALSE
      BY <2>1, <2>3, <3>1, NumberedApart
    <3>2. ASSUME j < i PROVE FALSE
      BY <2>1, <2>3, <3>2, NumberedApart
    <3> QED
      BY <3>1, <3>2
  <2> QED
    BY <2>2, <2>4
<1> QED
  BY <1>2, <1>3

(* A line that is qualified next to what was qualified before.             *)
LEMMA DistinctAppended ==
    ASSUME NEW l \in Seq(Event), NEW e \in Event, DistinctIds(l),
           \A i \in DOMAIN l : l[i].event_id # e.event_id
    PROVE  DistinctIds(Append(l, e))
<1>1. /\ DOMAIN Append(l, e) = 1 .. Len(l) + 1 /\ DOMAIN l = 1 .. Len(l) /\ Len(l) \in Nat
      /\ Append(l, e)[Len(l) + 1] = e
      /\ \A i \in 1 .. Len(l) : Append(l, e)[i] = l[i]
  OBVIOUS
<1> QED
  BY <1>1 DEF DistinctIds

(* An import that has read nothing has qualified nothing.                  *)
LEMMA NothingQualified ==
    /\ \A s : StreamOf(<<>>, s) = {}
    /\ NumberedIn(<<>>) /\ DistinctIds(<<>>)
BY DEF StreamOf, NumberedIn, DistinctIds

(* The command starts with both output paths free.                         *)
LEMMA ImportInitInv == ASSUME ImportInit PROVE ImportInv
<1>1. /\ lines \in Seq(Line) /\ read = 0 /\ rejections = 0 /\ events = <<>>
      /\ sequences = Empty /\ seen_event_ids = {} /\ step = "loop" /\ occupied = FALSE
      /\ outputs = [f \in {"events", "report"} |-> NoOutput]
  BY ImportAssumption DEF ImportInit, NothingRead
<1>2. ImportTypeOK
  BY <1>1 DEF ImportTypeOK
<1>3. Qualified
  <2>1. \A s \in Sources : Sequence(s) = 0
    BY <1>1 DEF Sequence, Empty
  <2>2. \A s \in Sources : Cardinality(StreamOf(events, s)) = 0
    BY <1>1, NothingQualified, FS_EmptySet
  <2> QED
    BY <1>1, <2>1, <2>2, NothingQualified DEF Qualified, TablesMatch
<1>4. OutputsOwned
  BY <1>1 DEF OutputsOwned, NoOutput, BeforeOutputs
<1> QED
  BY <1>2, <1>3, <1>4 DEF ImportInv

(* A step that touches none of the tables keeps what they say.             *)
LEMMA QualifiedKept ==
    ASSUME ImportTypeOK, Qualified,
           UNCHANGED <<lines, read, sequences, seen_event_ids, rejections, events>>
    PROVE  Qualified' /\ lines' \in Seq(Line) /\ read' \in Nat /\ rejections' \in Nat
           /\ events' \in Seq(Event)
BY DEF ImportTypeOK, Qualified, TablesMatch, Sequence

(* The loop: a line is refused, or its event is the next of its stream.    *)
LEMMA LoopStep == ASSUME ImportInv, Reject \/ Map PROVE ImportInv'
<1>1. /\ step = "loop" /\ step' = step /\ lines' = lines /\ outputs' = outputs
      /\ occupied' = occupied /\ read' = read + 1 /\ read < Len(lines)
      /\ lines \in Seq(Line) /\ read \in Nat /\ rejections \in Nat /\ events \in Seq(Event)
      /\ Qualified /\ DOMAIN outputs = {"events", "report"}
  BY DEF Reject, Map, ImportInv, ImportTypeOK
<1>2. OutputsOwned'
  BY <1>1 DEF ImportInv, OutputsOwned, BeforeOutputs
<1>3. ASSUME events' = events, rejections' = rejections + 1,
             seen_event_ids' = seen_event_ids,
             \A s \in Sources : Sequence(s)' = Sequence(s)
      PROVE  ImportTypeOK' /\ Qualified'
  BY <1>1, <1>3 DEF ImportTypeOK, Qualified, TablesMatch
<1>4. CASE Reject
  <2>1. \A s \in Sources : Sequence(s)' = Sequence(s)
    BY <1>4 DEF Reject, Sequence
  <2> QED
    BY <1>2, <1>3, <1>4, <2>1 DEF Reject, ImportInv
<1>5. CASE Map
  <2>1. PICK line \in Line : line = lines[read + 1]
    <3>1. read + 1 \in 1 .. Len(lines)
      BY <1>1
    <3> QED
      BY <1>1, <3>1
  <2>2. /\ ~RejectedEarly(line)
        /\ sequences' = SetSequence(line.stream, SequenceAfter(line.stream, Mappable(line)))
    BY <1>5, <2>1 DEF Map
  <2>3. \A s \in Sources : Sequence(s)' =
            IF s = line.stream THEN SequenceAfter(line.stream, Mappable(line)) ELSE Sequence(s)
    <3>1. sequences' = [s \in DOMAIN sequences \union {line.stream} |->
                            IF s = line.stream
                            THEN SequenceAfter(line.stream, Mappable(line))
                            ELSE sequences[s]]
      BY <2>2 DEF SetSequence
    <3> QED
      BY <3>1 DEF Sequence
  <2>4. \A s \in Sources : Sequence(s) = Cardinality(StreamOf(events, s))
                           /\ Cardinality(StreamOf(events, s)) \in Nat
    BY <1>1, StreamFinite DEF Qualified, TablesMatch
  <2>5. line.stream \in Sources
    BY DEF Line
  <2>6. CASE Mappable(line)
    <3>1. PICK e : e = Mapped(line, Sequence(line.stream))
      OBVIOUS
    <3>2. /\ events' = Append(events, e)
          /\ seen_event_ids' = seen_event_ids \union {line.event_id}
          /\ rejections' = rejections
      BY <1>5, <2>1, <2>6, <3>1 DEF Map
    <3>3. /\ e.event_id = line.event_id /\ e.source_id = line.stream
          /\ e.source_sequence = Sequence(line.stream)
      BY <3>1 DEF Mapped
    <3>4. e \in Event
      <4>1. line.event_id \in EventIds
        BY <2>2 DEF RejectedEarly, Line
      <4>2. line.observed_at \in Nat /\ line.payload \in Payloads
        BY DEF Line
      <4> QED
        BY <2>4, <2>5, <3>1, <4>1, <4>2, ImportAssumption DEF Mapped, Event
    <3>5. \A i \in DOMAIN events : events[i].event_id # e.event_id
      BY <1>1, <2>2, <3>3 DEF RejectedEarly, Qualified, TablesMatch
    <3>6. NumberedIn(events') /\ DistinctIds(events')
      BY <1>1, <2>4, <2>5, <3>2, <3>3, <3>4, <3>5, NumberedAppended, DistinctAppended
         DEF Qualified
    <3>7. /\ events' \in Seq(Event) /\ Len(events') = Len(events) + 1
          /\ DOMAIN events' = 1 .. Len(events) + 1 /\ DOMAIN events = 1 .. Len(events)
          /\ events'[Len(events) + 1] = e
          /\ \A i \in 1 .. Len(events) : events'[i] = events[i]
          /\ Len(events) \in Nat
      BY <1>1, <3>2, <3>4
    <3>8. \A i \in DOMAIN events' : events'[i].event_id \in seen_event_ids'
      BY <1>1, <3>2, <3>3, <3>7 DEF Qualified, TablesMatch
    <3>9. \A s \in Sources : Sequence(s)' = Cardinality(StreamOf(events', s))
      <4> SUFFICES ASSUME NEW s \in Sources
                   PROVE  Sequence(s)' = Cardinality(StreamOf(events', s))
        OBVIOUS
      <4>1. Cardinality(StreamOf(events', s)) =
                Cardinality(StreamOf(events, s)) + (IF e.source_id = s THEN 1 ELSE 0)
        BY <1>1, <3>2, <3>4, StreamAppended
      <4> QED
        BY <2>3, <2>4, <2>6, <3>3, <4>1 DEF SequenceAfter
    <3>10. read' = Len(events') + rejections'
      BY <1>1, <3>2, <3>7 DEF Qualified
    <3> QED
      BY <1>1, <1>2, <3>2, <3>6, <3>7, <3>8, <3>9, <3>10
         DEF ImportInv, ImportTypeOK, Qualified, TablesMatch
  <2>7. CASE ~Mappable(line)
    <3>1. events' = events /\ rejections' = rejections + 1 /\ seen_event_ids' = seen_event_ids
      BY <1>5, <2>1, <2>7 DEF Map
    <3>2. \A s \in Sources : Sequence(s)' = Sequence(s)
      BY <2>3, <2>4, <2>5, <2>7 DEF SequenceAfter
    <3> QED
      BY <1>2, <1>3, <3>1, <3>2 DEF ImportInv
  <2> QED
    BY <2>6, <2>7
<1> QED
  BY <1>4, <1>5

(* A step that only ends the loop, the replay or the command.              *)
LEMMA EndStep ==
    ASSUME ImportInv, Undecodable \/ EndLoop \/ Replay \/ OutputExists \/ Dies
    PROVE  ImportInv'
<1>1. /\ UNCHANGED <<lines, read, sequences, seen_event_ids, rejections, events, outputs,
                     occupied>>
      /\ step' = "raised" \/ (step \in BeforeOutputs /\ step' \in BeforeOutputs)
  BY DEF Undecodable, EndLoop, Replay, OutputExists, Dies, BeforeOutputs
<1>2. OutputsOwned'
  BY <1>1 DEF ImportInv, OutputsOwned, BeforeOutputs
<1> QED
  BY <1>1, <1>2, QualifiedKept DEF ImportInv, ImportTypeOK

(* open("xb"): a file is written only where there was none.                *)
LEMMA WriteStep ==
    ASSUME ImportInv, NEW whole \in BOOLEAN, WriteNew(whole) PROVE ImportInv'
<1>1. /\ step \in {"events", "report"} /\ ~outputs[step].exists
      /\ outputs' = [outputs EXCEPT ![step] =
            [exists |-> TRUE, whole |-> whole,
             content |-> IF whole THEN Content(step) ELSE <<>>]]
      /\ step' = IF whole THEN StepAfter(step) ELSE "raised"
      /\ UNCHANGED <<lines, read, sequences, seen_event_ids, rejections, events, occupied>>
  BY DEF WriteNew, OutputOf, Available
<1>2. DOMAIN outputs = {"events", "report"} /\ OutputsOwned
  BY DEF ImportInv, ImportTypeOK
<1>3. DOMAIN outputs' = {"events", "report"}
  BY <1>1, <1>2
<1>4. OutputsOwned'
  <2>1. CASE step = "events"
    <3>1. /\ outputs'["report"] = outputs["report"]
          /\ outputs'["events"] = [exists |-> TRUE, whole |-> whole,
                                   content |-> IF whole THEN events ELSE <<>>]
          /\ step' = IF whole THEN "report" ELSE "raised"
      BY <1>1, <1>2, <2>1 DEF Content, StepAfter
    <3>2. /\ outputs'["events"].exists /\ outputs'["events"].whole = whole
          /\ whole => outputs'["events"].content = events
      BY <3>1
    <3>3. /\ occupied => outputs["report"].exists
          /\ ~occupied => ~outputs["report"].exists
          /\ outputs["report"].whole => outputs["report"].exists
      BY <1>1, <1>2, <2>1 DEF OutputsOwned, BeforeOutputs
    <3> QED
      BY <1>1, <1>3, <3>1, <3>2, <3>3 DEF OutputsOwned, BeforeOutputs
  <2>2. CASE step = "report"
    <3>1. /\ outputs'["events"] = outputs["events"]
          /\ outputs'["report"] = [exists |-> TRUE, whole |-> whole,
                                   content |-> IF whole THEN Report ELSE <<>>]
          /\ step' = IF whole THEN "printed" ELSE "raised"
      BY <1>1, <1>2, <2>2 DEF Content, StepAfter
    <3>2. /\ outputs'["report"].exists /\ outputs'["report"].whole = whole
          /\ whole => outputs'["report"].content.canonical_events_sha256 = events
      BY <3>1 DEF Report
    <3>3. /\ ~occupied /\ outputs["events"].whole /\ outputs["events"].content = events
          /\ outputs["events"].exists
      BY <1>1, <1>2, <2>2 DEF OutputsOwned
    <3> QED
      BY <1>1, <1>3, <3>1, <3>2, <3>3 DEF OutputsOwned, BeforeOutputs
  <2> QED
    BY <1>1, <2>1, <2>2
<1> QED
  BY <1>1, <1>3, <1>4, QualifiedKept DEF ImportInv, ImportTypeOK

(* The next run of the command reads from the start and keeps only what    *)
(* the operator left in place.                                             *)
LEMMA RunAgainStep == ASSUME ImportInv, RunAgain PROVE ImportInv'
<1>1. /\ lines' \in Seq(Line) /\ read' = 0 /\ rejections' = 0 /\ events' = <<>>
      /\ sequences' = Empty /\ seen_event_ids' = {} /\ step' = "loop"
  BY ImportAssumption DEF RunAgain
<1>2. PICK kept \in SUBSET DOMAIN outputs :
        /\ outputs' = [f \in DOMAIN outputs |->
                           IF f \in kept THEN outputs[f] ELSE NoOutput]
        /\ occupied' = \E f \in kept : outputs[f].exists
  BY DEF RunAgain
<1>3. DOMAIN outputs = {"events", "report"} /\ OutputsOwned
  BY DEF ImportInv, ImportTypeOK
<1>4. Qualified'
  <2>1. \A s \in Sources : Sequence(s)' = 0
    BY <1>1 DEF Sequence, Empty
  <2>2. \A s \in Sources : Cardinality(StreamOf(events', s)) = 0
    BY <1>1, NothingQualified, FS_EmptySet
  <2> QED
    BY <1>1, <2>1, <2>2, NothingQualified DEF Qualified, TablesMatch
<1>5. OutputsOwned'
  <2>1. DOMAIN outputs' = DOMAIN outputs /\ ~NoOutput.exists /\ ~NoOutput.whole
    BY <1>2 DEF NoOutput
  <2>2. \A f \in DOMAIN outputs : outputs'[f] = IF f \in kept THEN outputs[f] ELSE NoOutput
    BY <1>2
  <2>3. \A f \in DOMAIN outputs : outputs[f].whole => outputs[f].exists
    BY <1>3 DEF OutputsOwned
  <2>4. \A f \in DOMAIN outputs' : outputs'[f].whole => outputs'[f].exists
    BY <2>1, <2>2, <2>3
  <2>5. occupied' <=> \E f \in DOMAIN outputs' : outputs'[f].exists
    BY <1>2, <2>1, <2>2
  <2>6. "report" \in DOMAIN outputs'
    BY <1>3, <2>1
  <2> QED
    BY <1>1, <2>4, <2>5, <2>6 DEF OutputsOwned, BeforeOutputs
<1>6. DOMAIN outputs' = {"events", "report"} /\ <<>> \in Seq(Event)
  BY <1>2, <1>3
<1> QED
  BY <1>1, <1>4, <1>5, <1>6 DEF ImportInv, ImportTypeOK

(* Every step of the command keeps the conjunction above.                  *)
LEMMA ImportNextInv == ASSUME ImportInv, [ImportNext]_importVars PROVE ImportInv'
<1>1. CASE UNCHANGED importVars
  BY <1>1, QualifiedKept DEF importVars, ImportInv, ImportTypeOK, OutputsOwned
<1>2. CASE WriteNew(TRUE) \/ WriteTears
  BY <1>2, WriteStep DEF WriteTears
<1> QED
  BY <1>1, <1>2, LoopStep, EndStep, RunAgainStep DEF ImportNext

(* The conjunction above holds in every state.                             *)
THEOREM ImportInvariance == ImportSpec => []ImportInv
BY ImportInitInv, ImportNextInv, PTL DEF ImportSpec

(* qualify_historical: whatever is in the input, the events qualified have *)
(* one identity and one position each, are numbered without a gap by       *)
(* stream, and with the rejections account for every line read.            *)
THEOREM Ingestible == ImportSpec => []QualifiedIngestible
<1>1. ImportInv => QualifiedIngestible
  BY NumberedCompatible
     DEF ImportInv, ImportTypeOK, Qualified, QualifiedIngestible, NumberedIn, DistinctIds,
         StreamTo, StreamOf, EventsOfStream
<1> QED
  BY <1>1, ImportInvariance, PTL

(* main of the import: where a command met neither of its outputs, the two *)
(* files never tell of two imports.                                        *)
THEOREM ReportMatches == ImportSpec => []ReportDescribesEvents
<1>1. ImportInv => ReportDescribesEvents
  BY DEF ImportInv, OutputsOwned, ReportDescribesEvents
<1> QED
  BY <1>1, ImportInvariance, PTL
=============================================================================
