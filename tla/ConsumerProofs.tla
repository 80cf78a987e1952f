---------------------------- MODULE ConsumerProofs ----------------------------
(***************************************************************************)
(* Proofs about MqttConsumer, for any messages, any window and any number  *)
(* of publications, broken connections, stops and crashes: no message the  *)
(* broker took charge of is acknowledged and then lost, none is left       *)
(* unacknowledged in silence, and the runtime inside the callback keeps    *)
(* what RuntimeProofs shows of it.                                         *)
(***************************************************************************)
EXTENDS MqttConsumer, RuntimeProofs

-----------------------------------------------------------------------------
(* The inductive invariant.                                                *)

(* What was sent, and what is under way, belongs to a live connection.     *)
OnlyWhileUp == link # "up" => given = {} /\ toBroker = <<>>

(* The broker numbers the messages as they are published.                  *)
MidsIncrease ==
    /\ \A i, j \in DOMAIN queue : i < j => queue[i].mid < queue[j].mid
    /\ \A i \in DOMAIN queue : queue[i].mid <= published

(* The runtime is at work on the message the consumer is handling, or has  *)
(* said what became of it.                                                 *)
InHand ==
    /\ handling <= published
    /\ handling # 0 =>
        /\ message[Consumer] \in Deliveries
        /\ \A i \in DOMAIN queue :
              queue[i].mid = handling => queue[i].msg = message[Consumer]
        /\ stage[Consumer] = "idle" => last[Consumer].disposition # "none"

(* An acknowledgement under way is of a message that is done with.         *)
AcksAreDue ==
    \A k \in DOMAIN toBroker : toBroker[k].kind = "PUBACK" =>
        /\ toBroker[k].mid <= published
        /\ \A i \in DOMAIN queue :
              queue[i].mid = toBroker[k].mid => Done(queue[i].msg)

ConsumerInv ==
    /\ RuntimeInv /\ TypeOK
    /\ OnlyWhileUp /\ MidsIncrease /\ InHand /\ AcksAreDue
    /\ StuckIsReported /\ NothingLost

Packets == [kind : {"SUBSCRIBE", "PUBACK"}, mid : 0 .. MaxPublished]
Entries == [mid : 1 .. MaxPublished, msg : Deliveries]

-----------------------------------------------------------------------------
(* Sequences.                                                              *)

(* What is left of a sequence without its first element.                   *)
LEMMA TailFacts ==
    ASSUME NEW S, NEW q \in Seq(S), q # <<>>
    PROVE  /\ Tail(q) \in Seq(S)
           /\ \A i \in DOMAIN Tail(q) : i + 1 \in DOMAIN q /\ Tail(q)[i] = q[i + 1]
           /\ \A j \in DOMAIN q :
                q[j] = Head(q) \/ (j - 1 \in DOMAIN Tail(q) /\ Tail(q)[j - 1] = q[j])
<1>1. /\ Tail(q) \in Seq(S)
      /\ Len(Tail(q)) = Len(q) - 1
      /\ \A i \in 1 .. Len(Tail(q)) : Tail(q)[i] = q[i + 1]
  BY HeadTailProperties
<1>2. Len(q) \in Nat /\ DOMAIN q = 1 .. Len(q) /\ Head(q) = q[1]
  OBVIOUS
<1>3. DOMAIN Tail(q) = 1 .. Len(q) - 1
  BY <1>1
<1>4. \A i \in DOMAIN Tail(q) : i + 1 \in DOMAIN q
  BY <1>2, <1>3
<1>5. \A j \in DOMAIN q : j = 1 \/ (j - 1 \in DOMAIN Tail(q) /\ j - 1 + 1 = j)
  BY <1>2, <1>3
<1> QED
  BY <1>1, <1>2, <1>3, <1>4, <1>5

(* What is left of a sequence without its k-th element, in order.          *)
LEMMA RemovedFacts ==
    ASSUME NEW S, NEW q \in Seq(S), NEW k \in DOMAIN q
    PROVE  LET r == RemoveAt(q, k)
               from(i) == IF i < k THEN i ELSE i + 1
           IN  /\ r \in Seq(S)
               /\ \A i \in DOMAIN r : from(i) \in DOMAIN q /\ r[i] = q[from(i)]
               /\ \A j \in DOMAIN q : j = k \/ \E i \in DOMAIN r : r[i] = q[j]
<1> DEFINE a == SubSeq(q, 1, k - 1)
           c == SubSeq(q, k + 1, Len(q))
           r == RemoveAt(q, k)
<1>1. /\ Len(q) \in Nat /\ DOMAIN q = 1 .. Len(q) /\ k \in 1 .. Len(q)
      /\ \A i \in 1 .. Len(q) : q[i] \in S
  OBVIOUS
<1>2. a \in Seq(S) /\ Len(a) = k - 1 /\ \A i \in 1 .. k - 1 : a[i] = q[i]
  BY <1>1, SubSeqProperties
<1>3. /\ c \in Seq(S) /\ Len(c) = Len(q) - k
      /\ \A i \in 1 .. Len(q) - k : c[i] = q[k + i]
  <2>1. /\ k + 1 \in Int /\ Len(q) \in Int
        /\ \A i \in k + 1 .. Len(q) : q[i] \in S
    BY <1>1
  <2>2. /\ c \in Seq(S)
        /\ Len(c) = IF k + 1 <= Len(q) THEN Len(q) - (k + 1) + 1 ELSE 0
        /\ \A i \in 1 .. Len(q) - (k + 1) + 1 : c[i] = q[k + 1 + i - 1]
    BY <2>1, SubSeqProperties
  <2>3. \A i \in 1 .. Len(q) - k : k + 1 + i - 1 = k + i
    BY <1>1
  <2> HIDE DEF c
  <2> QED
    BY <1>1, <2>2, <2>3
<1>4. r = a \o c
  BY DEF RemoveAt
<1> HIDE DEF a, c, r
<1>5. /\ r \in Seq(S) /\ Len(r) = Len(a) + Len(c)
      /\ \A i \in 1 .. Len(a) + Len(c) :
            r[i] = IF i <= Len(a) THEN a[i] ELSE c[i - Len(a)]
  BY <1>2, <1>3, <1>4, ConcatProperties
<1>6. DOMAIN r = 1 .. Len(q) - 1
  BY <1>1, <1>2, <1>3, <1>5
<1>7. \A i \in 1 .. Len(q) - 1 : r[i] = q[IF i < k THEN i ELSE i + 1]
  <2> SUFFICES ASSUME NEW i \in 1 .. Len(q) - 1
               PROVE  r[i] = q[IF i < k THEN i ELSE i + 1]
    OBVIOUS
  <2>1. r[i] = IF i <= k - 1 THEN a[i] ELSE c[i - (k - 1)]
    BY <1>1, <1>2, <1>3, <1>5
  <2>2. CASE i < k
    BY <1>1, <1>2, <2>1, <2>2
  <2>3. CASE ~(i < k)
    <3>1. i - (k - 1) \in 1 .. Len(q) - k /\ k + (i - (k - 1)) = i + 1
      BY <1>1, <2>3
    <3>2. r[i] = c[i - (k - 1)]
      BY <1>1, <2>1, <2>3
    <3>3. c[i - (k - 1)] = q[k + (i - (k - 1))]
      BY <1>3, <3>1
    <3> QED
      BY <2>3, <3>1, <3>2, <3>3
  <2> QED
    BY <2>2, <2>3
<1>8. \A i \in DOMAIN r : (IF i < k THEN i ELSE i + 1) \in DOMAIN q
  BY <1>1, <1>6
<1>9. ASSUME NEW j \in DOMAIN q, j # k PROVE \E i \in DOMAIN r : r[i] = q[j]
  <2>1. CASE j < k
    <3>1. j \in DOMAIN r /\ j \in 1 .. Len(q) - 1
      BY <1>1, <1>6, <2>1
    <3> QED
      BY <1>7, <2>1, <3>1
  <2>2. CASE j > k
    <3>1. j - 1 \in DOMAIN r /\ ~(j - 1 < k) /\ j - 1 + 1 = j
      BY <1>1, <1>6, <2>2
    <3>2. r[j - 1] = q[j]
      BY <1>6, <1>7, <3>1
    <3> QED
      BY <3>1, <3>2
  <2> QED
    BY <1>1, <1>9, <2>1, <2>2
<1> QED
  BY <1>5, <1>6, <1>7, <1>8, <1>9 DEF r

-----------------------------------------------------------------------------
(* What steps preserve.                                                    *)

(* What is done with stays so: the ledger only grows.                      *)
LEMMA DoneKept ==
    ASSUME RuntimeTypeOK, LogExtends, settled \subseteq settled', NEW m, Done(m)
    PROVE  Done(m)'
<1>1. /\ Len(log) \in Nat /\ Len(log') \in Nat
      /\ DOMAIN log = 1 .. Len(log) /\ DOMAIN log' = 1 .. Len(log')
  BY DEF RuntimeTypeOK, LogExtends
<1>2. \A i \in DOMAIN log : i \in DOMAIN log' /\ log'[i] = log[i]
  BY <1>1 DEF LogExtends
<1>3. CASE m \in settled
  BY <1>3 DEF Done
<1>4. CASE m \in Messages /\ Matching(EventFrom(m, 0)) # {}
  <2>1. PICK i \in DOMAIN log : Matches(log[i], EventFrom(m, 0))
    BY <1>4 DEF Matching
  <2>2. i \in DOMAIN log' /\ Matches(log'[i], EventFrom(m, 0))
    BY <1>2, <2>1
  <2>3. i \in Matching(EventFrom(m, 0))'
    BY <2>2 DEF Matching
  <2> QED
    BY <1>4, <2>3 DEF Done
<1> QED
  BY <1>3, <1>4 DEF Done

(* A step that leaves the queue, the ledger and the message in hand alone  *)
(* has only the packets under way to answer for.                           *)
LEMMA QuietStep ==
    ASSUME ConsumerInv, RuntimeInv', TypeOK', OnlyWhileUp',
           UNCHANGED <<log, message, stage, last, queue, published, owed,
                       settled, handling>>,
           errors \subseteq errors',
           \A k \in DOMAIN toBroker' : toBroker'[k].kind = "PUBACK" =>
                \E j \in DOMAIN toBroker : toBroker[j] = toBroker'[k],
           \A mid \in given' :
                /\ mid \in given
                /\ Contains(toBroker, Puback(mid)) => Contains(toBroker', Puback(mid))
    PROVE  ConsumerInv'
<1> USE DEF ConsumerInv
<1>1. \A m : Done(m) => Done(m)'
  BY DEF Done, Matching
<1>2. MidsIncrease' /\ InHand'
  BY DEF MidsIncrease, InHand
<1>3. AcksAreDue'
  BY <1>1 DEF AcksAreDue
<1>4. StuckIsReported'
  BY DEF StuckIsReported, Stuck
<1>5. NothingLost'
  BY <1>1 DEF NothingLost, MessagesOf
<1> QED
  BY <1>2, <1>3, <1>4, <1>5

(* A ledger and a runtime that do not move.                                *)
LEMMA RuntimeIdle ==
    ASSUME ConsumerInv, UNCHANGED runtimeVars
    PROVE  /\ RuntimeInv' /\ RuntimeTypeOK' /\ LogExtends
           /\ UNCHANGED <<log, message, event, metrics, stage, last, known, raised, forgotten>>
<1>1. RuntimeInv'
  BY RuntimeStutter DEF ConsumerInv
<1>2. UNCHANGED <<log, message, event, metrics, stage, last, known, raised, forgotten>>
  BY DEF runtimeVars
<1> QED
  BY <1>1, <1>2, LogUnchanged DEF RuntimeInv, ConsumerInv

(* The constants of the consumer.                                          *)
LEMMA ConsumerIs ==
    /\ Consumer \in Runtimes
    /\ Window \in Nat \ {0} /\ MaxPublished \in Nat /\ MaxLosses \in Nat
BY ConsumerAssumption

(* Message numbers are numbers.                                            *)
LEMMA Types ==
    ASSUME TypeOK
    PROVE  /\ queue \in Seq(Entries) /\ toBroker \in Seq(Packets)
           /\ published \in Nat /\ handling \in Nat
           /\ \A i \in DOMAIN queue : queue[i].mid \in Nat /\ queue[i].mid # 0
           /\ \A k \in DOMAIN toBroker : toBroker[k].mid \in Nat
<1>1. queue \in Seq(Entries) /\ toBroker \in Seq(Packets)
  BY DEF TypeOK, Entries, Packets
<1>2. published \in Nat /\ handling \in Nat
  BY DEF TypeOK
<1>3. \A i \in DOMAIN queue : queue[i] \in Entries
  BY <1>1
<1>4. \A k \in DOMAIN toBroker : toBroker[k] \in Packets
  BY <1>1
<1>5. \A i \in DOMAIN queue : queue[i].mid \in Nat /\ queue[i].mid # 0
  BY <1>3 DEF Entries
<1>6. \A k \in DOMAIN toBroker : toBroker[k].mid \in Nat
  BY <1>4 DEF Packets
<1> QED
  BY <1>1, <1>2, <1>5, <1>6

(* Nothing is published, nothing is in flight and nothing is committed.    *)
LEMMA ConsumerInitInv == ASSUME Init PROVE ConsumerInv
<1> USE DEF Init
<1>1. RuntimeInv /\ RuntimeTypeOK
  BY RuntimeInitInv DEF RuntimeInv
<1>2. TypeOK
  <2>1. queue \in Seq([mid : 1 .. MaxPublished, msg : Deliveries])
    OBVIOUS
  <2>2. toBroker \in Seq([kind : {"SUBSCRIBE", "PUBACK"}, mid : 0 .. MaxPublished])
    OBVIOUS
  <2>3. 0 \in 0 .. MaxPublished /\ 0 \in 0 .. MaxLosses
    BY ConsumerIs
  <2>4. stage[Consumer] = "idle"
    BY ConsumerIs DEF RuntimeInit
  <2> QED
    BY <1>1, <2>1, <2>2, <2>3, <2>4 DEF TypeOK, Apps
<1>3. OnlyWhileUp /\ MidsIncrease /\ InHand /\ AcksAreDue
  BY DEF OnlyWhileUp, MidsIncrease, InHand, AcksAreDue
<1>4. StuckIsReported /\ NothingLost
  BY DEF StuckIsReported, NothingLost
<1> QED
  BY <1>1, <1>2, <1>3, <1>4 DEF ConsumerInv

-----------------------------------------------------------------------------
(* The broker.                                                             *)

(* A new message gets a new identifier and waits at the broker.            *)
LEMMA PublishStep ==
    ASSUME ConsumerInv, NEW m \in Deliveries, Publish(m) PROVE ConsumerInv'
<1> USE DEF ConsumerInv
<1>1. /\ RuntimeInv' /\ RuntimeTypeOK'
      /\ UNCHANGED <<log, message, event, metrics, stage, last, known, raised, forgotten>>
  BY RuntimeIdle DEF Publish
<1>2. /\ published \in Nat /\ published + 1 \in 1 .. MaxPublished
      /\ published' = published + 1
      /\ UNCHANGED <<clientVars, linkVars, session, subscribed, given, settled,
                     interrupted, losses>>
  BY ConsumerIs DEF Publish, TypeOK
<1>3. \A n : Done(n) <=> Done(n)'
  BY <1>1, <1>2 DEF Done, Matching
<1>6. /\ queue \in Seq(Entries) /\ handling \in Nat /\ handling <= published
      /\ \A i \in DOMAIN queue : queue[i].mid \in Nat /\ queue[i].mid <= published
      /\ \A k \in DOMAIN toBroker : toBroker[k].mid \in Nat
  BY Types DEF MidsIncrease, InHand
<1>7. AcksAreDue /\ toBroker' = toBroker
  BY <1>2 DEF linkVars
<1>4. CASE UNCHANGED <<queue, owed>>
  <2>1. TypeOK'
    BY <1>1, <1>2, <1>4 DEF TypeOK, clientVars, linkVars, MidsOf
  <2>2. OnlyWhileUp' /\ StuckIsReported'
    BY <1>2 DEF OnlyWhileUp, StuckIsReported, Stuck, clientVars, linkVars
  <2>6. MidsIncrease'
    <3>1. \A i \in DOMAIN queue : queue[i].mid <= published + 1
      BY <1>2, <1>6
    <3> QED
      BY <1>2, <1>4, <3>1 DEF MidsIncrease
  <2>3. InHand'
    <3>1. handling <= published + 1
      BY <1>2, <1>6
    <3> QED
      BY <1>1, <1>2, <1>4, <3>1 DEF InHand, clientVars
  <2>4. AcksAreDue'
    <3>1. \A k \in DOMAIN toBroker : toBroker[k].kind = "PUBACK" =>
                toBroker[k].mid <= published + 1
      BY <1>2, <1>6 DEF AcksAreDue
    <3> QED
      BY <1>1, <1>2, <1>3, <1>4, <1>7, <3>1 DEF AcksAreDue, Done, Matching
  <2>5. NothingLost'
    BY <1>3, <1>4 DEF NothingLost, MessagesOf
  <2> QED
    BY <1>1, <2>1, <2>2, <2>3, <2>4, <2>5, <2>6
<1>5. CASE /\ queue' = Append(queue, [mid |-> published + 1, msg |-> m])
           /\ owed' = owed \union {m}
  <2>1. [mid |-> published + 1, msg |-> m] \in Entries /\ queue \in Seq(Entries)
    BY <1>2 DEF Entries, TypeOK
  <2>2. /\ queue' \in Seq(Entries)
        /\ Len(queue) \in Nat /\ DOMAIN queue = 1 .. Len(queue)
        /\ DOMAIN queue' = 1 .. Len(queue) + 1
        /\ \A i \in DOMAIN queue : queue'[i] = queue[i]
        /\ queue'[Len(queue) + 1] = [mid |-> published + 1, msg |-> m]
    BY <1>5, <2>1, AppendProperties
  <2>3. \A i \in DOMAIN queue' : i \in DOMAIN queue \/ i = Len(queue) + 1
    BY <2>2
  <2>4. \A i \in DOMAIN queue : i \in DOMAIN queue' /\ i < Len(queue) + 1
    BY <2>2
  <2>5. \A i \in DOMAIN queue : queue[i].mid \in Nat /\ queue[i].mid <= published
    BY <1>6
  <2>6. TypeOK'
    <3>1. given' \subseteq MidsOf(queue')
      BY <1>2, <2>2, <2>4 DEF TypeOK, MidsOf
    <3>2. owed' \subseteq Deliveries
      BY <1>5 DEF TypeOK
    <3>3. (given \subseteq MidsOf(queue))'
      BY <3>1
    <3> QED
      BY <1>1, <1>2, <2>2, <3>2, <3>3 DEF TypeOK, clientVars, linkVars, Entries
  <2>7. OnlyWhileUp' /\ StuckIsReported'
    BY <1>2 DEF OnlyWhileUp, StuckIsReported, Stuck, clientVars, linkVars
  <2>8. MidsIncrease'
    <3>1. ASSUME NEW i \in DOMAIN queue', NEW j \in DOMAIN queue', i < j
          PROVE  queue'[i].mid < queue'[j].mid
      <4>1. i \in DOMAIN queue
        BY <2>2, <2>3, <3>1
      <4>2. CASE j \in DOMAIN queue
        BY <2>2, <3>1, <4>1, <4>2 DEF MidsIncrease
      <4>3. CASE j = Len(queue) + 1
        BY <1>2, <2>2, <2>5, <4>1, <4>3
      <4> QED
        BY <2>3, <4>2, <4>3
    <3>2. ASSUME NEW i \in DOMAIN queue' PROVE queue'[i].mid <= published'
      BY <1>2, <2>2, <2>3, <2>5
    <3> QED
      BY <3>1, <3>2 DEF MidsIncrease
  <2>9. InHand'
    <3>1. handling' = handling /\ handling \in Nat /\ handling <= published
      BY <1>2 DEF InHand, clientVars, TypeOK
    <3>2. ASSUME NEW i \in DOMAIN queue', queue'[i].mid = handling, handling # 0
          PROVE  queue'[i].msg = message[Consumer]
      <4>1. i \in DOMAIN queue
        BY <1>2, <2>2, <2>3, <3>1, <3>2
      <4> QED
        BY <2>2, <3>2, <4>1 DEF InHand
    <3> QED
      BY <1>1, <1>2, <3>1, <3>2 DEF InHand
  <2>10. AcksAreDue'
    <3> SUFFICES ASSUME NEW k \in DOMAIN toBroker, toBroker[k].kind = "PUBACK"
                 PROVE  /\ toBroker[k].mid <= published'
                        /\ \A i \in DOMAIN queue' :
                              queue'[i].mid = toBroker[k].mid => Done(queue[i].msg)'
      BY <1>7 DEF AcksAreDue
    <3>1. toBroker[k].mid \in Nat /\ toBroker[k].mid <= published
      BY <1>6, <1>7 DEF AcksAreDue
    <3>2. ASSUME NEW i \in DOMAIN queue', queue'[i].mid = toBroker[k].mid
          PROVE  Done(queue[i].msg)'
      <4>1. i \in DOMAIN queue /\ queue'[i] = queue[i]
        BY <1>2, <2>2, <2>3, <3>1, <3>2
      <4>2. Done(queue[i].msg)
        BY <1>7, <3>2, <4>1 DEF AcksAreDue
      <4> QED
        BY <1>1, <1>2, <4>1, <4>2 DEF Done, Matching
    <3> QED
      BY <1>2, <3>1, <3>2
  <2>11. NothingLost'
    <3>1. SUFFICES ASSUME NEW n \in owed' PROVE n \in MessagesOf(queue)' \/ Done(n)'
      BY DEF NothingLost
    <3>2. CASE n = m
      <4>1. Len(queue) + 1 \in DOMAIN queue' /\ queue'[Len(queue) + 1].msg = n
        BY <2>2, <3>2
      <4> QED
        BY <4>1 DEF MessagesOf
    <3>3. CASE n \in owed
      <4>1. CASE n \in MessagesOf(queue)
        <5>1. PICK i \in DOMAIN queue : queue[i].msg = n
          BY <4>1 DEF MessagesOf
        <5>2. i \in DOMAIN queue' /\ queue'[i].msg = n
          BY <2>2, <2>4, <5>1
        <5> QED
          BY <5>2 DEF MessagesOf
      <4> QED
        BY <1>3, <3>3, <4>1 DEF NothingLost
    <3> QED
      BY <1>5, <3>2, <3>3
  <2> QED
    BY <1>1, <2>6, <2>7, <2>8, <2>9, <2>10, <2>11
<1> QED
  BY <1>4, <1>5 DEF Publish

(* A packet other than an acknowledgement arrives.                         *)
LEMMA SubscribeArrives ==
    ASSUME ConsumerInv, toBroker # <<>>, Head(toBroker) = Subscribe,
           toBroker' = Tail(toBroker), UNCHANGED given
    PROVE  /\ toBroker' \in Seq(Packets)
           /\ \A k \in DOMAIN toBroker' : \E j \in DOMAIN toBroker : toBroker[j] = toBroker'[k]
           /\ \A mid \in given' :
                 /\ mid \in given
                 /\ Contains(toBroker, Puback(mid)) => Contains(toBroker', Puback(mid))
<1>1. toBroker \in Seq(Packets)
  BY Types DEF ConsumerInv
<1>2. /\ toBroker' \in Seq(Packets)
      /\ \A k \in DOMAIN toBroker' : k + 1 \in DOMAIN toBroker /\ toBroker'[k] = toBroker[k + 1]
      /\ \A j \in DOMAIN toBroker :
            toBroker[j] = Subscribe
              \/ (j - 1 \in DOMAIN toBroker' /\ toBroker'[j - 1] = toBroker[j])
  BY <1>1, TailFacts
<1>3. \A mid : Puback(mid) # Subscribe
  BY DEF Puback, Subscribe
<1>4. \A mid : Contains(toBroker, Puback(mid)) => Contains(toBroker', Puback(mid))
  BY <1>2, <1>3 DEF Contains
<1> QED
  BY <1>2, <1>4

(* The broker takes a SUBSCRIBE: only the subscription changes.            *)
LEMMA BrokerSubscribeStep ==
    ASSUME ConsumerInv, BrokerSubscribe \/ BrokerRefuses PROVE ConsumerInv'
<1> USE DEF ConsumerInv
<1>1. /\ UNCHANGED <<runtimeVars, clientVars, session, queue, given, published,
                     owed, link, present, settled>>
      /\ toBroker # <<>> /\ Head(toBroker) = Subscribe /\ toBroker' = Tail(toBroker)
      /\ subscribed' \in BOOLEAN /\ interrupted' \in BOOLEAN
      /\ losses' \in 0 .. MaxLosses
  <2>1. CASE BrokerSubscribe
    BY <2>1 DEF BrokerSubscribe, TypeOK
  <2>2. CASE BrokerRefuses
    <3>1. losses' = losses + 1 /\ losses < MaxLosses /\ losses \in 0 .. MaxLosses
      BY <2>2 DEF BrokerRefuses, TypeOK
    <3>2. losses' \in 0 .. MaxLosses
      BY <3>1, ConsumerIs
    <3> QED
      BY <2>2, <3>2 DEF BrokerRefuses, brokerVars, TypeOK
  <2> QED
    BY <2>1, <2>2
<1>2. /\ RuntimeInv' /\ RuntimeTypeOK'
      /\ UNCHANGED <<log, message, stage, last>>
  BY <1>1, RuntimeIdle
<1>3. /\ toBroker' \in Seq(Packets)
      /\ \A k \in DOMAIN toBroker' : \E j \in DOMAIN toBroker : toBroker[j] = toBroker'[k]
      /\ \A mid \in given' :
            /\ mid \in given
            /\ Contains(toBroker, Puback(mid)) => Contains(toBroker', Puback(mid))
  BY <1>1, SubscribeArrives
<1>4. TypeOK'
  BY <1>1, <1>2, <1>3 DEF TypeOK, clientVars, MidsOf, Packets
<1>5. OnlyWhileUp'
  BY <1>1 DEF OnlyWhileUp
<1> QED
  BY <1>1, <1>2, <1>3, <1>4, <1>5, QuietStep DEF clientVars

(* The packet is an acknowledgement: its message leaves the queue, which   *)
(* is why it had to be done with.                                          *)
LEMMA BrokerPubackStep == ASSUME ConsumerInv, BrokerPuback PROVE ConsumerInv'
<1> USE DEF ConsumerInv
<1> DEFINE mid == Head(toBroker).mid
           at == {i \in DOMAIN queue : queue[i].mid = mid}
<1>1. /\ UNCHANGED <<runtimeVars, clientVars, session, subscribed, published,
                     owed, link, present, settled, interrupted, losses>>
      /\ toBroker # <<>> /\ Head(toBroker).kind = "PUBACK"
      /\ toBroker' = Tail(toBroker)
      /\ given' = given \ {mid}
      /\ queue' = IF at = {} THEN queue ELSE RemoveAt(queue, CHOOSE i \in at : TRUE)
  BY DEF BrokerPuback
<1>2. /\ RuntimeInv' /\ RuntimeTypeOK'
      /\ UNCHANGED <<log, message, stage, last>>
  BY <1>1, RuntimeIdle
<1>3. /\ queue \in Seq(Entries) /\ toBroker \in Seq(Packets)
      /\ published \in Nat /\ handling \in Nat
      /\ \A i \in DOMAIN queue : queue[i].mid \in Nat
  BY Types
<1>4. /\ toBroker' \in Seq(Packets)
      /\ \A k \in DOMAIN toBroker' : k + 1 \in DOMAIN toBroker /\ toBroker'[k] = toBroker[k + 1]
      /\ \A j \in DOMAIN toBroker :
            toBroker[j] = Head(toBroker)
              \/ (j - 1 \in DOMAIN toBroker' /\ toBroker'[j - 1] = toBroker[j])
  BY <1>1, <1>3, TailFacts
<1>5. \A n : Done(n) <=> Done(n)'
  BY <1>1, <1>2 DEF Done, Matching
(* The queue after the step, entry by entry.                               *)
<1>6. PICK from : /\ \A i \in DOMAIN queue' :
                        from[i] \in DOMAIN queue /\ queue'[i] = queue[from[i]]
                  /\ \A i, j \in DOMAIN queue' : i < j => from[i] < from[j]
                  /\ \A j \in DOMAIN queue :
                        queue[j].mid = mid \/ \E i \in DOMAIN queue' : queue'[i] = queue[j]
                  /\ queue' \in Seq(Entries)
  <2>1. CASE at = {}
    <3>1. queue' = queue
      BY <1>1, <2>1
    <3>2. \A i \in DOMAIN queue : [n \in DOMAIN queue |-> n][i] = i
      OBVIOUS
    <3>3. WITNESS [n \in DOMAIN queue |-> n]
    <3> QED
      BY <1>3, <2>1, <3>1, <3>2
  <2>2. CASE at # {}
    <3>1. PICK k \in DOMAIN queue : k \in at /\ queue' = RemoveAt(queue, k)
      BY <1>1, <2>2
    <3> DEFINE f == [i \in DOMAIN queue' |-> IF i < k THEN i ELSE i + 1]
    <3>2. /\ queue' \in Seq(Entries)
          /\ \A i \in DOMAIN queue' :
                (IF i < k THEN i ELSE i + 1) \in DOMAIN queue
                  /\ queue'[i] = queue[IF i < k THEN i ELSE i + 1]
          /\ \A j \in DOMAIN queue : j = k \/ \E i \in DOMAIN queue' : queue'[i] = queue[j]
      BY <1>3, <3>1, RemovedFacts
    <3>3. \A i, j \in DOMAIN queue' : i < j => f[i] < f[j]
      <4>1. k \in Nat /\ \A i \in DOMAIN queue' : i \in Nat
        BY <1>3, <3>2
      <4> QED
        BY <4>1
    <3>4. queue[k].mid = mid
      BY <3>1
    <3>5. \A i \in DOMAIN queue' : f[i] \in DOMAIN queue /\ queue'[i] = queue[f[i]]
      BY <3>2
    <3> HIDE DEF f
    <3>6. WITNESS f
    <3> QED
      BY <3>2, <3>3, <3>4, <3>5
  <2> QED
    BY <2>1, <2>2
<1>7. OnlyWhileUp'
  BY <1>1 DEF OnlyWhileUp
<1>8. MidsIncrease'
  <2>1. ASSUME NEW i \in DOMAIN queue', NEW j \in DOMAIN queue', i < j
        PROVE  queue'[i].mid < queue'[j].mid
    <3>1. from[i] \in DOMAIN queue /\ from[j] \in DOMAIN queue /\ from[i] < from[j]
      BY <1>6, <2>1
    <3> QED
      BY <1>6, <3>1 DEF MidsIncrease
  <2>2. ASSUME NEW i \in DOMAIN queue' PROVE queue'[i].mid <= published
    BY <1>6 DEF MidsIncrease
  <2> QED
    BY <1>1, <2>1, <2>2 DEF MidsIncrease
<1>9. InHand'
  <2>1. ASSUME NEW i \in DOMAIN queue', queue'[i].mid = handling, handling # 0
        PROVE  queue'[i].msg = message[Consumer]
    <3>1. from[i] \in DOMAIN queue /\ queue'[i] = queue[from[i]]
      BY <1>6
    <3> QED
      BY <2>1, <3>1 DEF InHand
  <2> QED
    BY <1>1, <1>2, <2>1 DEF InHand, clientVars
<1>10. \A i \in DOMAIN queue : queue[i].mid = mid => Done(queue[i].msg)
  <2>1. 1 \in DOMAIN toBroker /\ toBroker[1] = Head(toBroker)
    BY <1>1, <1>3
  <2> HIDE DEF mid
  <2> QED
    BY <1>1, <2>1 DEF AcksAreDue, mid
<1> HIDE DEF mid, at
<1>11. AcksAreDue'
  <2>1. ASSUME NEW k \in DOMAIN toBroker', toBroker'[k].kind = "PUBACK"
        PROVE  /\ toBroker'[k].mid <= published
               /\ \A i \in DOMAIN queue' :
                     queue'[i].mid = toBroker'[k].mid => Done(queue[i].msg)'
    <3>1. k + 1 \in DOMAIN toBroker /\ toBroker[k + 1].kind = "PUBACK"
      BY <1>4, <2>1
    <3>2. toBroker'[k].mid <= published
      BY <1>4, <3>1 DEF AcksAreDue
    <3>3. ASSUME NEW i \in DOMAIN queue', queue'[i].mid = toBroker'[k].mid
          PROVE  Done(queue[i].msg)'
      <4>1. from[i] \in DOMAIN queue /\ queue'[i] = queue[from[i]]
        BY <1>6
      <4>2. queue[from[i]].mid = toBroker[k + 1].mid
        BY <1>4, <2>1, <3>3, <4>1
      <4>3. Done(queue[from[i]].msg)
        BY <3>1, <4>1, <4>2 DEF AcksAreDue
      <4> QED
        BY <1>1, <1>2, <4>1, <4>3 DEF Done, Matching
    <3> QED
      BY <3>2, <3>3
  <2> QED
    BY <1>1, <2>1 DEF AcksAreDue
<1>12. StuckIsReported'
  <2> SUFFICES ASSUME NEW n \in given', Stuck(n)'
               PROVE  "message_processing_failed" \in errors'
    BY DEF StuckIsReported
  <2>1. n \in given /\ n # mid /\ handling # n /\ ~Contains(toBroker', Puback(n))
    BY <1>1 DEF Stuck, clientVars
  <2>2. ~Contains(toBroker, Puback(n))
    <3>1. SUFFICES ASSUME NEW j \in DOMAIN toBroker, toBroker[j] = Puback(n)
                   PROVE  FALSE
      BY DEF Contains
    <3>2. toBroker[j].mid = n
      BY <3>1 DEF Puback
    <3>3. toBroker[j] # Head(toBroker)
      BY <2>1, <3>2 DEF mid
    <3> QED
      BY <1>4, <2>1, <3>1, <3>3 DEF Contains
  <2> QED
    BY <1>1, <2>1, <2>2 DEF StuckIsReported, Stuck, clientVars
<1>13. NothingLost'
  <2> SUFFICES ASSUME NEW m \in owed' PROVE m \in MessagesOf(queue)' \/ Done(m)'
    BY DEF NothingLost
  <2>1. CASE m \in MessagesOf(queue)
    <3>1. PICK j \in DOMAIN queue : queue[j].msg = m
      BY <2>1 DEF MessagesOf
    <3>2. CASE queue[j].mid = mid
      BY <1>5, <1>10, <3>1, <3>2
    <3>3. CASE \E i \in DOMAIN queue' : queue'[i] = queue[j]
      BY <3>1, <3>3 DEF MessagesOf
    <3> QED
      BY <1>6, <3>2, <3>3
  <2> QED
    BY <1>1, <1>5, <2>1 DEF NothingLost
<1>14. TypeOK'
  <2>1. (given \subseteq MidsOf(queue))'
    <3>1. ASSUME NEW n \in given' PROVE \E i \in DOMAIN queue' : queue'[i].mid = n
      <4>1. n \in given /\ n # mid
        BY <1>1
      <4>2. PICK j \in DOMAIN queue : queue[j].mid = n
        BY <4>1 DEF TypeOK, MidsOf
      <4> QED
        BY <1>6, <4>1, <4>2
    <3> QED
      BY <3>1 DEF MidsOf
  <2> QED
    BY <1>1, <1>2, <1>4, <1>6, <2>1 DEF TypeOK, clientVars, Entries, Packets
<1> QED
  BY <1>2, <1>7, <1>8, <1>9, <1>11, <1>12, <1>13, <1>14

(* The session is lost while nothing of it is under way.                   *)
LEMMA BrokerForgetsStep == ASSUME ConsumerInv, BrokerForgets PROVE ConsumerInv'
<1> USE DEF ConsumerInv
<1>1. /\ UNCHANGED <<runtimeVars, clientVars, linkVars, given, published, settled>>
      /\ given = {} /\ toBroker = <<>>
      /\ queue' = <<>> /\ owed' = owed \ MessagesOf(queue)
      /\ session' = FALSE /\ subscribed' = FALSE /\ interrupted' = FALSE
      /\ losses' = losses + 1 /\ losses < MaxLosses
  BY DEF BrokerForgets, OnlyWhileUp
<1>2. /\ RuntimeInv' /\ RuntimeTypeOK'
      /\ UNCHANGED <<log, message, stage, last>>
  BY <1>1, RuntimeIdle
<1>3. \A n : Done(n) => Done(n)'
  BY <1>1, <1>2 DEF Done, Matching
<1>4. losses' \in 0 .. MaxLosses
  BY <1>1, ConsumerIs DEF TypeOK
<1>5. TypeOK'
  <2>1. queue' \in Seq([mid : 1 .. MaxPublished, msg : Deliveries])
    BY <1>1
  <2>2. owed' \subseteq Deliveries
    BY <1>1 DEF TypeOK
  <2> QED
    BY <1>1, <1>2, <1>4, <2>1, <2>2 DEF TypeOK, clientVars, linkVars
<1>6. OnlyWhileUp' /\ MidsIncrease' /\ AcksAreDue' /\ StuckIsReported'
  BY <1>1 DEF OnlyWhileUp, MidsIncrease, AcksAreDue, StuckIsReported, linkVars
<1>7. InHand'
  BY <1>1, <1>2 DEF InHand, clientVars
<1>8. NothingLost'
  BY <1>1, <1>3 DEF NothingLost
<1> QED
  BY <1>2, <1>5, <1>6, <1>7, <1>8

-----------------------------------------------------------------------------
(* The connection, and the application thread.                             *)

(* A connection that is closed takes what was under way with it.           *)
LEMMA ClosedStep ==
    ASSUME ConsumerInv, NEW state \in {"down", "broken"}, CloseLink(state),
           UNCHANGED <<runtimeVars, session, subscribed, queue, published, owed,
                       settled, handling>>,
           errors \subseteq errors',
           errors' \subseteq errors \union {"subscribe_failed"},
           app' \in Apps, connected' \in BOOLEAN, ever' \in BOOLEAN,
           losses' \in 0 .. MaxLosses
    PROVE  ConsumerInv'
<1> USE DEF ConsumerInv
<1>1. /\ RuntimeInv' /\ RuntimeTypeOK'
      /\ UNCHANGED <<log, message, stage, last>>
  BY RuntimeIdle
<1>2. /\ link' = state /\ present' = FALSE /\ toBroker' = <<>> /\ given' = {}
      /\ interrupted' \in BOOLEAN
  BY DEF CloseLink, TypeOK
<1>3. toBroker' \in Seq([kind : {"SUBSCRIBE", "PUBACK"}, mid : 0 .. MaxPublished])
  BY <1>2
<1>4. TypeOK'
  BY <1>1, <1>2, <1>3 DEF TypeOK
<1>5. OnlyWhileUp'
  BY <1>2 DEF OnlyWhileUp
<1> QED
  BY <1>1, <1>2, <1>4, <1>5, QuietStep

(* A loss that is allowed stays within the bound on losses.                *)
LEMMA Loss ==
    ASSUME TypeOK, losses < MaxLosses, losses' = losses + 1
    PROVE  losses' \in 0 .. MaxLosses
BY ConsumerIs DEF TypeOK

(* A connection that closes, from either side, takes what is in flight     *)
(* with it and nothing of what the broker holds.                           *)
LEMMA CloseSteps ==
    ASSUME ConsumerInv, Break \/ OnConnectSubscribeFails \/ Start \/ Stop
    PROVE  ConsumerInv'
<1>1. TypeOK
  BY DEF ConsumerInv
<1>2. /\ app \in Apps /\ connected \in BOOLEAN /\ ever \in BOOLEAN
      /\ losses \in 0 .. MaxLosses
  BY <1>1 DEF TypeOK
<1>3. CASE Break
  <2>1. losses' \in 0 .. MaxLosses /\ CloseLink("broken")
    BY <1>1, <1>3, Loss DEF Break
  <2> QED
    BY <1>2, <1>3, <2>1, ClosedStep DEF Break, clientVars
<1>4. CASE OnConnectSubscribeFails
  <2>1. losses' \in 0 .. MaxLosses /\ CloseLink("broken")
    BY <1>1, <1>4, Loss DEF OnConnectSubscribeFails
  <2> QED
    BY <1>2, <1>4, <2>1, ClosedStep DEF OnConnectSubscribeFails
<1>5. CASE Start
  <2>1. CloseLink("down") /\ app' \in Apps
    BY <1>5 DEF Start, Apps
  <2> QED
    BY <1>2, <1>5, <2>1, ClosedStep DEF Start
<1>6. CASE Stop
  <2>1. losses' \in 0 .. MaxLosses /\ CloseLink("down") /\ app' \in Apps
    BY <1>1, <1>6, Loss DEF Stop, Apps
  <2> QED
    BY <1>2, <1>6, <2>1, ClosedStep DEF Stop
<1> QED
  BY <1>3, <1>4, <1>5, <1>6

(* Steps of the application thread that leave the connection alone.        *)
LEMMA ApplicationStep ==
    ASSUME ConsumerInv, StartReturns \/ StartTimesOut \/ LoopStop
    PROVE  ConsumerInv'
<1> USE DEF ConsumerInv
<1>1. /\ UNCHANGED <<runtimeVars, brokerVars, linkVars, connected, ever, handling,
                     errors, settled, interrupted>>
      /\ app' \in Apps
  BY DEF StartReturns, StartTimesOut, LoopStop, Apps
<1>2. losses' \in 0 .. MaxLosses
  BY Loss DEF StartReturns, StartTimesOut, LoopStop, TypeOK
<1>3. /\ RuntimeInv' /\ RuntimeTypeOK'
      /\ UNCHANGED <<log, message, stage, last>>
  BY <1>1, RuntimeIdle
<1>4. TypeOK'
  BY <1>1, <1>2, <1>3 DEF TypeOK, brokerVars, linkVars, MidsOf
<1>5. OnlyWhileUp'
  BY <1>1 DEF OnlyWhileUp, brokerVars, linkVars
<1> QED
  BY <1>1, <1>3, <1>4, <1>5, QuietStep DEF brokerVars, linkVars

(* A reconnection: the broker offers what it still holds.                  *)
LEMMA ConnectStep == ASSUME ConsumerInv, Connect PROVE ConsumerInv'
<1> USE DEF ConsumerInv
<1>1. /\ UNCHANGED <<runtimeVars, clientVars, subscribed, queue, given,
                     published, owed, toBroker, settled, interrupted, losses>>
      /\ given = {} /\ toBroker = <<>>
      /\ link' = "connack" /\ present' = session /\ session' = TRUE
  BY DEF Connect, OnlyWhileUp
<1>2. /\ RuntimeInv' /\ RuntimeTypeOK'
      /\ UNCHANGED <<log, message, stage, last>>
  BY <1>1, RuntimeIdle
<1>3. TypeOK'
  <2>1. present' \in BOOLEAN /\ session' \in BOOLEAN
    BY <1>1 DEF TypeOK
  <2> QED
    BY <1>1, <1>2, <2>1 DEF TypeOK, clientVars, MidsOf
<1>4. OnlyWhileUp'
  BY <1>1 DEF OnlyWhileUp
<1> QED
  BY <1>1, <1>2, <1>3, <1>4, QuietStep DEF clientVars

(* A new connection has nothing under way but its own subscription.        *)
LEMMA OnConnectStep == ASSUME ConsumerInv, OnConnect PROVE ConsumerInv'
<1> USE DEF ConsumerInv
<1>1. /\ UNCHANGED <<brokerVars, present, app, handling, errors, settled,
                     interrupted, losses>>
      /\ link' = "up" /\ given' = {} /\ Connected
      /\ toBroker' = <<>> \/ toBroker' = <<Subscribe>>
  BY DEF OnConnect, OnlyWhileUp, brokerVars
<1>2. RuntimeInv' /\ UNCHANGED <<log, message, stage, last>>
  <2>1. CASE RecordReconnect(Consumer)
    BY <2>1, ConsumerIs, NotifyStep DEF RecordReconnect
  <2>2. CASE UNCHANGED runtimeVars
    BY <2>2, RuntimeIdle
  <2> QED
    BY <1>1, <2>1, <2>2 DEF Connected
<1>3. RuntimeTypeOK'
  BY <1>2 DEF RuntimeInv
<1>4. toBroker' \in Seq(Packets) /\ \A k \in DOMAIN toBroker' : toBroker'[k].kind # "PUBACK"
  <2>1. Subscribe \in Packets /\ Subscribe.kind # "PUBACK"
    BY ConsumerIs DEF Subscribe, Packets
  <2>2. CASE toBroker' = <<>>
    BY <2>2
  <2>3. CASE toBroker' = <<Subscribe>>
    <3>1. <<Subscribe>> \in Seq(Packets) /\ DOMAIN <<Subscribe>> = {1}
      BY <2>1
    <3>2. <<Subscribe>>[1] = Subscribe
      OBVIOUS
    <3> HIDE DEF Subscribe
    <3> QED
      BY <2>1, <2>3, <3>1, <3>2
  <2> QED
    BY <1>1, <2>2, <2>3
<1>5. TypeOK'
  BY <1>1, <1>2, <1>3, <1>4 DEF TypeOK, Connected, brokerVars, Packets
<1>6. OnlyWhileUp'
  BY <1>1 DEF OnlyWhileUp
<1> QED
  BY <1>1, <1>2, <1>4, <1>5, <1>6, QuietStep DEF brokerVars

(* _on_disconnect changes what the consumer knows of its connection only.  *)
LEMMA OnDisconnectStep == ASSUME ConsumerInv, OnDisconnect PROVE ConsumerInv'
<1> USE DEF ConsumerInv
<1>1. /\ UNCHANGED <<brokerVars, present, toBroker, app, ever, handling, errors,
                     settled, interrupted, losses>>
      /\ link' = "down" /\ given = {} /\ toBroker = <<>> /\ connected' = FALSE
      /\ RecordDisconnect(Consumer)
  BY DEF OnDisconnect, OnlyWhileUp
<1>2. RuntimeInv' /\ UNCHANGED <<log, message, stage, last>>
  BY <1>1, ConsumerIs, NotifyStep DEF RecordDisconnect
<1>3. RuntimeTypeOK'
  BY <1>2 DEF RuntimeInv
<1>4. TypeOK'
  BY <1>1, <1>2, <1>3 DEF TypeOK, brokerVars, MidsOf
<1>5. OnlyWhileUp'
  BY <1>1 DEF OnlyWhileUp, brokerVars
<1> QED
  BY <1>1, <1>2, <1>4, <1>5, QuietStep DEF brokerVars

-----------------------------------------------------------------------------
(* The callback.                                                           *)

(* _on_message: the ledger has answered before the acknowledgement is due. *)
LEMMA OnMessageStep == ASSUME ConsumerInv, OnMessage PROVE ConsumerInv'
<1> USE DEF ConsumerInv
<1>1. PICK i \in DOMAIN queue, now \in Times :
        /\ queue[i].mid \notin given
        /\ given' = given \union {queue[i].mid}
        /\ handling' = queue[i].mid
        /\ toBroker' = toBroker
        /\ Receive(Consumer, queue[i].msg, now)
  BY DEF OnMessage, Sendable, PacketsAtReceipt
<1>2. /\ UNCHANGED <<session, subscribed, queue, published, owed, link, present,
                     app, connected, ever, errors, settled, interrupted, losses>>
      /\ link = "up" /\ handling = 0
  BY DEF OnMessage
<1>3. /\ queue \in Seq(Entries) /\ queue[i] \in Entries
      /\ \A j \in DOMAIN queue : queue[j].mid \in Nat /\ queue[j].mid # 0
      /\ \A j \in DOMAIN queue : j \in Nat
  BY Types
<1>4. PICK m \in Deliveries : m = queue[i].msg
  BY <1>3 DEF Entries
<1>5. Receive(Consumer, m, now)
  BY <1>1, <1>4
<1>6. RuntimeInv'
  BY <1>5, ConsumerIs, ReceiveStep
<1>7. /\ RuntimeTypeOK /\ RuntimeTypeOK' /\ UNCHANGED log /\ message'[Consumer] = m
      /\ stage'[Consumer] = "idle" => last'[Consumer].disposition # "none"
  <2>1. RuntimeTypeOK /\ RuntimeTypeOK'
    BY <1>6 DEF RuntimeInv
  <2>0. DOMAIN last = Runtimes /\ DOMAIN stage = Runtimes /\ DOMAIN message = Runtimes
    BY <2>1 DEF RuntimeTypeOK
  <2>2. UNCHANGED log /\ message'[Consumer] = m
    BY <1>5, <2>0, ConsumerIs DEF Receive
  <2>3. CASE \E code \in {"adapter", "event_contract", "ingestion_before_observation"} :
                last' = [last EXCEPT ![Consumer] = Rejected(code)]
    <3>1. PICK code : last' = [last EXCEPT ![Consumer] = Rejected(code)]
      BY <2>3
    <3>2. last'[Consumer] = Rejected(code)
      BY <2>0, <3>1, ConsumerIs
    <3> QED
      BY <2>1, <2>2, <3>2 DEF Rejected
  <2>4. CASE stage' = [stage EXCEPT ![Consumer] = "mapped"]
    BY <2>0, <2>1, <2>2, <2>4, ConsumerIs
  <2>5. \/ \E code \in {"adapter", "event_contract", "ingestion_before_observation"} :
                last' = [last EXCEPT ![Consumer] = Rejected(code)]
        \/ stage' = [stage EXCEPT ![Consumer] = "mapped"]
    BY <1>5 DEF Receive
  <2> QED
    BY <2>1, <2>2, <2>3, <2>4, <2>5
<1>8. \A n : Done(n) <=> Done(n)'
  BY <1>2, <1>7 DEF Done, Matching
<1>9. TypeOK'
  <2>1. given' \subseteq MidsOf(queue)
    BY <1>1 DEF TypeOK, MidsOf
  <2>2. (given \subseteq MidsOf(queue))'
    BY <1>2, <2>1 DEF MidsOf
  <2>3. handling' \in 0 .. MaxPublished /\ handling' # 0
    <3>1. queue[i].mid \in 1 .. MaxPublished
      BY <1>3 DEF Entries
    <3> QED
      BY <1>1, <3>1, ConsumerIs
  <2> QED
    BY <1>1, <1>2, <1>7, <2>2, <2>3 DEF TypeOK
<1>10. OnlyWhileUp' /\ MidsIncrease'
  BY <1>2 DEF OnlyWhileUp, MidsIncrease
<1>11. InHand'
  <2>1. \A j \in DOMAIN queue : queue[j].mid = queue[i].mid => j = i
    BY <1>3 DEF MidsIncrease
  <2>2. handling' <= published
    BY <1>1 DEF MidsIncrease
  <2> QED
    BY <1>1, <1>2, <1>4, <1>7, <2>1, <2>2 DEF InHand
<1>12. AcksAreDue'
  BY <1>1, <1>2, <1>7 DEF AcksAreDue, Done, Matching
<1>13. StuckIsReported'
  <2> SUFFICES ASSUME NEW n \in given', Stuck(n)'
               PROVE  "message_processing_failed" \in errors'
    BY DEF StuckIsReported
  <2>1. n # queue[i].mid /\ n \in given /\ ~Contains(toBroker, Puback(n))
    BY <1>1 DEF Stuck
  <2>2. handling # n
    <3>1. n \in MidsOf(queue)
      BY <2>1 DEF TypeOK
    <3> QED
      BY <1>2, <1>3, <3>1 DEF MidsOf
  <2> QED
    BY <1>2, <2>1, <2>2 DEF StuckIsReported, Stuck
<1>14. NothingLost'
  BY <1>2, <1>8 DEF NothingLost, MessagesOf
<1> QED
  BY <1>6, <1>9, <1>10, <1>11, <1>12, <1>13, <1>14

(* A ledger call appends to the ledger, or leaves it alone.                *)
LEMMA ClassifyExtends ==
    ASSUME RuntimeInv, NEW r \in Runtimes,
           LookUp(r) \/ Ingest(r) \/ Count(r) \/ Raise(r)
    PROVE  LogExtends
<1> USE DEF RuntimeInv
<1>1. CASE UNCHANGED log
  BY <1>1, LogUnchanged
<1>2. CASE log' = log \o Fresh(log, <<event[r]>>) /\ stage[r] = "looked_up"
  <2>1. event[r] \in Event /\ log \in Seq(Event)
    BY <1>2 DEF RuntimeTypeOK
  <2> QED
    BY <1>2, <2>1, SingleAnswer DEF LogExtends
<1> QED
  BY <1>1, <1>2 DEF LookUp, Ingest, Count, Raise

(* The runtime is at work on the message, which stays in hand.             *)
LEMMA ClassifyStep ==
    ASSUME ConsumerInv, Classify \/ ClassifyRaises PROVE ConsumerInv'
<1> USE DEF ConsumerInv
<1>1. /\ handling # 0 /\ UNCHANGED consumerVars
      /\ LookUp(Consumer) \/ Ingest(Consumer) \/ Count(Consumer) \/ Raise(Consumer)
  BY DEF Classify, ClassifyRaises
<1>2. UNCHANGED <<clientVars, brokerVars, linkVars, settled, interrupted, losses>>
  BY <1>1 DEF consumerVars
<1>3. RuntimeInv' /\ LogExtends
  BY <1>1, ConsumerIs, LookUpStep, IngestStep, CountStep, RaiseStep, ClassifyExtends
<1>4. RuntimeTypeOK /\ RuntimeTypeOK' /\ message' = message
  BY <1>1, <1>3 DEF RuntimeInv, LookUp, Ingest, Count, Raise
<1>5. \A n : Done(n) => Done(n)'
  BY <1>2, <1>3, <1>4, DoneKept
<1>6. stage'[Consumer] = "idle" => last'[Consumer].disposition # "none"
  <2>1. CASE LookUp(Consumer)
    BY <1>4, <2>1, ConsumerIs DEF LookUp, RuntimeTypeOK
  <2>2. CASE Raise(Consumer)
    <3>1. last'[Consumer].disposition = "raised"
      BY <1>4, <2>2, ConsumerIs DEF Raise, RuntimeTypeOK, NoDelivery
    <3> QED
      BY <3>1
  <2>3. CASE Ingest(Consumer)
    <3>1. CASE stage' = [stage EXCEPT ![Consumer] = "ingested"]
      BY <1>4, <3>1, ConsumerIs DEF RuntimeTypeOK
    <3>2. CASE last' = [last EXCEPT ![Consumer] = Rejected("ledger_identity_conflict")]
      BY <1>4, <3>2, ConsumerIs DEF RuntimeTypeOK, Rejected
    <3> QED
      BY <2>3, <3>1, <3>2 DEF Ingest
  <2>4. CASE Count(Consumer)
    <3>1. result[Consumer].status \in {"accepted", "duplicate"}
      BY <2>4, ConsumerIs DEF Count, RuntimeInv, Sound, AnswerAt
    <3>2. last'[Consumer].disposition = result[Consumer].status
      BY <1>4, <2>4, ConsumerIs DEF Count, RuntimeTypeOK
    <3> QED
      BY <3>1, <3>2
  <2> QED
    BY <1>1, <2>1, <2>2, <2>3, <2>4
<1>7. TypeOK'
  BY <1>1, <1>2, <1>4 DEF TypeOK, clientVars, brokerVars, linkVars, MidsOf
<1>8. OnlyWhileUp' /\ MidsIncrease' /\ StuckIsReported'
  BY <1>2 DEF OnlyWhileUp, MidsIncrease, StuckIsReported, Stuck, clientVars,
              brokerVars, linkVars
<1>9. InHand'
  BY <1>2, <1>4, <1>6 DEF InHand, clientVars, brokerVars
<1>10. AcksAreDue'
  <2>1. queue' = queue /\ toBroker' = toBroker /\ published' = published
    BY <1>2 DEF brokerVars, linkVars
  <2>2. ASSUME NEW k \in DOMAIN toBroker, toBroker[k].kind = "PUBACK",
               NEW i \in DOMAIN queue, queue[i].mid = toBroker[k].mid
        PROVE  Done(queue[i].msg)'
    <3>1. PICK n : n = queue[i].msg
      OBVIOUS
    <3>2. Done(n)'
      BY <1>5, <2>2, <3>1 DEF AcksAreDue
    <3>3. (queue[i].msg)' = n
      BY <2>1, <3>1
    <3> QED
      BY <3>2, <3>3 DEF Done, Matching
  <2> QED
    BY <2>1, <2>2 DEF AcksAreDue
<1>11. NothingLost'
  BY <1>2, <1>5 DEF NothingLost, MessagesOf, brokerVars
<1> QED
  BY <1>3, <1>7, <1>8, <1>9, <1>10, <1>11

(* A message that was classified without an exception is done with.        *)
LEMMA ClassifiedDone ==
    ASSUME ConsumerInv, Classified, Settle, UNCHANGED runtimeVars
    PROVE  /\ Done(message[Consumer])'
           /\ settled \subseteq settled' /\ settled' \subseteq Deliveries
<1> USE DEF ConsumerInv
<1> DEFINE m == message[Consumer]
           kind == last[Consumer].disposition
<1>1. /\ handling # 0 /\ stage[Consumer] = "idle"
      /\ kind # "raised" /\ kind # "none"
      /\ message' = message /\ log' = log
  BY DEF Classified, InHand, runtimeVars
<1>2. /\ RuntimeTypeOK /\ ResultAt(Consumer)
      /\ last[Consumer] \in DeliveryResult
      /\ m \in Deliveries \union {NoMessage}
  BY ConsumerIs DEF RuntimeInv, Sound, RuntimeTypeOK
<1>3. kind \in {"accepted", "duplicate", "rejected"}
  BY <1>1, <1>2 DEF DeliveryResult
<1>4. settled' = IF kind = "rejected" THEN settled \union {m} ELSE settled
  BY DEF Settle
<1>5. settled \subseteq settled' /\ settled' \subseteq Deliveries
  <2>1. m \in Deliveries /\ settled \subseteq Deliveries
    BY <1>1 DEF InHand, TypeOK
  <2> QED
    BY <1>4, <2>1
<1>6. CASE kind = "rejected"
  BY <1>1, <1>4, <1>5, <1>6 DEF Done
<1>7. CASE kind # "rejected"
  <2>1. /\ m \in Messages /\ last[Consumer].ordinal \in DOMAIN log
        /\ Matches(log[last[Consumer].ordinal], EventFrom(m, 0))
    BY <1>2, <1>3, <1>7 DEF ResultAt
  <2>2. last[Consumer].ordinal \in Matching(EventFrom(m, 0))
    BY <2>1 DEF Matching
  <2> QED
    BY <1>1, <1>5, <2>1, <2>2 DEF Done, Matching
<1> QED
  BY <1>5, <1>6, <1>7

(* The message leaves the consumer's hands, acknowledged or not.           *)
LEMMA ReleaseStep ==
    ASSUME ConsumerInv, TypeOK', OnlyWhileUp', handling' = 0,
           UNCHANGED <<runtimeVars, brokerVars>>,
           settled \subseteq settled', errors \subseteq errors',
           \/ UNCHANGED toBroker /\ \/ link # "up"
                                    \/ "message_processing_failed" \in errors'
           \/ /\ handling # 0 /\ Done(message[Consumer])'
              /\ toBroker' = Append(toBroker, Puback(handling))
    PROVE  ConsumerInv'
<1> USE DEF ConsumerInv
<1>1. /\ RuntimeInv' /\ RuntimeTypeOK /\ RuntimeTypeOK' /\ LogExtends
      /\ UNCHANGED <<log, message, stage, last, queue, given, published, owed>>
  BY RuntimeIdle DEF brokerVars, RuntimeInv
<1>2. \A n : Done(n) => Done(n)'
  BY <1>1, DoneKept
<1>3. MidsIncrease' /\ NothingLost'
  BY <1>1, <1>2 DEF MidsIncrease, NothingLost, MessagesOf
<1>4. InHand'
  <2>1. published \in Nat
    BY Types
  <2> QED
    BY <1>1, <2>1 DEF InHand
<1>5. /\ toBroker \in Seq(Packets) /\ handling \in Nat /\ handling <= published
  BY Types DEF InHand
<1>6. ASSUME NEW p \in Packets, p.kind = "PUBACK", Contains(toBroker, p)
      PROVE  /\ p.mid <= published
             /\ \A i \in DOMAIN queue : queue[i].mid = p.mid => Done(queue[i].msg)'
  <2>1. PICK k \in DOMAIN toBroker : toBroker[k] = p
    BY <1>6 DEF Contains
  <2>2. ASSUME NEW i \in DOMAIN queue, queue[i].mid = p.mid PROVE Done(queue[i].msg)'
    <3>1. PICK n : n = queue[i].msg
      OBVIOUS
    <3>2. Done(n)'
      BY <1>2, <1>6, <2>1, <2>2, <3>1 DEF AcksAreDue
    <3>3. (queue[i].msg)' = n
      BY <1>1, <3>1
    <3> QED
      BY <3>2, <3>3 DEF Done, Matching
  <2> QED
    BY <1>6, <2>1, <2>2 DEF AcksAreDue
<1>7. CASE UNCHANGED toBroker
  <2>1. AcksAreDue'
    <3>1. \A k \in DOMAIN toBroker : toBroker[k] \in Packets /\ Contains(toBroker, toBroker[k])
      BY <1>5 DEF Contains
    <3> QED
      BY <1>1, <1>6, <1>7, <3>1 DEF AcksAreDue
  <2>2. StuckIsReported'
    <3>1. CASE link # "up"
      BY <1>1, <3>1 DEF OnlyWhileUp, StuckIsReported
    <3>2. CASE "message_processing_failed" \in errors'
      BY <3>2 DEF StuckIsReported
    <3>3. CASE handling # 0 /\ toBroker' = Append(toBroker, Puback(handling))
      <4>1. Len(toBroker') = Len(toBroker) + 1 /\ Len(toBroker) \in Nat
        BY <1>5, <3>3
      <4> QED
        BY <1>7, <4>1
    <3> QED
      BY <3>1, <3>2, <3>3
  <2> QED
    BY <1>1, <1>3, <1>4, <2>1, <2>2
<1>8. CASE /\ handling # 0 /\ Done(message[Consumer])'
           /\ toBroker' = Append(toBroker, Puback(handling))
  <2>1. Puback(handling) \in Packets
    <3>1. handling \in 0 .. MaxPublished
      BY DEF TypeOK
    <3> QED
      BY <3>1 DEF Puback, Packets
  <2>2. /\ DOMAIN toBroker = 1 .. Len(toBroker) /\ Len(toBroker) \in Nat
        /\ DOMAIN toBroker' = 1 .. Len(toBroker) + 1
        /\ \A k \in DOMAIN toBroker : toBroker'[k] = toBroker[k]
        /\ toBroker'[Len(toBroker) + 1] = Puback(handling)
    BY <1>5, <1>8, <2>1, AppendProperties
  <2>3. \A k \in DOMAIN toBroker' : k \in DOMAIN toBroker \/ k = Len(toBroker) + 1
    BY <2>2
  <2>4. \A k \in DOMAIN toBroker : k \in DOMAIN toBroker'
    BY <2>2
  <2>5. AcksAreDue'
    <3>1. ASSUME NEW k \in DOMAIN toBroker', toBroker'[k].kind = "PUBACK"
          PROVE  /\ toBroker'[k].mid <= published
                 /\ \A i \in DOMAIN queue :
                       queue[i].mid = toBroker'[k].mid => Done(queue[i].msg)'
      <4>1. CASE k \in DOMAIN toBroker
        <5>1. toBroker[k] \in Packets /\ Contains(toBroker, toBroker[k])
          BY <1>5, <4>1 DEF Contains
        <5>2. toBroker'[k] = toBroker[k]
          BY <2>2, <4>1
        <5> QED
          BY <1>6, <3>1, <5>1, <5>2
      <4>2. CASE k = Len(toBroker) + 1
        <5>1. toBroker'[k].mid = handling
          BY <2>2, <4>2 DEF Puback
        <5>2. ASSUME NEW i \in DOMAIN queue, queue[i].mid = handling
              PROVE  Done(queue[i].msg)'
          <6>1. (queue[i].msg)' = (message[Consumer])'
            BY <1>1, <1>8, <5>2 DEF InHand
          <6> QED
            BY <1>8, <6>1 DEF Done, Matching
        <5> QED
          BY <1>5, <5>1, <5>2
      <4> QED
        BY <2>3, <4>1, <4>2
    <3> QED
      BY <1>1, <3>1 DEF AcksAreDue
  <2>6. StuckIsReported'
    <3> SUFFICES ASSUME NEW n \in given', Stuck(n)'
                 PROVE  "message_processing_failed" \in errors'
      BY DEF StuckIsReported
    <3>1. n \in given /\ ~Contains(toBroker', Puback(n))
      BY <1>1 DEF Stuck
    <3>2. n # handling
      <4>1. Len(toBroker) + 1 \in DOMAIN toBroker'
        BY <2>2
      <4> QED
        BY <2>2, <3>1, <4>1 DEF Contains
    <3>3. ~Contains(toBroker, Puback(n))
      BY <2>2, <2>4, <3>1 DEF Contains
    <3> QED
      BY <3>1, <3>2, <3>3 DEF StuckIsReported, Stuck
  <2> QED
    BY <1>1, <1>3, <1>4, <2>5, <2>6
<1> QED
  BY <1>7, <1>8

(* on_message returns after ack, or after recording that it failed.        *)
LEMMA OnMessageAcksStep == ASSUME ConsumerInv, OnMessageAcks PROVE ConsumerInv'
<1> USE DEF ConsumerInv
<1>1. /\ UNCHANGED <<runtimeVars, brokerVars, link, present, app, connected, ever,
                     errors, interrupted, losses>>
      /\ handling' = 0 /\ handling # 0 /\ Classified /\ Settle
      /\ \/ link = "up" /\ toBroker' = Append(toBroker, Puback(handling))
         \/ link # "up" /\ UNCHANGED toBroker
  BY DEF OnMessageAcks, Classified
<1>2. /\ Done(message[Consumer])'
      /\ settled \subseteq settled' /\ settled' \subseteq Deliveries
  BY <1>1, ClassifiedDone
<1>3. /\ RuntimeInv' /\ RuntimeTypeOK'
      /\ UNCHANGED <<log, message, stage, last>>
  BY <1>1, RuntimeIdle
<1>4. toBroker' \in Seq(Packets)
  <2>1. Puback(handling) \in Packets /\ toBroker \in Seq(Packets)
    <3>1. handling \in 0 .. MaxPublished
      BY DEF TypeOK
    <3> QED
      BY <3>1, Types DEF Puback, Packets
  <2> QED
    BY <1>1, <2>1, AppendProperties
<1>5. TypeOK'
  <2>1. stage[Consumer] = "idle" /\ 0 \in 0 .. MaxPublished
    BY <1>1, ConsumerIs DEF Classified
  <2> QED
    BY <1>1, <1>2, <1>3, <1>4, <2>1 DEF TypeOK, brokerVars, MidsOf, Packets
<1>6. OnlyWhileUp'
  BY <1>1 DEF OnlyWhileUp, brokerVars
<1> QED
  BY <1>1, <1>2, <1>5, <1>6, ReleaseStep

(* The acknowledgement that fails leaves the message with the broker.      *)
LEMMA OnMessageAckFailsStep ==
    ASSUME ConsumerInv, OnMessageAckFails PROVE ConsumerInv'
<1> USE DEF ConsumerInv
<1>1. /\ UNCHANGED <<runtimeVars, brokerVars, linkVars, app, connected, ever,
                     interrupted, losses>>
      /\ handling' = 0 /\ Classified /\ Settle /\ link = "broken"
      /\ errors' = errors \union {"ack_failed"}
  BY DEF OnMessageAckFails
<1>2. settled \subseteq settled' /\ settled' \subseteq Deliveries
  BY <1>1, ClassifiedDone
<1>3. /\ RuntimeInv' /\ RuntimeTypeOK'
      /\ UNCHANGED <<log, message, stage, last>>
  BY <1>1, RuntimeIdle
<1>4. TypeOK'
  <2>1. stage[Consumer] = "idle" /\ 0 \in 0 .. MaxPublished
    BY <1>1, ConsumerIs DEF Classified
  <2> QED
    BY <1>1, <1>2, <1>3, <2>1 DEF TypeOK, brokerVars, linkVars, MidsOf
<1>5. OnlyWhileUp'
  BY <1>1 DEF OnlyWhileUp, brokerVars, linkVars
<1> QED
  BY <1>1, <1>2, <1>4, <1>5, ReleaseStep DEF linkVars

(* A ledger failure is recorded and the message stays unacknowledged.      *)
LEMMA OnMessageRaisedStep ==
    ASSUME ConsumerInv, OnMessageRaised PROVE ConsumerInv'
<1> USE DEF ConsumerInv
<1>1. /\ UNCHANGED <<runtimeVars, brokerVars, linkVars, app, connected, ever,
                     settled, interrupted, losses>>
      /\ handling' = 0 /\ stage[Consumer] = "idle"
      /\ errors' = errors \union {"message_processing_failed"}
  BY DEF OnMessageRaised, ErrorsAfterRaise
<1>2. /\ RuntimeInv' /\ RuntimeTypeOK'
      /\ UNCHANGED <<log, message, stage, last>>
  BY <1>1, RuntimeIdle
<1>3. TypeOK'
  <2>1. 0 \in 0 .. MaxPublished
    BY ConsumerIs
  <2> QED
    BY <1>1, <1>2, <2>1 DEF TypeOK, brokerVars, linkVars, MidsOf
<1>4. OnlyWhileUp'
  BY <1>1 DEF OnlyWhileUp, brokerVars, linkVars
<1> QED
  BY <1>1, <1>3, <1>4, ReleaseStep DEF linkVars

(* The process dies with the message in hand: the broker still has it.     *)
LEMMA CrashStep == ASSUME ConsumerInv, Crash PROVE ConsumerInv'
<1> USE DEF ConsumerInv
<1>1. /\ UNCHANGED <<session, subscribed, queue, published, owed, settled>>
      /\ Die(Consumer) /\ CloseLink("down")
      /\ app' = "stopped" /\ connected' = FALSE /\ ever' = FALSE
      /\ handling' = 0 /\ errors' = {}
      /\ losses < MaxLosses /\ losses' = losses + 1
  BY DEF Crash
<1>2. /\ link' = "down" /\ present' = FALSE /\ toBroker' = <<>> /\ given' = {}
      /\ interrupted' \in BOOLEAN
  BY <1>1 DEF CloseLink, TypeOK
<1>3. RuntimeInv' /\ RuntimeTypeOK' /\ UNCHANGED log
  BY <1>1, ConsumerIs, DieStep DEF Die, RuntimeInv
<1>4. stage'[Consumer] = "idle"
  BY <1>1, ConsumerIs DEF Die, RuntimeInv, RuntimeTypeOK
<1>5. losses' \in 0 .. MaxLosses
  BY <1>1, Loss
<1>6. TypeOK'
  <2>1. toBroker' \in Seq([kind : {"SUBSCRIBE", "PUBACK"}, mid : 0 .. MaxPublished])
    BY <1>2
  <2>2. 0 \in 0 .. MaxPublished
    BY ConsumerIs
  <2> QED
    BY <1>1, <1>2, <1>3, <1>4, <1>5, <2>1, <2>2 DEF TypeOK, Apps
<1>7. OnlyWhileUp' /\ MidsIncrease' /\ AcksAreDue' /\ StuckIsReported'
  BY <1>1, <1>2 DEF OnlyWhileUp, MidsIncrease, AcksAreDue, StuckIsReported
<1>8. InHand'
  <2>1. published \in Nat
    BY Types
  <2> QED
    BY <1>1, <2>1 DEF InHand
<1>9. NothingLost'
  <2>1. \A n : Done(n) <=> Done(n)'
    BY <1>1, <1>3 DEF Done, Matching
  <2> QED
    BY <1>1, <2>1 DEF NothingLost, MessagesOf
<1> QED
  BY <1>3, <1>6, <1>7, <1>8, <1>9

(* A step that changes nothing.                                            *)
LEMMA ConsumerStutter == ASSUME ConsumerInv, UNCHANGED vars PROVE ConsumerInv'
<1> USE DEF ConsumerInv
<1>1. UNCHANGED <<runtimeVars, clientVars, brokerVars, linkVars, settled,
                  interrupted, losses>>
  BY DEF vars, consumerVars
<1>2. /\ RuntimeInv' /\ RuntimeTypeOK'
      /\ UNCHANGED <<log, message, stage, last>>
  BY <1>1, RuntimeIdle
<1>3. TypeOK'
  BY <1>1, <1>2 DEF TypeOK, clientVars, brokerVars, linkVars, MidsOf
<1>4. OnlyWhileUp'
  BY <1>1 DEF OnlyWhileUp, brokerVars, linkVars
<1> QED
  BY <1>1, <1>2, <1>3, <1>4, QuietStep DEF clientVars, brokerVars, linkVars

(* Every step of client, broker and runtime keeps the invariant.           *)
LEMMA ConsumerNextInv == ASSUME ConsumerInv, [Next]_vars PROVE ConsumerInv'
<1>1. CASE NetworkThread
  BY <1>1, ConnectStep, OnConnectStep, OnDisconnectStep, OnMessageStep, ClassifyStep,
     OnMessageAcksStep, OnMessageAckFailsStep, OnMessageRaisedStep DEF NetworkThread
<1>2. CASE Broker
  BY <1>2, BrokerSubscribeStep, BrokerPubackStep DEF Broker
<1>3. CASE Application
  BY <1>3, ApplicationStep DEF Application
<1>4. CASE Environment
  BY <1>4, PublishStep, BrokerForgetsStep, BrokerSubscribeStep, CloseSteps,
     ClassifyStep, ApplicationStep, CrashStep DEF Environment
<1>5. CASE UNCHANGED vars
  BY <1>5, ConsumerStutter
<1> QED
  BY <1>1, <1>2, <1>3, <1>4, <1>5 DEF Next

-----------------------------------------------------------------------------
(* Theorems.                                                               *)

(* The conjunction above holds in every state.                             *)
THEOREM ConsumerInvariance == Spec => []ConsumerInv
BY ConsumerInitInv, ConsumerNextInv, PTL DEF Spec

(* The runtime inside the callback keeps its invariant, with what the      *)
(* client library adds to its steps: reconnections, broken connections and *)
(* a process that dies at any point.                                       *)
THEOREM RuntimeKept == Spec => []RuntimeInv
<1>1. ConsumerInv => RuntimeInv
  BY DEF ConsumerInv
<1> QED
  BY <1>1, ConsumerInvariance, PTL

(* Types; a message is in the hands of the runtime only inside _on_message.*)
THEOREM ConsumerTypeCorrect == Spec => []TypeOK
<1>1. ConsumerInv => TypeOK
  BY DEF ConsumerInv
<1> QED
  BY <1>1, ConsumerInvariance, PTL

(* _on_message: no message is acknowledged before the ledger has its       *)
(* document or the runtime has rejected it, so none is lost.               *)
THEOREM NeverLost == Spec => []NothingLost
<1>1. ConsumerInv => NothingLost
  BY DEF ConsumerInv
<1> QED
  BY <1>1, ConsumerInvariance, PTL

(* _on_message: a message left unacknowledged on a live connection has an  *)
(* entry in callback_errors.                                               *)
THEOREM NeverSilent == Spec => []StuckIsReported
<1>1. ConsumerInv => StuckIsReported
  BY DEF ConsumerInv
<1> QED
  BY <1>1, ConsumerInvariance, PTL
=============================================================================
