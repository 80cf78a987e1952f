---------------------------- MODULE StoreProofs ----------------------------
(***************************************************************************)
(* The answers of the ledger, and the abstract store it implements, for    *)
(* any number of handles and threads, any batches and any number of calls. *)
(***************************************************************************)
EXTENDS LedgerProofs, FiniteSetTheorems

-----------------------------------------------------------------------------
(* What the operators of CanonicalEvents compute.                          *)

(* The positions of a batch whose events the log gains, and how many of    *)
(* them come no later than a given one.                                    *)
Gained(l, b) == {i \in DOMAIN b : IsFresh(l, b, i)}
Rank(G, i) == Cardinality({j \in G : j <= i})

(* Counting the members of a finite set of positions up to each of them    *)
(* numbers them 1, 2, ... without gaps.                                    *)
LEMMA RankNumbers ==
    ASSUME NEW n \in Nat, NEW G \in SUBSET (1 .. n)
    PROVE  /\ IsFiniteSet(G) /\ Cardinality(G) \in Nat
           /\ \A i \in G : Rank(G, i) \in 1 .. Cardinality(G)
           /\ \A k \in 1 .. Cardinality(G) : \E i \in G : Rank(G, i) = k
<1> DEFINE Upto(i) == {j \in G : j <= i}
           N == Cardinality(G)
<1>1. IsFiniteSet(G) /\ N \in Nat
  <2>1. IsFiniteSet(1 .. n)
    BY FS_Interval
  <2> QED
    BY <2>1, FS_Subset, FS_CardinalityType
<1>2. \A i \in G : /\ IsFiniteSet(Upto(i))
                   /\ Rank(G, i) = Cardinality(Upto(i))
                   /\ Rank(G, i) \in Nat /\ Rank(G, i) <= N
  <2> TAKE i \in G
  <2>1. Upto(i) \in SUBSET G
    OBVIOUS
  <2>2. IsFiniteSet(Upto(i)) /\ Cardinality(Upto(i)) <= N
    BY <1>1, <2>1, FS_Subset
  <2>3. Cardinality(Upto(i)) \in Nat
    BY <2>2, FS_CardinalityType
  <2> QED
    BY <2>2, <2>3 DEF Rank
<1>3. \A i \in G : Rank(G, i) # 0
  <2> TAKE i \in G
  <2>1. i \in Upto(i)
    OBVIOUS
  <2> HIDE DEF Upto
  <2> QED
    BY <1>2, <2>1, FS_EmptySet
<1>4. ASSUME NEW i \in G, NEW j \in G, i < j
      PROVE  Rank(G, i) # Rank(G, j)
  <2>0. \A k \in G : k \in Nat
    OBVIOUS
  <2>1. Upto(i) \in SUBSET Upto(j) /\ j \in Upto(j) /\ j \notin Upto(i)
    <3>1. j \in Upto(j) /\ j \notin Upto(i)
      BY <1>4, <2>0
    <3>2. ASSUME NEW k \in Upto(i) PROVE k \in Upto(j)
      BY <1>4, <2>0, <3>2
    <3> HIDE DEF Upto
    <3> QED
      BY <3>1, <3>2
  <2> HIDE DEF Upto
  <2>2. Cardinality(Upto(i)) # Cardinality(Upto(j))
    BY <1>2, <2>1, FS_Subset
  <2> QED
    BY <1>2, <2>2
<1>9. \A i \in G : Rank(G, i) \in 1 .. N
  <2> HIDE DEF N, Upto
  <2> QED
    BY <1>1, <1>2, <1>3
<1> DEFINE f == [i \in G |-> Rank(G, i)]
<1>5. f \in Injection(G, 1 .. N)
  <2>1. \A i \in G : Rank(G, i) \in 1 .. N
    BY <1>9
  <2>2. \A i, j \in G : Rank(G, i) = Rank(G, j) => i = j
    BY <1>4
  <2> QED
    BY <2>1, <2>2 DEF Injection, IsInjective
<1>6. f \in Surjection(G, 1 .. N)
  <2>1. IsFiniteSet(1 .. N) /\ Cardinality(1 .. N) = N
    BY <1>1, FS_Interval
  <2> HIDE DEF f
  <2> QED
    BY <1>5, <2>1, FS_Injection
<1>7. \A k \in 1 .. N : \E i \in G : Rank(G, i) = k
  BY <1>6 DEF Surjection
<1> HIDE DEF Upto, f
<1> QED
  BY <1>1, <1>7, <1>9

(* The positions gained are positions of the batch.                        *)
LEMMA GainedPositions ==
    ASSUME NEW l, NEW b \in Seq(Event)
    PROVE  Len(b) \in Nat /\ Gained(l, b) \in SUBSET (1 .. Len(b))
  BY DEF Gained

(* The events gained, one for each position, in batch order.               *)
LEMMA FreshEvents ==
    ASSUME NEW l, NEW b \in Seq(Event)
    PROVE  /\ Fresh(l, b) \in Seq(Event)
           /\ Len(Fresh(l, b)) = Cardinality(Gained(l, b))
           /\ \A n \in 1 .. Len(Fresh(l, b)) :
                \E i \in Gained(l, b) : Fresh(l, b)[n] = b[i]
<1> DEFINE G == Gained(l, b)
           N == Cardinality(G)
           pick(n) == CHOOSE i \in G : Rank(G, i) = n
<1>1. N \in Nat /\ \A k \in 1 .. N : \E i \in G : Rank(G, i) = k
  <2>1. Len(b) \in Nat /\ G \in SUBSET (1 .. Len(b))
    BY GainedPositions
  <2> HIDE DEF G
  <2> QED
    BY <2>1, RankNumbers
<1>2. Fresh(l, b) = [n \in 1 .. N |-> b[pick(n)]]
  BY DEF Fresh, Gained, Rank
<1>3. \A n \in 1 .. N : pick(n) \in G
  <2> TAKE n \in 1 .. N
  <2> QED
    BY <1>1
<1>4. \A i \in G : b[i] \in Event
  BY GainedPositions
<1> HIDE DEF G, N, pick
<1>5. Fresh(l, b) \in [1 .. N -> Event]
  BY <1>2, <1>3, <1>4
<1>6. Fresh(l, b) \in Seq(Event) /\ Len(Fresh(l, b)) = N
  BY <1>1, <1>5
<1>7. \A n \in 1 .. N : \E i \in G : Fresh(l, b)[n] = b[i]
  BY <1>2, <1>3
<1> QED
  BY <1>6, <1>7 DEF G, N

(* Offering one more event: the log gains it when neither the log nor the  *)
(* batch so far has it, and gains nothing otherwise.                       *)
LEMMA FreshAppend ==
    ASSUME NEW l, NEW b \in Seq(Event), NEW e \in Event
    PROVE  Fresh(l, Append(b, e)) =
               IF IsFresh(l, Append(b, e), Len(b) + 1)
               THEN Append(Fresh(l, b), e) ELSE Fresh(l, b)
<1> DEFINE c == Append(b, e)
           n == Len(b)
           G == Gained(l, b)
           H == Gained(l, c)
           N == Cardinality(G)
<1>1. /\ n \in Nat /\ c \in Seq(Event) /\ DOMAIN c = 1 .. n + 1
      /\ DOMAIN b = 1 .. n
      /\ \A i \in 1 .. n : c[i] = b[i]
      /\ c[n + 1] = e
  OBVIOUS
<1>2. \A i \in 1 .. n : IsFresh(l, c, i) <=> IsFresh(l, b, i)
  <2> HIDE DEF c
  <2> TAKE i \in 1 .. n
  <2>1. \A j \in 1 .. i - 1 : j \in 1 .. n
    BY <1>1
  <2> QED
    BY <1>1, <2>1 DEF IsFresh
<1>3. /\ G \in SUBSET (1 .. n)
      /\ H = IF IsFresh(l, c, n + 1) THEN G \cup {n + 1} ELSE G
  BY <1>1, <1>2 DEF Gained
<1>4. /\ IsFiniteSet(G) /\ N \in Nat
      /\ \A i \in G : Rank(G, i) \in 1 .. N
      /\ \A k \in 1 .. N : \E i \in G : Rank(G, i) = k
  BY <1>1, <1>3, RankNumbers
<1>5. /\ Fresh(l, b) = [k \in 1 .. N |-> b[CHOOSE i \in G : Rank(G, i) = k]]
      /\ Fresh(l, c) = [k \in 1 .. Cardinality(H) |->
                            c[CHOOSE i \in H : Rank(H, i) = k]]
  BY DEF Fresh, Gained, Rank
<1> HIDE DEF c, G, H, N
<1>6. \A k \in 1 .. N : (CHOOSE i \in G : Rank(G, i) = k) \in 1 .. n
  <2> TAKE k \in 1 .. N
  <2> QED
    BY <1>3, <1>4
<1>7. CASE ~IsFresh(l, c, n + 1)
  <2>1. H = G
    BY <1>3, <1>7
  <2>2. \A k \in 1 .. N : c[CHOOSE i \in G : Rank(G, i) = k]
                            = b[CHOOSE i \in G : Rank(G, i) = k]
    BY <1>1, <1>6
  <2> QED
    <3> DEFINE pick(k) == CHOOSE i \in G : Rank(G, i) = k
    <3>1. /\ Fresh(l, b) = [k \in 1 .. N |-> b[pick(k)]]
          /\ Fresh(l, c) = [k \in 1 .. N |-> c[pick(k)]]
      BY <1>5, <2>1 DEF N
    <3>2. \A k \in 1 .. N : c[pick(k)] = b[pick(k)]
      BY <2>2
    <3> HIDE DEF pick
    <3>3. Fresh(l, c) = Fresh(l, b)
      BY <3>1, <3>2
    <3> QED
      BY <1>7, <3>3 DEF c, n
<1>8. CASE IsFresh(l, c, n + 1)
  <2>1. H = G \cup {n + 1} /\ n + 1 \notin G
    BY <1>1, <1>3, <1>8
  <2>2. Cardinality(H) = N + 1
    BY <1>4, <2>1, FS_AddElement DEF N
  <2>3. \A i \in G : Rank(H, i) = Rank(G, i)
    <3> TAKE i \in G
    <3>1. i \in 1 .. n /\ ~(n + 1 <= i)
      BY <1>1, <1>3
    <3>2. {j \in H : j <= i} = {j \in G : j <= i}
      BY <2>1, <3>1
    <3> QED
      BY <3>2 DEF Rank
  <2>4. Rank(H, n + 1) = N + 1
    <3>1. \A j \in H : j <= n + 1
      BY <1>1, <1>3, <2>1
    <3>2. {j \in H : j <= n + 1} = H
      BY <3>1
    <3> QED
      BY <2>2, <3>2 DEF Rank
  <2>5. \A k \in 1 .. N : (CHOOSE i \in H : Rank(H, i) = k)
                            = (CHOOSE i \in G : Rank(G, i) = k)
    <3> TAKE k \in 1 .. N
    <3>1. k # N + 1
      BY <1>4
    <3>2. \A i : (i \in H /\ Rank(H, i) = k) <=> (i \in G /\ Rank(G, i) = k)
      BY <2>1, <2>3, <2>4, <3>1
    <3> QED
      BY <3>2
  <2>6. (CHOOSE i \in H : Rank(H, i) = N + 1) = n + 1
    <3>1. \A i \in G : Rank(H, i) # N + 1
      BY <1>4, <2>3
    <3> QED
      BY <2>1, <2>4, <3>1
  <2> DEFINE F == Fresh(l, b)
             E == Fresh(l, c)
  <2>7. /\ F \in Seq(Event) /\ Len(F) = N
        /\ \A k \in 1 .. N : F[k] = b[CHOOSE i \in G : Rank(G, i) = k]
    BY <1>5, FreshEvents DEF G, N
  <2>8. /\ E \in Seq(Event) /\ Len(E) = N + 1
        /\ \A k \in 1 .. N + 1 : E[k] = c[CHOOSE i \in H : Rank(H, i) = k]
    BY <1>1, <1>5, <2>2, FreshEvents DEF H
  <2>9. \A k \in 1 .. N : E[k] = F[k]
    <3> TAKE k \in 1 .. N
    <3>1. k \in 1 .. N + 1
      BY <1>4
    <3>2. E[k] = c[CHOOSE i \in G : Rank(G, i) = k]
      BY <2>5, <2>8, <3>1
    <3> QED
      BY <1>1, <1>6, <2>7, <3>2
  <2>10. E[N + 1] = e
    <3>1. E[N + 1] = c[CHOOSE i \in H : Rank(H, i) = N + 1]
      BY <1>4, <2>8
    <3> QED
      BY <1>1, <2>6, <3>1
  <2> HIDE DEF E, F
  <2>11. E = Append(F, e)
    <3> DEFINE A == Append(F, e)
    <3>1. /\ A \in Seq(Event) /\ Len(A) = N + 1
          /\ \A k \in 1 .. N : A[k] = F[k]
          /\ A[N + 1] = e
      BY <2>7
    <3> HIDE DEF A
    <3>2. \A k \in 1 .. N + 1 : E[k] = A[k]
      BY <1>4, <2>9, <2>10, <3>1
    <3>3. E = A
      BY <2>8, <3>1, <3>2, SeqEqual
    <3> QED
      BY <3>3 DEF A
  <2> QED
    BY <1>8, <2>11 DEF E, F, c
<1> QED
  BY <1>7, <1>8

(* An empty batch brings nothing.                                          *)
LEMMA FreshEmpty ==
    ASSUME NEW l
    PROVE  Fresh(l, <<>>) = <<>>
<1>1. <<>> \in Seq(Event)
  OBVIOUS
<1>2. Gained(l, <<>>) = {}
  BY DEF Gained
<1>3. Fresh(l, <<>>) \in Seq(Event) /\ Len(Fresh(l, <<>>)) = 0
  BY <1>1, <1>2, FreshEvents, FS_EmptySet
<1> QED
  BY <1>3
-----------------------------------------------------------------------------
(* The invariant.                                                          *)

(* What the loop has made of the first events of its batch is what the     *)
(* batch semantics prescribes for that part: the rows added, which of the  *)
(* events were new, and where each of them is.                             *)
LoopInv ==
    \A t \in Threads :
        pc[t] = "writing" =>
            /\ Len(results[t]) <= Len(request[t])
            /\ EventsOf(txn.rows) =
                   Log \o Fresh(Log, SubSeq(request[t], 1, Len(results[t])))
            /\ \A i \in 1 .. Len(results[t]) :
                /\ results[t][i].status = "accepted"
                       <=> IsFresh(Log, request[t], i)
                /\ results[t][i].ordinal \in 1 .. Len(txn.rows)
                /\ txn.rows[results[t][i].ordinal].event = request[t][i]

(* The answers of a batch that has been committed, whether or not the      *)
(* caller has got them yet.                                                *)
Settled(t) ==
    IF pc[t] = "committed" THEN results[t]
    ELSE IF reply[t].outcome = "ok" THEN reply[t].results ELSE <<>>

(* Answers exist only for committed batches, and are true of the ledger.   *)
AnswersInv ==
    \A t \in Threads :
        /\ pc[t] # "idle" => reply[t].outcome # "ok"
        /\ pc[t] \in {"idle", "blocked", "locked"} => results[t] = <<>>
        /\ pc[t] = "committed" \/ reply[t].outcome = "ok" =>
               Len(Settled(t)) = Len(request[t])
        /\ \A i \in 1 .. Len(Settled(t)) :
            LET n == Settled(t)[i].ordinal
            IN  n \in 1 .. Len(db.rows) /\ db.rows[n].event = request[t][i]

(* Two answers that claim to have added an event are about two events.     *)
AcceptedInv ==
    \A t, u \in Threads :
        \A i \in 1 .. Len(Settled(t)), j \in 1 .. Len(Settled(u)) :
            /\ Settled(t)[i].status = "accepted"
            /\ Settled(u)[j].status = "accepted"
            /\ request[t][i] = request[u][j]
            => t = u /\ i = j

StoreInv == Inv /\ LoopInv /\ AnswersInv /\ AcceptedInv

-----------------------------------------------------------------------------
(* What a step does to one thread.                                         *)

Kept(t) ==
    /\ pc'[t] = pc[t] /\ request'[t] = request[t]
    /\ results'[t] = results[t] /\ reply'[t] = reply[t]

(* The call ends, or the next one begins, without an answer.               *)
Unanswered(t) ==
    /\ pc'[t] \in {"idle", "blocked"}
    /\ results'[t] = <<>>
    /\ reply'[t].outcome # "ok"

NothingToDo(t) ==
    /\ pc'[t] = "idle" /\ request'[t] = <<>>
    /\ results'[t] = <<>> /\ reply'[t] = [outcome |-> "ok", results |-> <<>>]

(* It waits for a lock and gets it.                                        *)
Advanced(t) ==
    /\ pc[t] \in {"blocked", "locked"} /\ pc'[t] \in {"locked", "writing"}
    /\ pc'[t] = "writing" => Begin(t)
    /\ request'[t] = request[t]
    /\ results'[t] = results[t] /\ reply'[t] = reply[t]

(* A call that leaves changes nothing of the other threads.                *)
LEMMA LeaveFrame ==
    ASSUME TypeOK, NEW t \in Threads, NEW answer, Leave(t, answer)
    PROVE  /\ pc'[t] = "idle" /\ results'[t] = <<>> /\ reply'[t] = answer
           /\ \A u \in Threads \ {t} :
                /\ pc'[u] = pc[u] /\ results'[u] = results[u]
                /\ reply'[u] = reply[u]
  BY DEF Leave, TypeOK

(* A failure is not an answer.                                             *)
LEMMA FailedUnanswered ==
    ASSUME NEW o \in Outcomes \ {"ok"}
    PROVE  Failed(o).outcome # "ok"
  BY DEF Failed

(* The ways a step can change what a thread knows.                         *)
LEMMA ThreadStep ==
    ASSUME TypeOK, AnswersInv, [Next]_vars, NEW u \in Threads
    PROVE  \/ Kept(u) \/ Unanswered(u) \/ NothingToDo(u) \/ Advanced(u)
           \/ IngestDuplicate(u) \/ IngestInsert(u)
           \/ Commit(u) \/ Return(u)
<1> USE HandleAssumption
<1>0. /\ pc \in [Threads -> PCs] /\ request \in [Threads -> Seq(Event \union {Invalid})]
      /\ results \in [Threads -> Seq(Result)] /\ reply \in [Threads -> Reply]
  BY DEF TypeOK
<1>1. ASSUME NEW t \in Threads, NEW o \in Outcomes \ {"ok"},
             Leave(t, Failed(o)), u # t => request'[u] = request[u]
      PROVE  Kept(u) \/ Unanswered(u)
  BY <1>1, LeaveFrame, FailedUnanswered DEF Kept, Unanswered
<1>2. ASSUME NEW h \in Handles, Open(h) \/ Close(h)
      PROVE  Kept(u)
  BY <1>2 DEF Open, Close, Kept
<1>3. ASSUME NEW h \in Handles, Crash(h)
      PROVE  Kept(u) \/ Unanswered(u)
  <2>1. CASE HandleOf[u] = h /\ pc[u] # "idle"
    BY <1>3, <2>1 DEF Crash, Unanswered, Failed
  <2>2. CASE HandleOf[u] = h /\ pc[u] = "idle"
    BY <1>3, <2>2 DEF Crash, Kept, AnswersInv
  <2>3. CASE HandleOf[u] # h
    BY <1>3, <2>3 DEF Crash, Kept
  <2> QED
    BY <2>1, <2>2, <2>3
<1>4. ASSUME NEW t \in Threads, NEW b \in Batches, Call(t, b)
      PROVE  Kept(u) \/ Unanswered(u) \/ NothingToDo(u)
  <2>0. request' = [request EXCEPT ![t] = b]
    BY <1>4 DEF Call
  <2>1. CASE Leave(t, Failed("invalid"))
    BY <1>0, <1>1, <2>0, <2>1 DEF Outcomes
  <2>2. CASE b = <<>> /\ Leave(t, [outcome |-> "ok", results |-> <<>>])
    BY <1>0, <2>0, <2>2, LeaveFrame DEF Kept, NothingToDo
  <2>3. CASE /\ pc' = [pc EXCEPT ![t] = "blocked"]
             /\ reply' = [reply EXCEPT ![t] = NoReply]
             /\ UNCHANGED results
    <3>1. pc[t] = "idle" /\ results[t] = <<>>
      BY <1>4 DEF Call, AnswersInv
    <3> QED
      BY <1>0, <2>0, <2>3, <3>1 DEF Kept, Unanswered, NoReply
  <2> QED
    BY <1>4, <2>1, <2>2, <2>3 DEF Call
<1>5. ASSUME NEW t \in Threads, Acquire(t) \/ Begin(t)
      PROVE  Kept(u) \/ Advanced(u)
  BY <1>0, <1>5 DEF Acquire, Begin, Kept, Advanced
<1>6. ASSUME NEW t \in Threads, BeginFails(t)
      PROVE  Kept(u) \/ Unanswered(u)
  BY <1>1, <1>6 DEF BeginFails, Outcomes
<1>7. ASSUME NEW t \in Threads, IngestDuplicate(t) \/ IngestInsert(t), u # t
      PROVE  Kept(u)
  BY <1>0, <1>7 DEF IngestDuplicate, IngestInsert, Gather, Kept
<1>8. ASSUME NEW t \in Threads, IngestConflict(t) \/ Abort(t)
      PROVE  Kept(u) \/ Unanswered(u)
  BY <1>1, <1>8 DEF IngestConflict, Abort, Rollback, Outcomes
<1>9. ASSUME NEW t \in Threads, Commit(t), u # t
      PROVE  Kept(u)
  BY <1>0, <1>9 DEF Commit, Kept
<1>10. ASSUME NEW t \in Threads, Return(t), u # t
       PROVE  Kept(u)
  BY <1>10, LeaveFrame DEF Return, Kept
<1>11. ASSUME NEW t \in Threads, Interrupt(t) \/ InterruptBegin(t)
       PROVE  Kept(u) \/ Unanswered(u)
  BY <1>1, <1>11 DEF Interrupt, InterruptBegin, Outcomes
<1>12. ASSUME NEW t \in Threads, Read(t)
       PROVE  Kept(u)
  BY <1>12 DEF Read, Kept
<1>13. CASE UNCHANGED vars
  BY <1>13 DEF vars, Kept
<1> QED
  BY <1>2, <1>3, <1>4, <1>5, <1>6, <1>7, <1>8, <1>9, <1>10, <1>11, <1>12,
     <1>13 DEF Next, Environment, Step

(* Only the thread in the loop touches its transaction, and nothing is     *)
(* committed beside it.                                                    *)
LEMMA LoopUndisturbed ==
    ASSUME Inv, [Next]_vars, NEW t \in Threads,
           pc[t] = "writing", pc'[t] = "writing"
    PROVE  \/ UNCHANGED <<db, txn>>
           \/ IngestInsert(t)
<1> USE HandleAssumption
<1>0. writer = HandleOf[t] /\ writer # NoHandle
      /\ mutex[writer] = t
      /\ \A u \in Threads : pc[u] = "writing" => u = t
  BY DEF Inv, WriterExcludes
<1>1. ASSUME NEW h \in Handles, Open(h) \/ Close(h)
      PROVE  UNCHANGED <<db, txn>>
  BY <1>0, <1>1 DEF Open, Close
<1>2. ASSUME NEW h \in Handles, Crash(h)
      PROVE  UNCHANGED <<db, txn>>
  BY <1>0, <1>2 DEF Crash
<1>3. ASSUME NEW u \in Threads, Abort(u) \/ IngestConflict(u)
      PROVE  FALSE
  <2>1. u = t
    BY <1>0, <1>3 DEF Abort, IngestConflict, InLoop
  <2>2. PICK answer : Leave(t, answer)
    BY <1>3, <2>1 DEF Abort, IngestConflict, Rollback
  <2> QED
    BY <2>2, LeaveFrame DEF Inv
<1>4. ASSUME NEW u \in Threads, Commit(u)
      PROVE  FALSE
  BY <1>0, <1>4 DEF Commit, Inv, TypeOK
<1>5. ASSUME NEW u \in Threads, IngestInsert(u)
      PROVE  IngestInsert(t)
  BY <1>0, <1>5 DEF IngestInsert, InLoop
<1>6. ASSUME NEW u \in Threads, Begin(u) \/ InterruptBegin(u)
      PROVE  FALSE
  BY <1>0, <1>6 DEF Begin, InterruptBegin, CanBegin
<1>7. ASSUME NEW u \in Threads, NEW b \in Batches, Call(u, b)
      PROVE  UNCHANGED <<db, txn>>
  BY <1>7 DEF Call
<1>8. ASSUME NEW u \in Threads,
             \/ Acquire(u) \/ BeginFails(u) \/ IngestDuplicate(u) \/ Return(u)
             \/ Interrupt(u) \/ Read(u)
      PROVE  UNCHANGED <<db, txn>>
  BY <1>8 DEF Acquire, BeginFails, IngestDuplicate, Return, Interrupt, Read
<1> QED
  BY <1>1, <1>2, <1>3, <1>4, <1>5, <1>6, <1>7, <1>8 DEF Next, Environment, Step, vars

-----------------------------------------------------------------------------
(* Sequences of rows and the first events of a batch.                      *)

(* The events of the rows, in their order.                                 *)
LEMMA EventsOfRows ==
    ASSUME NEW rows \in Seq(Row)
    PROVE  /\ EventsOf(rows) \in Seq(Event)
           /\ Len(EventsOf(rows)) = Len(rows)
           /\ \A i \in 1 .. Len(rows) : EventsOf(rows)[i] = rows[i].event
<1>1. \A i \in 1 .. Len(rows) : rows[i].event \in Event
  <2> TAKE i \in 1 .. Len(rows)
  <2>1. rows[i] \in Row
    OBVIOUS
  <2> QED
    BY <2>1 DEF Row
<1>2. EventsOf(rows) \in [1 .. Len(rows) -> Event]
  BY <1>1 DEF EventsOf
<1> QED
  BY <1>2 DEF EventsOf

(* One more row is one more event.                                         *)
LEMMA EventsOfAppend ==
    ASSUME NEW rows \in Seq(Row), NEW r \in Row
    PROVE  EventsOf(Append(rows, r)) = Append(EventsOf(rows), r.event)
<1> DEFINE longer == Append(rows, r)
           n == Len(rows)
           events == Append(EventsOf(rows), r.event)
<1>1. /\ longer \in Seq(Row) /\ Len(longer) = n + 1 /\ n \in Nat
      /\ \A i \in 1 .. n : longer[i] = rows[i]
      /\ longer[n + 1] = r
  OBVIOUS
<1>2. /\ EventsOf(longer) \in Seq(Event) /\ Len(EventsOf(longer)) = n + 1
      /\ \A i \in 1 .. n + 1 : EventsOf(longer)[i] = longer[i].event
  <2> HIDE DEF longer
  <2> QED
    BY <1>1, EventsOfRows
<1>3. r.event \in Event
  BY DEF Row
<1>4. /\ events \in Seq(Event) /\ Len(events) = n + 1
      /\ \A i \in 1 .. n : events[i] = rows[i].event
      /\ events[n + 1] = r.event
  BY <1>3, EventsOfRows
<1> HIDE DEF longer, events
<1>5. \A i \in 1 .. n + 1 : EventsOf(longer)[i] = events[i]
  BY <1>1, <1>2, <1>4
<1>6. EventsOf(longer) = events
  BY <1>2, <1>4, <1>5, SeqEqual
<1> QED
  BY <1>6 DEF longer, events

(* The first n + 1 events are the first n and the next one.                *)
LEMMA NextPart ==
    ASSUME NEW b \in Seq(Event), NEW n \in Nat, n + 1 <= Len(b)
    PROVE  /\ SubSeq(b, 1, n) \in Seq(Event)
           /\ Len(SubSeq(b, 1, n)) = n
           /\ \A i \in 1 .. n : SubSeq(b, 1, n)[i] = b[i]
           /\ SubSeq(b, 1, n + 1) = Append(SubSeq(b, 1, n), b[n + 1])
<1> DEFINE part == SubSeq(b, 1, n)
           longer == SubSeq(b, 1, n + 1)
           appended == Append(part, b[n + 1])
<1>1. /\ part \in Seq(Event) /\ Len(part) = n
      /\ \A i \in 1 .. n : part[i] = b[i]
  OBVIOUS
<1>2. /\ longer \in Seq(Event) /\ Len(longer) = n + 1
      /\ \A i \in 1 .. n + 1 : longer[i] = b[i]
  OBVIOUS
<1>3. b[n + 1] \in Event
  OBVIOUS
<1> HIDE DEF part, longer
<1>4. /\ appended \in Seq(Event) /\ Len(appended) = n + 1
      /\ \A i \in 1 .. n : appended[i] = part[i]
      /\ appended[n + 1] = b[n + 1]
  BY <1>1, <1>3
<1> HIDE DEF appended
<1>5. \A i \in 1 .. n + 1 : longer[i] = appended[i]
  BY <1>1, <1>2, <1>4
<1>6. longer = appended
  BY <1>2, <1>4, <1>5, SeqEqual
<1> QED
  BY <1>1, <1>6 DEF part, longer, appended

(* Whether an event is fresh depends on the events before it only.         *)
LEMMA FreshInPart ==
    ASSUME NEW l, NEW b, NEW c, NEW n \in Nat, NEW i \in 1 .. n,
           \A j \in 1 .. n : b[j] = c[j]
    PROVE  IsFresh(l, b, i) <=> IsFresh(l, c, i)
<1>1. \A j \in 1 .. i - 1 : j \in 1 .. n
  OBVIOUS
<1> QED
  BY <1>1 DEF IsFresh

(* The batch semantics of the next event of a batch.                       *)
LEMMA FreshNext ==
    ASSUME NEW l, NEW b \in Seq(Event), NEW n \in Nat, n + 1 <= Len(b)
    PROVE  Fresh(l, SubSeq(b, 1, n + 1)) =
               IF IsFresh(l, b, n + 1)
               THEN Append(Fresh(l, SubSeq(b, 1, n)), b[n + 1])
               ELSE Fresh(l, SubSeq(b, 1, n))
<1> DEFINE part == SubSeq(b, 1, n)
           longer == Append(part, b[n + 1])
<1>1. /\ part \in Seq(Event) /\ Len(part) = n
      /\ \A i \in 1 .. n : part[i] = b[i]
      /\ SubSeq(b, 1, n + 1) = longer
      /\ b[n + 1] \in Event
  BY NextPart
<1>2. \A i \in 1 .. n + 1 : longer[i] = b[i]
  <2> HIDE DEF part
  <2> QED
    BY <1>1
<1>3. Fresh(l, longer) = IF IsFresh(l, longer, n + 1)
                         THEN Append(Fresh(l, part), b[n + 1])
                         ELSE Fresh(l, part)
  <2> HIDE DEF part
  <2> QED
    BY <1>1, FreshAppend
<1> HIDE DEF part, longer
<1>4. IsFresh(l, longer, n + 1) <=> IsFresh(l, b, n + 1)
  <2>1. n + 1 \in Nat /\ n + 1 \in 1 .. n + 1
    OBVIOUS
  <2> QED
    BY <1>2, <2>1, FreshInPart
<1> QED
  BY <1>1, <1>3, <1>4 DEF part

(* Every event of the log after a batch was in the log or in the batch.    *)
LEMMA AddedFrom ==
    ASSUME NEW l \in Seq(Event), NEW b \in Seq(Event),
           NEW k \in 1 .. Len(l \o Fresh(l, b))
    PROVE  \/ \E j \in 1 .. Len(l) : l[j] = (l \o Fresh(l, b))[k]
           \/ \E i \in 1 .. Len(b) : b[i] = (l \o Fresh(l, b))[k]
<1> DEFINE F == Fresh(l, b)
<1>1. /\ F \in Seq(Event)
      /\ \A m \in 1 .. Len(F) : \E i \in Gained(l, b) : F[m] = b[i]
  BY FreshEvents
<1>2. Gained(l, b) \subseteq 1 .. Len(b)
  BY GainedPositions
<1> HIDE DEF F
<1>3. k \in 1 .. Len(l) + Len(F)
  BY <1>1, ConcatProperties DEF F
<1>4. CASE k <= Len(l)
  BY <1>1, <1>3, <1>4, ConcatProperties DEF F
<1>5. CASE ~(k <= Len(l))
  <2>1. k - Len(l) \in 1 .. Len(F)
    BY <1>1, <1>3, <1>5
  <2>2. F[k - Len(l)] = (l \o F)[k]
    BY <1>1, <1>3, <1>5, ConcatProperties
  <2> QED
    BY <1>1, <1>2, <2>1, <2>2 DEF F
<1> QED
  BY <1>4, <1>5

-----------------------------------------------------------------------------
(* The loop does to the transaction what the batch semantics prescribes.   *)
LEMMA LoopStep ==
    ASSUME StoreInv, [Next]_vars
    PROVE  LoopInv'
<1> SUFFICES ASSUME NEW t \in Threads, pc'[t] = "writing"
             PROVE  (/\ Len(results[t]) <= Len(request[t])
                     /\ EventsOf(txn.rows) =
                          Log \o Fresh(Log, SubSeq(request[t], 1, Len(results[t])))
                     /\ \A i \in 1 .. Len(results[t]) :
                         /\ results[t][i].status = "accepted"
                                <=> IsFresh(Log, request[t], i)
                         /\ results[t][i].ordinal \in 1 .. Len(txn.rows)
                         /\ txn.rows[results[t][i].ordinal].event
                                = request[t][i])'
  BY DEF LoopInv
<1> DEFINE b == request[t]
           n == Len(results[t])
           e == b[n + 1]
           done == SubSeq(b, 1, n)
<1>0. Inv /\ TypeOK /\ LoopInv /\ AnswersInv
  BY DEF StoreInv, Inv
<1>1. /\ db.rows \in Seq(Row) /\ txn.rows \in Seq(Row)
      /\ Log \in Seq(Event) /\ Len(Log) = Len(db.rows)
      /\ \A i \in 1 .. Len(Log) : Log[i] = db.rows[i].event
      /\ results[t] \in Seq(Result) /\ n \in Nat
      /\ results \in [Threads -> Seq(Result)]
  BY <1>0, EventsOfRows DEF TypeOK, Database, Log
<1>2. CASE pc[t] # "writing"
  <2>1. ~Kept(t) /\ ~Unanswered(t) /\ ~NothingToDo(t)
    BY <1>2 DEF Kept, Unanswered, NothingToDo
  <2>2. ~IngestDuplicate(t) /\ ~IngestInsert(t)
    BY <1>2 DEF IngestDuplicate, IngestInsert, InLoop
  <2>3. ~Commit(t) /\ ~Return(t)
    BY <1>0, <1>2, LeaveFrame DEF Commit, Return, TypeOK
  <2>4. Begin(t) /\ results'[t] = results[t]
    BY <1>0, <2>1, <2>2, <2>3, ThreadStep DEF Advanced
  <2>5. results[t] = <<>> /\ n = 0 /\ txn' = db /\ db' = db /\ request' = request
    BY <1>0, <2>4 DEF Begin, AnswersInv
  <2>6. b \in Seq(Event)
    BY <1>0, <2>4 DEF Begin, TypeOK
  <2>7. SubSeq(b, 1, 0) = <<>>
    BY <2>6, SubSeqEmpty
  <2>8. Log \o Fresh(Log, <<>>) = Log
    BY <1>1, FreshEmpty, ConcatEmptySeq
  <2>9. Log' = Log /\ EventsOf(txn'.rows) = Log
    BY <2>5 DEF Log
  <2>10. results'[t] = <<>> /\ Len(results'[t]) = 0 /\ request'[t] = b
    BY <2>4, <2>5
  <2>11. Len(results'[t]) <= Len(request'[t])
    BY <2>6, <2>10
  <2>12. EventsOf(txn'.rows) =
            Log' \o Fresh(Log', SubSeq(request'[t], 1, Len(results'[t])))
    BY <2>7, <2>8, <2>9, <2>10, Zenon
  <2> HIDE DEF b, n
  <2> QED
    BY <2>10, <2>11, <2>12
<1>3. CASE pc[t] = "writing"
  <2>1. /\ n <= Len(b) /\ b \in Seq(Event)
        /\ EventsOf(txn.rows) = Log \o Fresh(Log, done)
        /\ \A i \in 1 .. n :
            /\ results[t][i].status = "accepted" <=> IsFresh(Log, b, i)
            /\ results[t][i].ordinal \in 1 .. Len(txn.rows)
            /\ txn.rows[results[t][i].ordinal].event = b[i]
    BY <1>0, <1>3 DEF LoopInv, TypeOK
  <2>2. ~Unanswered(t) /\ ~NothingToDo(t) /\ ~Advanced(t)
    BY <1>3 DEF Unanswered, NothingToDo, Advanced
  <2>3. ~Commit(t) /\ ~Return(t)
    BY <1>0, <1>3 DEF Commit, Return, TypeOK
  <2>4. ~IngestInsert(t) => UNCHANGED <<db, txn>>
    BY <1>0, <1>3, LoopUndisturbed
  <2>5. CASE Kept(t) /\ ~IngestInsert(t)
    BY <2>1, <2>4, <2>5 DEF Kept, Log
  <2>6. ASSUME IngestDuplicate(t) \/ IngestInsert(t)
        PROVE  /\ n \in Nat /\ n + 1 <= Len(b) /\ e \in Event /\ Current(t) = e
               /\ WellFormed(txn) /\ IsPrefix(db.rows, txn.rows)
               /\ request' = request /\ db' = db
    <3>1. InLoop(t) /\ request' = request /\ db' = db
      BY <2>6 DEF IngestDuplicate, IngestInsert
    <3>2. /\ Current(t) \in Event
          /\ WellFormed(txn) /\ IsPrefix(db.rows, txn.rows)
      BY <1>0, <3>1, LoopFacts DEF Inv
    <3>3. Current(t) = e /\ n + 1 <= Len(b)
      BY <1>1, <2>1, <3>1 DEF Current, InLoop
    <3> QED
      BY <1>1, <3>1, <3>2, <3>3
  <2>7. CASE IngestDuplicate(t)
    <3>1. PICK k \in 1 .. Len(txn.rows) :
            /\ txn.rows[k].event = e
            /\ results' = [results EXCEPT ![t] =
                Append(@, [status |-> "duplicate", ordinal |-> k])]
      <4>1. PICK r \in ToSet(txn.rows) :
                r.event = e /\ Gather(t, "duplicate", r.ordinal)
        BY <2>6, <2>7 DEF IngestDuplicate, OwnersOf, Gather
      <4>2. PICK k \in 1 .. Len(txn.rows) : r = txn.rows[k]
        BY <1>1, <4>1 DEF ToSet
      <4>3. r.ordinal = k
        BY <1>1, <2>6, <2>7, <4>2 DEF WellFormed
      <4> QED
        BY <4>1, <4>2, <4>3 DEF Gather
    <3>2. ~IsFresh(Log, b, n + 1)
      <4>1. /\ done \in Seq(Event) /\ Len(done) = n
            /\ \A i \in 1 .. n : done[i] = b[i]
        BY <2>1, <2>6, <2>7, NextPart
      <4> HIDE DEF done
      <4>2. /\ (Log \o Fresh(Log, done))[k] = e
            /\ k \in 1 .. Len(Log \o Fresh(Log, done))
        BY <1>1, <2>1, <3>1, EventsOfRows
      <4>3. \/ \E j \in 1 .. Len(Log) : Log[j] = e
            \/ \E i \in 1 .. Len(done) : done[i] = e
        <5> HIDE DEF n, e
        <5> QED
          BY <1>1, <4>1, <4>2, AddedFrom
      <4>4. (\E i \in 1 .. Len(done) : done[i] = e)
                => \E i \in 1 .. (n + 1) - 1 : b[i] = e
        BY <1>1, <4>1
      <4> QED
        BY <4>3, <4>4 DEF IsFresh, Contains
    <3>3. Fresh(Log, SubSeq(b, 1, n + 1)) = Fresh(Log, done)
      BY <2>1, <2>6, <2>7, <3>2, FreshNext
    <3> DEFINE answers == Append(results[t], [status |-> "duplicate", ordinal |-> k])
    <3>4. /\ results'[t] = answers /\ Len(answers) = n + 1
          /\ \A i \in 1 .. n : answers[i] = results[t][i]
          /\ answers[n + 1] = [status |-> "duplicate", ordinal |-> k]
      BY <1>1, <3>1
    <3> HIDE DEF answers
    <3>5. \A i \in 1 .. n + 1 :
            /\ answers[i].status = "accepted" <=> IsFresh(Log, b, i)
            /\ answers[i].ordinal \in 1 .. Len(txn.rows)
            /\ txn.rows[answers[i].ordinal].event = b[i]
      <4> TAKE i \in 1 .. n + 1
      <4>1. CASE i \in 1 .. n
        BY <2>1, <3>4, <4>1
      <4>2. CASE i = n + 1
        BY <3>1, <3>2, <3>4, <4>2
      <4> QED
        BY <1>1, <4>1, <4>2
    <3>6. UNCHANGED <<db, txn, request>>
      BY <2>7 DEF IngestDuplicate
    <3> QED
      BY <2>1, <2>6, <2>7, <3>3, <3>4, <3>5, <3>6 DEF Log
  <2>8. CASE IngestInsert(t)
    <3> DEFINE m == txn.seqno + 1
               r == [ordinal |-> m, event |-> e]
               rows == Append(txn.rows, r)
    <3>1. /\ m = Len(txn.rows) + 1 /\ m \in Nat /\ r \in Row
          /\ txn'.rows = rows
          /\ results' = [results EXCEPT ![t] =
                Append(@, [status |-> "accepted", ordinal |-> m])]
          /\ OwnersOf(e, txn.rows) = {}
      BY <1>1, <2>6, <2>8 DEF IngestInsert, Insert, Gather, WellFormed, Row
    <3>2. /\ rows \in Seq(Row) /\ Len(rows) = m
          /\ \A i \in 1 .. Len(txn.rows) : rows[i] = txn.rows[i]
          /\ rows[m].event = e
      BY <1>1, <3>1
    <3>3. \A i \in 1 .. Len(txn.rows) : txn.rows[i].event # e
      <4> TAKE i \in 1 .. Len(txn.rows)
      <4>1. txn.rows[i] \in ToSet(txn.rows)
        BY <1>1 DEF ToSet
      <4> QED
        BY <3>1, <4>1 DEF OwnersOf
    <3>4. IsFresh(Log, b, n + 1)
      <4>1. ~Contains(Log, e)
        <5>1. /\ Len(db.rows) <= Len(txn.rows)
              /\ \A i \in 1 .. Len(db.rows) : db.rows[i] = txn.rows[i]
          BY <1>1, <2>6, <2>8, PrefixByElement
        <5>2. \A i \in 1 .. Len(Log) : i \in 1 .. Len(txn.rows) /\ Log[i] = txn.rows[i].event
          BY <1>1, <5>1
        <5> QED
          BY <3>3, <5>2 DEF Contains
      <4>2. \A j \in 1 .. (n + 1) - 1 : b[j] # e
        <5> TAKE j \in 1 .. (n + 1) - 1
        <5>1. j \in 1 .. n
          BY <1>1
        <5> QED
          BY <2>1, <3>3, <5>1
      <4> QED
        BY <4>1, <4>2 DEF IsFresh
    <3>5. Fresh(Log, SubSeq(b, 1, n + 1)) = Append(Fresh(Log, done), e)
      BY <2>1, <2>6, <2>8, <3>4, FreshNext
    <3>6. EventsOf(rows) = Log \o Fresh(Log, SubSeq(b, 1, n + 1))
      <4>1. done \in Seq(Event)
        BY <2>1, <2>6, <2>8, NextPart
      <4> DEFINE F == Fresh(Log, done)
      <4>2. F \in Seq(Event) /\ e \in Event
        BY <2>6, <2>8, <4>1, FreshEvents
      <4>3. EventsOf(rows) = Append(EventsOf(txn.rows), e)
        BY <1>1, <3>1, EventsOfAppend
      <4>4. EventsOf(rows) = Append(Log \o F, e)
        BY <2>1, <4>3
      <4> HIDE DEF F
      <4>5. Append(Log \o F, e) = Log \o Append(F, e)
        <5>1. Log \in Seq(Event)
          BY <1>1
        <5>2. F \in Seq(Event) /\ e \in Event
          BY <4>2
        <5> HIDE DEF e
        <5> QED
          BY <5>1, <5>2, SMT
      <4> QED
        BY <3>5, <4>4, <4>5 DEF F
    <3> DEFINE answers == Append(results[t], [status |-> "accepted", ordinal |-> m])
    <3>7. /\ results'[t] = answers /\ Len(answers) = n + 1
          /\ \A i \in 1 .. n : answers[i] = results[t][i]
          /\ answers[n + 1] = [status |-> "accepted", ordinal |-> m]
      <4> HIDE DEF m
      <4> QED
        BY <1>1, <3>1
    <3> HIDE DEF answers, rows, m
    <3>8. \A i \in 1 .. n + 1 :
            /\ answers[i].status = "accepted" <=> IsFresh(Log, b, i)
            /\ answers[i].ordinal \in 1 .. Len(rows)
            /\ rows[answers[i].ordinal].event = b[i]
      <4> TAKE i \in 1 .. n + 1
      <4>1. CASE i \in 1 .. n
        <5>1. /\ answers[i] = results[t][i]
              /\ results[t][i].status = "accepted" <=> IsFresh(Log, b, i)
              /\ results[t][i].ordinal \in 1 .. Len(txn.rows)
              /\ txn.rows[results[t][i].ordinal].event = b[i]
          BY <2>1, <3>7, <4>1
        <5>2. results[t][i].ordinal \in 1 .. Len(rows)
          BY <1>1, <3>1, <3>2, <5>1
        <5>3. rows[results[t][i].ordinal] = txn.rows[results[t][i].ordinal]
          BY <1>1, <3>1, <3>2, <5>1
        <5>4. rows[results[t][i].ordinal].event = b[i]
          BY <5>1, <5>3
        <5> QED
          BY <5>1, <5>2, <5>4
      <4>2. CASE i = n + 1
        BY <1>1, <3>1, <3>2, <3>4, <3>7, <4>2
      <4> QED
        BY <1>1, <4>1, <4>2
    <3> QED
      BY <2>1, <2>6, <2>8, <3>1, <3>6, <3>7, <3>8 DEF Log
  <2> QED
    BY <1>0, <2>2, <2>3, <2>5, <2>7, <2>8, ThreadStep
<1> QED
  BY <1>2, <1>3

-----------------------------------------------------------------------------
(* The answers.                                                            *)

(* Every sequence of answers has a length.                                 *)
LEMMA SettledType ==
    ASSUME TypeOK, NEW t \in Threads
    PROVE  Settled(t) \in Seq(Result)
<1>1. results[t] \in Seq(Result) /\ reply[t] \in Reply /\ <<>> \in Seq(Result)
  BY DEF TypeOK
<1>2. reply[t].results \in Seq(Result)
  BY <1>1 DEF Reply
<1> QED
  BY <1>1, <1>2 DEF Settled

(* What a COMMIT settles: the batch with the answers of the loop, and the  *)
(* transaction becomes the ledger.                                         *)
LEMMA CommitFacts ==
    ASSUME StoreInv, NEW t \in Threads, Commit(t)
    PROVE  /\ pc[t] = "writing" /\ request[t] \in Seq(Event)
           /\ pc' = [pc EXCEPT ![t] = "committed"]
           /\ UNCHANGED <<request, results, reply>>
           /\ db' = txn /\ WellFormed(txn) /\ IsPrefix(db.rows, txn.rows)
           /\ results[t] \in Seq(Result) /\ Len(results[t]) = Len(request[t])
           /\ EventsOf(txn.rows) = Log \o Fresh(Log, request[t])
           /\ \A i \in 1 .. Len(request[t]) :
                /\ results[t][i].status = "accepted"
                       <=> IsFresh(Log, request[t], i)
                /\ results[t][i].ordinal \in 1 .. Len(txn.rows)
                /\ txn.rows[results[t][i].ordinal].event = request[t][i]
           /\ Settled(t)' = results[t]
<1>1. /\ pc[t] = "writing" /\ pc' = [pc EXCEPT ![t] = "committed"]
      /\ UNCHANGED <<request, results, reply>>
      /\ db' = txn /\ Len(results[t]) = Len(request[t])
  BY DEF Commit
<1>2. Inv /\ TypeOK /\ LoopInv
  BY DEF StoreInv, Inv
<1>3. writer # NoHandle
  BY <1>1, <1>2, HandleAssumption DEF Inv, WriterExcludes
<1>4. WellFormed(txn) /\ IsPrefix(db.rows, txn.rows)
  BY <1>2, <1>3 DEF Inv, TransactionInv
<1>5. request[t] \in Seq(Event) /\ results[t] \in Seq(Result)
  BY <1>1, <1>2 DEF TypeOK
<1>6. SubSeq(request[t], 1, Len(results[t])) = request[t]
  BY <1>1, <1>5, SubSeqFull
<1>7. pc'[t] = "committed"
  BY <1>1, <1>2 DEF TypeOK
<1> QED
  BY <1>1, <1>2, <1>4, <1>5, <1>6, <1>7 DEF LoopInv, Settled

(* An answer, once settled, stays as it is or is dropped with its call.    *)
LEMMA SettledStep ==
    ASSUME StoreInv, [Next]_vars, NEW t \in Threads
    PROVE  \/ Commit(t)
           \/ Settled(t)' = <<>>
           \/ Settled(t)' = Settled(t) /\ request'[t] = request[t]
<1>1. TypeOK /\ AnswersInv
  BY DEF StoreInv, Inv
<1>2. CASE Kept(t)
  BY <1>2 DEF Kept, Settled
<1>3. CASE Unanswered(t) \/ NothingToDo(t)
  BY <1>3 DEF Unanswered, NothingToDo, Settled
<1>4. CASE Advanced(t)
  BY <1>1, <1>4 DEF Advanced, AnswersInv, Settled
<1>5. CASE IngestDuplicate(t) \/ IngestInsert(t)
  BY <1>1, <1>5 DEF IngestDuplicate, IngestInsert, InLoop, AnswersInv, Settled
<1>6. CASE Return(t)
  <2>1. /\ pc'[t] = "idle" /\ pc[t] = "committed" /\ request' = request
        /\ reply'[t] = [outcome |-> "ok", results |-> results[t]]
    BY <1>1, <1>6, LeaveFrame DEF Return
  <2> QED
    BY <2>1 DEF Settled
<1> QED
  BY <1>1, <1>2, <1>3, <1>4, <1>5, <1>6, ThreadStep

(* Every step keeps the answers true.                                      *)
LEMMA AnswersStep ==
    ASSUME StoreInv, [Next]_vars
    PROVE  AnswersInv'
<1> SUFFICES ASSUME NEW t \in Threads
             PROVE  (/\ pc[t] # "idle" => reply[t].outcome # "ok"
                     /\ pc[t] \in {"idle", "blocked", "locked"}
                            => results[t] = <<>>
                     /\ pc[t] = "committed" \/ reply[t].outcome = "ok" =>
                            Len(Settled(t)) = Len(request[t])
                     /\ \A i \in 1 .. Len(Settled(t)) :
                          /\ Settled(t)[i].ordinal \in 1 .. Len(db.rows)
                          /\ db.rows[Settled(t)[i].ordinal].event = request[t][i])'
  BY DEF AnswersInv
<1>0. Inv /\ TypeOK /\ AnswersInv
  BY DEF StoreInv, Inv
<1>1. /\ Len(db.rows) \in Nat /\ Len(db'.rows) \in Nat
      /\ Len(db.rows) <= Len(db'.rows)
      /\ \A i \in 1 .. Len(db.rows) : db'.rows[i] = db.rows[i]
  <2>1. IsPrefix(db.rows, db'.rows)
    BY <1>0, TransactionStep
  <2>2. db.rows \in Seq(Row) /\ db'.rows \in Seq(Row)
    BY <1>0, NextInv DEF Inv, TypeOK, Database
  <2> QED
    BY <2>1, <2>2, PrefixByElement
<1>2. CASE Commit(t)
  <2>1. pc'[t] = "committed"
    BY <1>0, <1>2 DEF Commit, TypeOK
  <2>2. reply[t].outcome # "ok"
    BY <1>0, <1>2 DEF Commit, AnswersInv
  <2> QED
    BY <1>2, <2>1, <2>2, CommitFacts
<1>3. CASE ~Commit(t)
  <2>1. \A i \in 1 .. Len(Settled(t)') :
            /\ Settled(t)'[i].ordinal \in 1 .. Len(db'.rows)
            /\ db'.rows[Settled(t)'[i].ordinal].event = request'[t][i]
    <3>1. CASE Settled(t)' = <<>>
      BY <3>1
    <3>2. CASE Settled(t)' = Settled(t) /\ request'[t] = request[t]
      <4>1. \A i \in 1 .. Len(Settled(t)) :
              /\ Settled(t)[i].ordinal \in 1 .. Len(db.rows)
              /\ db.rows[Settled(t)[i].ordinal].event = request[t][i]
        BY <1>0 DEF AnswersInv
      <4> QED
        BY <1>1, <3>2, <4>1
    <3> QED
      BY <1>3, <3>1, <3>2, SettledStep
  <2>2. /\ pc'[t] # "idle" => reply'[t].outcome # "ok"
        /\ pc'[t] \in {"idle", "blocked", "locked"} => results'[t] = <<>>
        /\ pc'[t] = "committed" \/ reply'[t].outcome = "ok" =>
               Len(Settled(t)') = Len(request'[t])
    <3>1. CASE Kept(t)
      BY <1>0, <3>1 DEF Kept, AnswersInv, Settled
    <3>2. CASE Unanswered(t)
      BY <3>2 DEF Unanswered
    <3>3. CASE NothingToDo(t)
      BY <3>3 DEF NothingToDo, Settled
    <3>4. CASE Advanced(t)
      BY <1>0, <3>4 DEF Advanced, AnswersInv
    <3>5. CASE IngestDuplicate(t) \/ IngestInsert(t)
      BY <1>0, <3>5 DEF IngestDuplicate, IngestInsert, InLoop, AnswersInv
    <3>6. CASE Return(t)
      <4>1. /\ pc'[t] = "idle" /\ pc[t] = "committed" /\ request' = request
            /\ reply'[t] = [outcome |-> "ok", results |-> results[t]]
            /\ results'[t] = <<>>
        BY <1>0, <3>6, LeaveFrame DEF Return
      <4> QED
        BY <1>0, <4>1 DEF Settled, AnswersInv
    <3> QED
      BY <1>0, <1>3, <3>1, <3>2, <3>3, <3>4, <3>5, <3>6, ThreadStep
  <2> QED
    BY <2>1, <2>2
<1> QED
  BY <1>2, <1>3

(* Every step keeps the claims apart.                                      *)
LEMMA AcceptedStep ==
    ASSUME StoreInv, [Next]_vars
    PROVE  AcceptedInv'
<1> DEFINE Claims(t, i, e) == /\ i \in 1 .. Len(Settled(t))
                              /\ Settled(t)[i].status = "accepted"
                              /\ request[t][i] = e
<1> SUFFICES ASSUME NEW t \in Threads, NEW u \in Threads, NEW i, NEW j, NEW e,
                    Claims(t, i, e)', Claims(u, j, e)'
             PROVE  t = u /\ i = j
  BY DEF AcceptedInv
<1>0. Inv /\ TypeOK /\ AnswersInv /\ AcceptedInv
  BY DEF StoreInv, Inv
<1>1. /\ Log \in Seq(Event) /\ Len(Log) = Len(db.rows)
      /\ \A k \in 1 .. Len(Log) : Log[k] = db.rows[k].event
  BY <1>0, EventsOfRows DEF TypeOK, Database, Log
<1>2. ASSUME NEW v \in Threads, NEW k, Claims(v, k, e)', ~Commit(v)
      PROVE  Claims(v, k, e) /\ Contains(Log, e)
  <2>1. Claims(v, k, e)
    BY <1>2, SettledStep
  <2>2. /\ Settled(v)[k].ordinal \in 1 .. Len(Log)
        /\ Log[Settled(v)[k].ordinal] = e
    BY <1>0, <1>1, <2>1 DEF AnswersInv
  <2> QED
    BY <2>1, <2>2 DEF Contains
<1>3. ASSUME NEW v \in Threads, NEW k, Claims(v, k, e)', Commit(v)
      PROVE  /\ IsFresh(Log, request[v], k) /\ request[v][k] = e
             /\ k \in 1 .. Len(request[v]) /\ Len(request[v]) \in Nat
  BY <1>3, CommitFacts
<1>4. CASE ~Commit(t) /\ ~Commit(u)
  BY <1>0, <1>2, <1>4 DEF AcceptedInv
<1>5. CASE Commit(t) /\ ~Commit(u)
  BY <1>2, <1>3, <1>5 DEF IsFresh
<1>6. CASE ~Commit(t) /\ Commit(u)
  BY <1>2, <1>3, <1>6 DEF IsFresh
<1>7. CASE Commit(t) /\ Commit(u)
  <2>1. t = u
    BY <1>0, <1>7 DEF Commit, Inv, WriterExcludes
  <2>2. ~(i < j) /\ ~(j < i) /\ i \in Nat /\ j \in Nat
    BY <1>3, <1>7, <2>1 DEF IsFresh
  <2> QED
    BY <2>1, <2>2
<1> QED
  BY <1>4, <1>5, <1>6, <1>7

-----------------------------------------------------------------------------
(* It holds of a new ledger.                                               *)
LEMMA StoreInvInit == Init => StoreInv
<1> SUFFICES ASSUME Init PROVE StoreInv
  OBVIOUS
<1>1. \A t \in Threads : /\ pc[t] = "idle" /\ reply[t].outcome = "none"
                         /\ results[t] = <<>> /\ Settled(t) = <<>>
  BY DEF Init, NoReply, Settled
<1>2. LoopInv /\ AnswersInv /\ AcceptedInv
  BY <1>1 DEF LoopInv, AnswersInv, AcceptedInv
<1> QED
  BY <1>2, InitInv DEF StoreInv

(* The inductive invariant behind the answers (ledger.py:198-216).         *)
THEOREM StoreInvariance == Spec => []StoreInv
<1>1. StoreInv /\ [Next]_vars => StoreInv'
  BY LoopStep, AnswersStep, AcceptedStep, NextInv DEF StoreInv
<1> QED
  BY <1>1, StoreInvInit, PTL DEF Spec

(* A call that was answered finds each of its events in the ledger, at the *)
(* ordinal it was told, for ever after: no crash, rollback or interrupt of *)
(* any thread takes one back (ledger.py:198-216).                          *)
THEOREM Durability == Spec => []AnswersDurable
<1>1. StoreInv => AnswersDurable
  <2> SUFFICES ASSUME StoreInv, NEW t \in Threads, reply[t].outcome = "ok"
               PROVE  /\ Len(reply[t].results) = Len(request[t])
                      /\ \A i \in DOMAIN request[t] :
                            LET n == reply[t].results[i].ordinal
                            IN  /\ n \in DOMAIN db.rows
                                /\ db.rows[n].event = request[t][i]
    BY DEF AnswersDurable
  <2>1. TypeOK /\ AnswersInv
    BY DEF StoreInv, Inv
  <2>2. Settled(t) = reply[t].results /\ Len(Settled(t)) = Len(request[t])
    BY <2>1 DEF AnswersInv, Settled
  <2>3. DOMAIN request[t] = 1 .. Len(request[t]) /\ DOMAIN db.rows = 1 .. Len(db.rows)
    BY <2>1 DEF TypeOK, Database
  <2> QED
    BY <2>1, <2>2, <2>3 DEF AnswersInv
<1> QED
  BY <1>1, StoreInvariance, PTL

(* No two answers, of one call or of two, both claim to have added one     *)
(* event, however many callers race to add it (ledger.py:136-191).         *)
THEOREM AddedByOne == Spec => []AcceptedOnce
<1>1. StoreInv => AcceptedOnce
  <2> SUFFICES ASSUME StoreInv, NEW t \in Threads, NEW u \in Threads,
                      reply[t].outcome = "ok", reply[u].outcome = "ok",
                      NEW i \in DOMAIN reply[t].results,
                      NEW j \in DOMAIN reply[u].results,
                      reply[t].results[i].status = "accepted",
                      reply[u].results[j].status = "accepted",
                      request[t][i] = request[u][j]
               PROVE  t = u /\ i = j
    BY DEF AcceptedOnce
  <2>1. TypeOK /\ AnswersInv /\ AcceptedInv
    BY DEF StoreInv, Inv
  <2>2. Settled(t) = reply[t].results /\ Settled(u) = reply[u].results
    BY <2>1 DEF AnswersInv, Settled
  <2>3. i \in 1 .. Len(Settled(t)) /\ j \in 1 .. Len(Settled(u))
    BY <2>1, <2>2, SettledType
  <2> QED
    BY <2>1, <2>2, <2>3 DEF AcceptedInv
<1> QED
  BY <1>1, StoreInvariance, PTL

-----------------------------------------------------------------------------
(* The refinement of EventStore.                                           *)

(* The operators of the abstract store are those of the ledger.            *)
LEMMA SameBatchSemantics ==
    /\ \A l, b : Store!Compatible(l, b) <=> Compatible(l, b)
    /\ \A l, b : Store!Fresh(l, b) = Fresh(l, b)
    /\ \A l, b : Store!AnswerOf(l, b) = AnswerOf(l, b)
    /\ \A s, e : Store!Contains(s, e) <=> Contains(s, e)
<1>1. \A S : Store!Cardinality(S) = Cardinality(S)
  BY DEF Store!Cardinality, Cardinality
<1>2. \A s, e : Store!Contains(s, e) <=> Contains(s, e)
  BY DEF Store!Contains, Contains
<1>3. \A l, b, i : Store!IsFresh(l, b, i) <=> IsFresh(l, b, i)
  BY <1>2 DEF Store!IsFresh, IsFresh
<1>4. \A l, b : Store!Compatible(l, b) <=> Compatible(l, b)
  BY DEF Store!Compatible, Compatible, Store!Consistent, Consistent,
         Store!Position, Position, Store!ToSet, ToSet
<1>5. ASSUME NEW l, NEW b
      PROVE  Store!Fresh(l, b) = Fresh(l, b)
  <2> DEFINE G == Gained(l, b)
             H == {i \in DOMAIN b : Store!IsFresh(l, b, i)}
             p(n) == CHOOSE i \in H : Store!Cardinality({j \in H : j <= i}) = n
             q(n) == CHOOSE i \in G : Cardinality({j \in G : j <= i}) = n
  <2>1. H = G
    BY <1>3 DEF Gained
  <2>2. Store!Fresh(l, b) = [n \in 1 .. Store!Cardinality(H) |-> b[p(n)]]
    BY DEF Store!Fresh
  <2>3. Fresh(l, b) = [n \in 1 .. Cardinality(G) |-> b[q(n)]]
    BY DEF Fresh, Gained
  <2>4. \A n : p(n) = q(n)
    <3> TAKE n
    <3> HIDE DEF G, H
    <3>1. \A i : Store!Cardinality({j \in H : j <= i}) = n
                    <=> Cardinality({j \in G : j <= i}) = n
      BY <1>1, <2>1
    <3> QED
      BY <2>1, <3>1
  <2> HIDE DEF G, H, p, q
  <2> QED
    BY <1>1, <2>1, <2>2, <2>3, <2>4
<1>6. ASSUME NEW l, NEW b
      PROVE  Store!AnswerOf(l, b) = AnswerOf(l, b)
  BY <1>3, <1>5 DEF Store!AnswerOf, AnswerOf
<1> QED
  BY <1>2, <1>4, <1>5, <1>6

(* A step that changes the call of one thread only.                        *)
LEMMA MapsAt ==
    ASSUME NEW t \in Threads, \A u \in Threads \ {t} : Kept(u)
    PROVE  /\ Phases' = [Phases EXCEPT ![t] = Phases'[t]]
           /\ Replies' = [Replies EXCEPT ![t] = Replies'[t]]
  BY DEF Phases, Replies, Kept

(* What the mapping makes of one thread.                                   *)
LEMMA MapsTo ==
    ASSUME NEW t \in Threads
    PROVE  /\ Phases[t] = IF pc[t] = "idle" THEN "idle"
                          ELSE IF pc[t] = "committed" THEN "done" ELSE "pending"
           /\ Replies[t] = IF pc[t] = "committed"
                           THEN [outcome |-> "none", results |-> results[t]]
                           ELSE reply[t]
           /\ Phases'[t] = IF pc'[t] = "idle" THEN "idle"
                           ELSE IF pc'[t] = "committed" THEN "done" ELSE "pending"
           /\ Replies'[t] = IF pc'[t] = "committed"
                            THEN [outcome |-> "none", results |-> results'[t]]
                            ELSE reply'[t]
  BY DEF Phases, Replies

(* A thread that a step leaves alone.                                      *)
LEMMA MapsKept ==
    ASSUME NEW t \in Threads, Kept(t)
    PROVE  Phases'[t] = Phases[t] /\ Replies'[t] = Replies[t]
  BY DEF Phases, Replies, Kept

(* A step that the callers do not see.                                     *)
LEMMA MapsNowhere ==
    ASSUME UNCHANGED <<Log, request>>,
           \A t \in Threads : Phases'[t] = Phases[t] /\ Replies'[t] = Replies[t]
    PROVE  UNCHANGED Store!vars
<1>1. Phases' = Phases /\ Replies' = Replies
  BY DEF Phases, Replies
<1> QED
  BY <1>1 DEF Store!vars

(* A new ledger is an empty store.                                         *)
LEMMA StoreInit == Init => Store!Init
<1> SUFFICES ASSUME Init PROVE Store!Init
  OBVIOUS
<1>1. Log = <<>>
  BY DEF Init, EmptyDb, Log, EventsOf
<1>2. /\ Phases = [t \in Threads |-> "idle"]
      /\ Replies = [t \in Threads |-> NoReply]
  BY DEF Init, Phases, Replies
<1> QED
  BY <1>1, <1>2 DEF Init, Store!Init, Store!NoReply, NoReply

(* No two rows of a well formed table share an identity or a position.     *)
LEMMA DistinctRows ==
    ASSUME NEW d, d.rows \in Seq(Row), WellFormed(d),
           NEW j \in 1 .. Len(d.rows), NEW k \in 1 .. Len(d.rows),
           \/ d.rows[j].event.event_id = d.rows[k].event.event_id
           \/ Position(d.rows[j].event) = Position(d.rows[k].event)
    PROVE  j = k
<1>1. DOMAIN d.rows = 1 .. Len(d.rows)
  OBVIOUS
<1> QED
  BY <1>1 DEF WellFormed

(* A batch whose events are all in the table agrees with it.               *)
LEMMA CommitCompatible ==
    ASSUME StoreInv, NEW t \in Threads, Commit(t)
    PROVE  Compatible(Log, request[t])
<1> DEFINE b == request[t]
<1>1. /\ db.rows \in Seq(Row) /\ txn.rows \in Seq(Row) /\ b \in Seq(Event)
      /\ WellFormed(txn) /\ IsPrefix(db.rows, txn.rows)
      /\ \A i \in 1 .. Len(b) : \E k \in 1 .. Len(txn.rows) : txn.rows[k].event = b[i]
  <2>1. db.rows \in Seq(Row) /\ txn.rows \in Seq(Row)
    BY DEF StoreInv, Inv, TypeOK, Database
  <2>2. b \in Seq(Event) /\ WellFormed(txn) /\ IsPrefix(db.rows, txn.rows)
    BY CommitFacts
  <2>3. \A i \in 1 .. Len(b) :
            /\ results[t][i].ordinal \in 1 .. Len(txn.rows)
            /\ txn.rows[results[t][i].ordinal].event = b[i]
    BY CommitFacts
  <2> QED
    BY <2>1, <2>2, <2>3
<1>2. /\ Log \in Seq(Event) /\ Len(Log) = Len(db.rows)
      /\ \A i \in 1 .. Len(Log) : Log[i] = db.rows[i].event
  BY <1>1, EventsOfRows DEF Log
<1>3. \A i \in 1 .. Len(Log) : \E k \in 1 .. Len(txn.rows) : txn.rows[k].event = Log[i]
  <2>1. db.rows \in Seq(Row) /\ txn.rows \in Seq(Row) /\ IsPrefix(db.rows, txn.rows)
    BY <1>1
  <2>2. /\ Len(db.rows) <= Len(txn.rows)
        /\ \A i \in 1 .. Len(db.rows) : db.rows[i] = txn.rows[i]
    BY <2>1, PrefixByElement
  <2>3. Len(db.rows) \in Nat /\ Len(txn.rows) \in Nat
    BY <2>1
  <2> TAKE i \in 1 .. Len(Log)
  <2>4. i \in 1 .. Len(db.rows) /\ i \in 1 .. Len(txn.rows)
    BY <1>2, <2>2, <2>3
  <2>5. txn.rows[i].event = Log[i]
    BY <1>2, <2>2, <2>4
  <2> QED
    BY <2>4, <2>5
<1>4. ASSUME NEW e \in ToSet(Log) \union ToSet(b)
      PROVE  \E k \in 1 .. Len(txn.rows) : txn.rows[k].event = e
  <2>1. DOMAIN Log = 1 .. Len(Log) /\ DOMAIN b = 1 .. Len(b)
    BY <1>1, <1>2
  <2>2. CASE e \in ToSet(Log)
    BY <1>3, <2>1, <2>2 DEF ToSet
  <2>3. CASE e \in ToSet(b)
    BY <1>1, <2>1, <2>3 DEF ToSet
  <2> QED
    BY <2>2, <2>3
<1>5. ASSUME NEW e \in ToSet(Log) \union ToSet(b),
             NEW f \in ToSet(Log) \union ToSet(b),
             e.event_id = f.event_id \/ Position(e) = Position(f)
      PROVE  e = f
  <2>1. PICK j \in 1 .. Len(txn.rows) : txn.rows[j].event = e
    BY <1>4
  <2>2. PICK k \in 1 .. Len(txn.rows) : txn.rows[k].event = f
    BY <1>4
  <2> QED
    BY <1>1, <1>5, <2>1, <2>2, DistinctRows
<1> QED
  BY <1>5 DEF Compatible, Consistent

(* A conflict with the transaction is one with the log or in the batch.    *)
LEMMA ConflictIncompatible ==
    ASSUME StoreInv, NEW t \in Threads, IngestConflict(t)
    PROVE  ~Compatible(Log, request[t])
<1> DEFINE b == request[t]
           n == Len(results[t])
           e == Current(t)
           done == SubSeq(b, 1, n)
<1>0. Inv /\ TypeOK /\ LoopInv
  BY DEF StoreInv, Inv
<1>1. /\ InLoop(t) /\ Conflicting(e, txn.rows)
      /\ txn.rows \in Seq(Row) /\ Log \in Seq(Event)
  BY <1>0, EventsOfRows DEF IngestConflict, TypeOK, Database, Log
<1>2. /\ pc[t] = "writing" /\ b \in Seq(Event) /\ n \in Nat /\ n + 1 <= Len(b)
      /\ e = b[n + 1]
      /\ EventsOf(txn.rows) = Log \o Fresh(Log, done)
  BY <1>0, <1>1 DEF InLoop, TypeOK, LoopInv, Current
<1>3. /\ done \in Seq(Event) /\ Len(done) = n
      /\ \A i \in 1 .. n : done[i] = b[i]
  BY <1>2, NextPart
<1>4. PICK k \in 1 .. Len(txn.rows) :
        /\ \/ txn.rows[k].event.event_id = e.event_id
           \/ Position(txn.rows[k].event) = Position(e)
        /\ txn.rows[k].event # e
  <2>1. PICK r \in ToSet(txn.rows) :
            /\ r.event.event_id = e.event_id \/ Position(r.event) = Position(e)
            /\ r.event # e
    BY <1>1 DEF Conflicting, OwnersOf, HoldersOf
  <2> QED
    BY <1>1, <2>1 DEF ToSet
<1> DEFINE f == txn.rows[k].event
<1>5. \/ \E j \in 1 .. Len(Log) : Log[j] = f
      \/ \E i \in 1 .. n : done[i] = f
  <2>1. /\ (Log \o Fresh(Log, done))[k] = f
        /\ k \in 1 .. Len(Log \o Fresh(Log, done))
    BY <1>1, <1>2, <1>4, EventsOfRows
  <2> HIDE DEF f, done, n
  <2> QED
    BY <1>1, <1>3, <2>1, AddedFrom
<1>6. f \in ToSet(Log) \union ToSet(b) /\ e \in ToSet(Log) \union ToSet(b)
  <2>1. /\ ToSet(Log) = {Log[j] : j \in 1 .. Len(Log)}
        /\ ToSet(b) = {b[i] : i \in 1 .. Len(b)}
    <3> HIDE DEF b
    <3> QED
      BY <1>1, <1>2 DEF ToSet
  <2>2. 1 .. n \subseteq 1 .. Len(b) /\ n + 1 \in 1 .. Len(b)
    <3> HIDE DEF b, n
    <3>1. n \in Nat /\ n + 1 <= Len(b) /\ Len(b) \in Nat
      BY <1>2
    <3> QED
      BY <3>1
  <2>3. e \in ToSet(b)
    <3> HIDE DEF b, e, n
    <3> QED
      BY <1>2, <2>1, <2>2
  <2>4. f \in ToSet(Log) \union ToSet(b)
    <3> HIDE DEF b, f, done, n
    <3>1. CASE \E j \in 1 .. Len(Log) : Log[j] = f
      BY <2>1, <3>1
    <3>2. CASE \E i \in 1 .. n : done[i] = f
      <4>1. PICK i \in 1 .. n : done[i] = f
        BY <3>2
      <4>2. b[i] = f /\ i \in 1 .. Len(b)
        BY <1>3, <2>2, <4>1
      <4> QED
        BY <2>1, <4>2
    <3> QED
      BY <1>5, <3>1, <3>2
  <2> QED
    BY <2>3, <2>4
<1> QED
  BY <1>4, <1>6 DEF Compatible, Consistent

(* The answers of the loop are those of the batch semantics.               *)
LEMMA CommitAnswers ==
    ASSUME StoreInv, NEW t \in Threads, Commit(t)
    PROVE  results[t] = AnswerOf(Log, request[t])
<1> DEFINE b == request[t]
           after == Log \o Fresh(Log, b)
<1>1. /\ txn.rows \in Seq(Row) /\ b \in Seq(Event)
      /\ WellFormed(txn)
      /\ results[t] \in Seq(Result) /\ Len(results[t]) = Len(b)
      /\ EventsOf(txn.rows) = after
      /\ \A i \in 1 .. Len(b) :
            /\ results[t][i].status = "accepted" <=> IsFresh(Log, b, i)
            /\ results[t][i].ordinal \in 1 .. Len(txn.rows)
            /\ txn.rows[results[t][i].ordinal].event = b[i]
  <2>1. txn.rows \in Seq(Row)
    BY DEF StoreInv, Inv, TypeOK, Database
  <2> QED
    BY <2>1, CommitFacts
<1>2. /\ DOMAIN after = 1 .. Len(txn.rows)
      /\ \A k \in 1 .. Len(txn.rows) : after[k] = txn.rows[k].event
  <2> HIDE DEF after
  <2> QED
    BY <1>1, EventsOfRows
<1> HIDE DEF after
<1>3. \A i \in 1 .. Len(b) :
        (CHOOSE k \in DOMAIN after : after[k] = b[i]) = results[t][i].ordinal
  <2> TAKE i \in 1 .. Len(b)
  <2> DEFINE n == results[t][i].ordinal
  <2>1. n \in DOMAIN after /\ after[n] = b[i]
    BY <1>1, <1>2
  <2>2. ASSUME NEW k \in DOMAIN after, after[k] = b[i] PROVE k = n
    <3>1. /\ k \in 1 .. Len(txn.rows) /\ n \in 1 .. Len(txn.rows)
          /\ txn.rows[k].event = txn.rows[n].event
      BY <1>1, <1>2, <2>1, <2>2
    <3> HIDE DEF n
    <3> QED
      BY <1>1, <3>1, DistinctRows
  <2> HIDE DEF n
  <2> QED
    BY <2>1, <2>2 DEF n
<1>4. \A i \in 1 .. Len(b) :
        results[t][i] =
            [status  |-> IF IsFresh(Log, b, i) THEN "accepted" ELSE "duplicate",
             ordinal |-> CHOOSE k \in DOMAIN after : after[k] = b[i]]
  <2> TAKE i \in 1 .. Len(b)
  <2>1. results[t][i] \in Result
    BY <1>1
  <2> HIDE DEF b
  <2> QED
    BY <1>1, <1>3, <2>1 DEF Result
<1>5. DOMAIN b = 1 .. Len(b) /\ results[t] = [i \in 1 .. Len(b) |-> results[t][i]]
  BY <1>1
<1> HIDE DEF b
<1>6. AnswerOf(Log, b) = [i \in 1 .. Len(b) |-> results[t][i]]
  BY <1>4, <1>5 DEF AnswerOf, after
<1> QED
  BY <1>5, <1>6 DEF b

(* Each step of the ledger is a step of the store, or one that its callers *)
(* do not see.                                                             *)
LEMMA StoreStep ==
    ASSUME StoreInv, [Next]_vars
    PROVE  [Store!Next]_(Store!vars)
<1> USE HandleAssumption
<1>0. /\ Inv /\ TypeOK /\ AnswersInv
      /\ request \in [Threads -> Seq(Event \union {Invalid})]
      /\ pc \in [Threads -> PCs]
  BY DEF StoreInv, Inv, TypeOK
<1>1. ASSUME NEW t \in Threads, UNCHANGED <<db, request>>,
             \A u \in Threads \ {t} : Kept(u),
             pc'[t] = pc[t] /\ reply'[t] = reply[t] /\ pc[t] # "committed"
      PROVE  UNCHANGED Store!vars
  <2>1. Phases'[t] = Phases[t] /\ Replies'[t] = Replies[t]
    BY <1>1, MapsTo
  <2>2. \A u \in Threads : Phases'[u] = Phases[u] /\ Replies'[u] = Replies[u]
    BY <1>1, <2>1, MapsKept
  <2> QED
    BY <1>1, <2>2, MapsNowhere DEF Log
<1>2. ASSUME NEW t \in Threads, UNCHANGED <<db, request>>,
             \A u \in Threads \ {t} : Kept(u),
             pc[t] \in {"blocked", "locked"}, pc'[t] \in {"locked", "writing"},
             reply'[t] = reply[t]
      PROVE  UNCHANGED Store!vars
  <2>1. Phases'[t] = Phases[t] /\ Replies'[t] = Replies[t]
    BY <1>2, MapsTo
  <2>2. \A u \in Threads : Phases'[u] = Phases[u] /\ Replies'[u] = Replies[u]
    BY <1>2, <2>1, MapsKept
  <2> QED
    BY <1>2, <2>2, MapsNowhere DEF Log
<1>3. ASSUME NEW t \in Threads, NEW o \in {"busy", "closed", "error"},
             Leave(t, Failed(o)), UNCHANGED <<db, request>>,
             \/ pc[t] \in {"blocked", "locked", "writing"}
             \/ pc[t] = "committed" /\ o = "error"
      PROVE  Store!Fail(t, o)
  <2>1. \A u \in Threads \ {t} : Kept(u)
    BY <1>0, <1>3, LeaveFrame DEF Kept
  <2>2. pc'[t] = "idle" /\ reply'[t] = Failed(o)
    BY <1>0, <1>3, LeaveFrame
  <2>3. /\ Phases' = [Phases EXCEPT ![t] = "idle"]
        /\ Replies' = [Replies EXCEPT ![t] = Failed(o)]
    BY <2>1, <2>2, MapsAt, MapsTo
  <2>4. \/ Phases[t] = "pending"
        \/ Phases[t] = "done" /\ o = "error"
    BY <1>3, MapsTo
  <2> QED
    BY <1>3, <2>3, <2>4 DEF Store!Fail, Store!Failed, Failed, Log
<1>4. ASSUME NEW h \in Handles, Open(h) \/ Close(h)
      PROVE  UNCHANGED Store!vars
  BY <1>4 DEF Open, Close, Store!vars, Log, Phases, Replies
<1>5. ASSUME NEW h \in Handles, Crash(h)
      PROVE  Store!Lose({t \in Threads : HandleOf[t] = h})
  <2> DEFINE dead == {t \in Threads : HandleOf[t] = h}
  <2>1. /\ pc' = [t \in Threads |-> IF t \in dead THEN "idle" ELSE pc[t]]
        /\ results' = [t \in Threads |-> IF t \in dead THEN <<>> ELSE results[t]]
        /\ reply' = [t \in Threads |-> IF t \in dead /\ pc[t] # "idle"
                                       THEN Failed("lost") ELSE reply[t]]
        /\ UNCHANGED <<db, request>>
    BY <1>5 DEF Crash
  <2> HIDE DEF dead
  <2>2. Phases' = [t \in Threads |-> IF t \in dead THEN "idle" ELSE Phases[t]]
    BY <2>1 DEF Phases
  <2>3. Replies' = [t \in Threads |-> IF t \in dead /\ Phases[t] # "idle"
                                      THEN Failed("lost") ELSE Replies[t]]
    BY <2>1 DEF Phases, Replies
  <2> QED
    BY <2>1, <2>2, <2>3 DEF Store!Lose, Store!Failed, Failed, Log, dead
<1>6. ASSUME NEW t \in Threads, NEW b \in Batches, Call(t, b)
      PROVE  Store!Submit(t, b) \/ Store!Malformed(t, b) \/ Store!Nothing(t)
  <2>1. /\ pc[t] = "idle" /\ Phases[t] = "idle" /\ Log' = Log
        /\ request' = [request EXCEPT ![t] = b]
    BY <1>6, MapsTo DEF Call, Log
  <2>2. ASSUME NEW answer, Leave(t, answer)
        PROVE  Phases' = Phases /\ Replies' = [Replies EXCEPT ![t] = answer]
    <3>1. \A u \in Threads \ {t} : Kept(u)
      BY <1>0, <2>1, <2>2, LeaveFrame DEF Kept
    <3>2. pc'[t] = "idle" /\ reply'[t] = answer
      BY <1>0, <2>2, LeaveFrame
    <3>3. Phases'[t] = Phases[t] /\ Replies'[t] = answer
      BY <2>1, <3>2, MapsTo
    <3>4. /\ Phases' = [Phases EXCEPT ![t] = Phases[t]]
          /\ Replies' = [Replies EXCEPT ![t] = answer]
      BY <3>1, <3>3, MapsAt
    <3>5. Phases = [Phases EXCEPT ![t] = Phases[t]]
      BY DEF Phases
    <3> QED
      BY <3>4, <3>5
  <2>3. CASE Malformed(b) /\ Leave(t, Failed("invalid"))
    BY <2>1, <2>2, <2>3, SameBatchSemantics
       DEF Store!Malformed, Store!Failed, Failed, Malformed
  <2>4. CASE b = <<>> /\ Leave(t, [outcome |-> "ok", results |-> <<>>])
    BY <2>1, <2>2, <2>4 DEF Store!Nothing
  <2>5. CASE /\ b # <<>> /\ ~Malformed(b)
             /\ pc' = [pc EXCEPT ![t] = "blocked"]
             /\ reply' = [reply EXCEPT ![t] = NoReply]
             /\ UNCHANGED <<mutex, results>>
    <3>1. \A u \in Threads \ {t} : Kept(u)
      BY <1>0, <2>1, <2>5 DEF Kept, TypeOK
    <3>2. pc'[t] = "blocked" /\ reply'[t] = NoReply
      BY <1>0, <2>5 DEF TypeOK
    <3>3. /\ Phases' = [Phases EXCEPT ![t] = "pending"]
          /\ Replies' = [Replies EXCEPT ![t] = NoReply]
      BY <3>1, <3>2, MapsAt, MapsTo
    <3> QED
      BY <2>1, <2>5, <3>3, SameBatchSemantics
         DEF Store!Submit, Store!NoReply, NoReply, Malformed
  <2> QED
    BY <1>6, <2>3, <2>4, <2>5 DEF Call
<1>7. ASSUME NEW t \in Threads, Acquire(t) \/ Begin(t)
      PROVE  UNCHANGED Store!vars
  <2>1. \A u \in Threads \ {t} : Kept(u)
    BY <1>0, <1>7 DEF Acquire, Begin, Kept
  <2>2. /\ pc[t] \in {"blocked", "locked"} /\ pc'[t] \in {"locked", "writing"}
        /\ UNCHANGED <<db, request, reply>>
    BY <1>0, <1>7 DEF Acquire, Begin
  <2> QED
    BY <1>2, <2>1, <2>2
<1>8. ASSUME NEW t \in Threads, BeginFails(t)
      PROVE  \E o \in {"busy", "closed", "error"} : Store!Fail(t, o)
  <2>1. PICK o \in {"busy", "closed", "error"} : Leave(t, Failed(o))
    BY <1>8 DEF BeginFails
  <2> QED
    BY <1>3, <1>8, <2>1 DEF BeginFails
<1>9. ASSUME NEW t \in Threads, IngestDuplicate(t) \/ IngestInsert(t)
      PROVE  UNCHANGED Store!vars
  <2>1. \A u \in Threads \ {t} : Kept(u)
    BY <1>0, <1>9 DEF IngestDuplicate, IngestInsert, Gather, Kept, TypeOK
  <2>2. pc[t] = "writing" /\ UNCHANGED <<db, request, pc, reply>>
    BY <1>9 DEF IngestDuplicate, IngestInsert, InLoop
  <2> QED
    BY <1>1, <2>1, <2>2
<1>10. ASSUME NEW t \in Threads, IngestConflict(t)
       PROVE  Store!Conflict(t)
  <2>1. Leave(t, Failed("conflict")) /\ pc[t] = "writing" /\ UNCHANGED <<db, request>>
    BY <1>10 DEF IngestConflict, InLoop, Rollback
  <2>2. \A u \in Threads \ {t} : Kept(u)
    BY <1>0, <2>1, LeaveFrame DEF Kept
  <2>3. pc'[t] = "idle" /\ reply'[t] = Failed("conflict")
    BY <1>0, <2>1, LeaveFrame
  <2>4. /\ Phases[t] = "pending"
        /\ Phases' = [Phases EXCEPT ![t] = "idle"]
        /\ Replies' = [Replies EXCEPT ![t] = Failed("conflict")]
    BY <2>1, <2>2, <2>3, MapsAt, MapsTo
  <2>5. ~Store!Compatible(Log, request[t])
    BY <1>10, ConflictIncompatible, SameBatchSemantics
  <2> QED
    BY <2>1, <2>4, <2>5 DEF Store!Conflict, Store!Failed, Failed, Log
<1>11. ASSUME NEW t \in Threads, Abort(t) \/ Interrupt(t) \/ InterruptBegin(t)
       PROVE  Store!Fail(t, "error")
  <2>1. /\ Leave(t, Failed("error")) /\ UNCHANGED <<db, request>>
        /\ pc[t] \in {"blocked", "locked", "writing", "committed"}
    BY <1>11 DEF Abort, Rollback, Interrupt, InterruptBegin
  <2> QED
    BY <1>3, <2>1
<1>12. ASSUME NEW t \in Threads, Commit(t)
       PROVE  Store!Apply(t)
  <2>1. /\ pc[t] = "writing" /\ pc'[t] = "committed"
        /\ UNCHANGED <<request, results, reply>>
        /\ Log' = Log \o Fresh(Log, request[t])
    BY <1>0, <1>12, CommitFacts DEF Log
  <2>2. \A u \in Threads \ {t} : Kept(u)
    BY <1>0, <1>12 DEF Commit, Kept
  <2>3. /\ Phases[t] = "pending"
        /\ Phases' = [Phases EXCEPT ![t] = "done"]
        /\ Replies' = [Replies EXCEPT ![t] =
                            [outcome |-> "none", results |-> results[t]]]
    BY <2>1, <2>2, MapsAt, MapsTo
  <2>4. /\ Store!Compatible(Log, request[t])
        /\ Log' = Log \o Store!Fresh(Log, request[t])
        /\ results[t] = Store!AnswerOf(Log, request[t])
    BY <1>12, <2>1, CommitCompatible, CommitAnswers, SameBatchSemantics
  <2> QED
    BY <2>1, <2>3, <2>4 DEF Store!Apply
<1>13. ASSUME NEW t \in Threads, Return(t)
       PROVE  Store!Deliver(t)
  <2>1. /\ Leave(t, [outcome |-> "ok", results |-> results[t]])
        /\ pc[t] = "committed" /\ UNCHANGED <<db, request>>
    BY <1>13 DEF Return
  <2>2. \A u \in Threads \ {t} : Kept(u)
    BY <1>0, <2>1, LeaveFrame DEF Kept
  <2>3. pc'[t] = "idle" /\ reply'[t] = [outcome |-> "ok", results |-> results[t]]
    BY <1>0, <2>1, LeaveFrame
  <2>4. /\ Phases[t] = "done"
        /\ Phases' = [Phases EXCEPT ![t] = "idle"]
        /\ Replies[t] = [outcome |-> "none", results |-> results[t]]
        /\ Replies' = [Replies EXCEPT ![t] =
                            [outcome |-> "ok", results |-> results[t]]]
    BY <2>1, <2>2, <2>3, MapsAt, MapsTo
  <2>5. [Replies[t] EXCEPT !.outcome = "ok"]
            = [outcome |-> "ok", results |-> results[t]]
    BY <2>4
  <2>6. Replies' = [Replies EXCEPT ![t].outcome = "ok"]
    BY <2>4, <2>5
  <2> QED
    BY <2>1, <2>4, <2>6 DEF Store!Deliver, Log
<1>14. ASSUME NEW t \in Threads, Read(t)
       PROVE  UNCHANGED Store!vars
  BY <1>14 DEF Read, Store!vars, Log, Phases, Replies
<1>15. CASE UNCHANGED vars
  BY <1>15 DEF vars, Store!vars, Log, Phases, Replies
<1>16. {t \in Threads : HandleOf[t] = HandleOf[t]} \in SUBSET Threads
  OBVIOUS
<1> QED
  BY <1>4, <1>5, <1>6, <1>7, <1>8, <1>9, <1>10, <1>11, <1>12, <1>13, <1>14,
     <1>15 DEF Next, Environment, Step, Store!Next

(* Whatever the number of processes and threads, a ledger is the abstract  *)
(* store: each batch takes effect at one moment, its COMMIT, as a whole or *)
(* not at all, with the answers that the batch and the log determine, and  *)
(* a conflict is reported only of a batch that conflicts (ledger.py:198).  *)
THEOREM Refinement == Spec => ImplementsStore
<1>1. StoreInv /\ [Next]_vars => [Store!Next]_(Store!vars)
  BY StoreStep
<1> QED
  BY <1>1, StoreInit, StoreInvariance, PTL DEF Spec, ImplementsStore, Store!Spec
=============================================================================
