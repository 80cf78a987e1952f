---------------------------- MODULE LedgerProofs ----------------------------
(***************************************************************************)
(* What holds of Ledger for any number of handles and threads, any batches *)
(* and any number of calls.                                                *)
(***************************************************************************)
EXTENDS Ledger, SequenceTheorems, TLAPS

(* The events table of a new database.                                     *)
LEMMA EmptyWellFormed == WellFormed(EmptyDb) /\ EmptyDb \in Database
  BY DEF WellFormed, EmptyDb, Database

(* An INSERT that passed both lookups keeps the table well formed.         *)
LEMMA InsertWellFormed ==
    ASSUME NEW d \in Database, WellFormed(d), NEW e \in Event,
           OwnersOf(e, d.rows) = {}, ~Conflicting(e, d.rows)
    PROVE  Insert(e, d) \in Database /\ WellFormed(Insert(e, d))
<1> DEFINE new == [ordinal |-> d.seqno + 1, event |-> e]
           n == Len(d.rows)
<1>1. d.rows \in Seq(Row) /\ d.seqno \in Nat /\ d.seqno = n
  BY DEF Database, WellFormed
<1>2. new \in Row
  BY <1>1 DEF Row
<1>3. Insert(e, d) \in Database
  BY <1>1, <1>2 DEF Insert, Database
<1>4. \A i \in 1 .. n : /\ d.rows[i].event.event_id # e.event_id
                        /\ Position(d.rows[i].event) # Position(e)
  <2> TAKE i \in 1 .. n
  <2>1. d.rows[i] \in ToSet(d.rows)
    BY <1>1 DEF ToSet
  <2> QED
    BY <2>1 DEF OwnersOf, HoldersOf, Conflicting
<1> DEFINE rows == Append(d.rows, new)
<1>5. /\ rows \in Seq(Row) /\ Len(rows) = n + 1
      /\ \A i \in 1 .. n : rows[i] = d.rows[i]
      /\ rows[n + 1] = new
  BY <1>1, <1>2
<1>6. \A i \in 1 .. n + 1 : rows[i].ordinal = i
  BY <1>1, <1>5 DEF WellFormed
<1>7. ASSUME NEW i \in 1 .. n + 1, NEW j \in 1 .. n + 1,
             \/ rows[i].event.event_id = rows[j].event.event_id
             \/ Position(rows[i].event) = Position(rows[j].event)
      PROVE  i = j
  <2>1. CASE i \in 1 .. n /\ j \in 1 .. n
    BY <1>1, <1>5, <1>7, <2>1 DEF WellFormed
  <2>2. CASE i = n + 1 /\ j \in 1 .. n
    BY <1>4, <1>5, <1>7, <2>2
  <2>3. CASE i \in 1 .. n /\ j = n + 1
    BY <1>4, <1>5, <1>7, <2>3
  <2> QED
    BY <1>1, <2>1, <2>2, <2>3
<1>8. WellFormed(Insert(e, d))
  <2>1. Insert(e, d).rows = rows /\ Insert(e, d).seqno = n + 1
    BY <1>1 DEF Insert
  <2>2. DOMAIN rows = 1 .. n + 1
    BY <1>5
  <2> HIDE DEF rows
  <2> QED
    BY <1>5, <1>6, <1>7, <2>1, <2>2 DEF WellFormed
<1> QED
  BY <1>3, <1>8

-----------------------------------------------------------------------------
(* Prefixes of sequences of rows, element by element.                      *)
LEMMA PrefixByElement ==
    ASSUME NEW s \in Seq(Row), NEW u \in Seq(Row)
    PROVE  IsPrefix(s, u) <=>
               Len(s) <= Len(u) /\ \A i \in 1 .. Len(s) : s[i] = u[i]
<1>1. CASE Len(s) <= Len(u)
  <2>1. /\ SubSeq(s, 1, Len(s)) \in Seq(Row)
        /\ SubSeq(u, 1, Len(s)) \in Seq(Row)
        /\ Len(SubSeq(s, 1, Len(s))) = Len(s)
        /\ Len(SubSeq(u, 1, Len(s))) = Len(s)
        /\ \A i \in 1 .. Len(s) : /\ SubSeq(s, 1, Len(s))[i] = s[i]
                                  /\ SubSeq(u, 1, Len(s))[i] = u[i]
    BY <1>1
  <2>2. SubSeq(s, 1, Len(s)) = SubSeq(u, 1, Len(s))
            <=> \A i \in 1 .. Len(s) : s[i] = u[i]
    BY <2>1, SeqEqual
  <2> QED
    BY <1>1, <2>2 DEF IsPrefix
<1>2. CASE ~(Len(s) <= Len(u))
  BY <1>2 DEF IsPrefix
<1> QED
  BY <1>1, <1>2

(* Every sequence is a prefix of itself.                                   *)
LEMMA PrefixReflexive ==
    ASSUME NEW s \in Seq(Row) PROVE IsPrefix(s, s)
  BY PrefixByElement

(* A prefix of a prefix is a prefix.                                       *)
LEMMA PrefixTransitive ==
    ASSUME NEW s \in Seq(Row), NEW u \in Seq(Row), NEW v \in Seq(Row),
           IsPrefix(s, u), IsPrefix(u, v)
    PROVE  IsPrefix(s, v)
  BY PrefixByElement

(* A sequence is a prefix of itself with one row appended.                 *)
LEMMA PrefixAppend ==
    ASSUME NEW s \in Seq(Row), NEW u \in Seq(Row), NEW r \in Row,
           IsPrefix(s, u)
    PROVE  IsPrefix(s, Append(u, r))
<1>1. /\ Append(u, r) \in Seq(Row)
      /\ Len(Append(u, r)) = Len(u) + 1
      /\ \A i \in 1 .. Len(u) : Append(u, r)[i] = u[i]
  OBVIOUS
<1>2. Len(s) <= Len(u) /\ \A i \in 1 .. Len(s) : s[i] = u[i]
  BY PrefixByElement
<1> DEFINE v == Append(u, r)
<1>3. v \in Seq(Row) /\ Len(s) <= Len(v) /\ \A i \in 1 .. Len(s) : s[i] = v[i]
  BY <1>1, <1>2
<1> HIDE DEF v
<1>4. IsPrefix(s, v)
  BY <1>3, PrefixByElement
<1> QED
  BY <1>4 DEF v

-----------------------------------------------------------------------------
(* What the transaction of the writer is, between BEGIN and its end: the   *)
(* committed table and the rows added since; and nothing has been added    *)
(* when no thread is in the loop, because an interrupt left it open.       *)
TransactionInv ==
    /\ WellFormed(db)
    /\ writer # NoHandle =>
            WellFormed(txn) /\ IsPrefix(db.rows, txn.rows)
    /\ \A h \in Handles :
            writer = h =>
                \/ txn = db
                \/ \E t \in Threads : HandleOf[t] = h /\ pc[t] = "writing"

Inv == TypeOK /\ WriterExcludes /\ TransactionInv

-----------------------------------------------------------------------------
(* Every step keeps the types.                                             *)
LEMMA LeaveTyping ==
    ASSUME TypeOK, NEW t \in Threads, NEW answer \in Reply, Leave(t, answer)
    PROVE  /\ mutex' \in [Handles -> Threads \union {NoThread}]
           /\ pc' \in [Threads -> PCs]
           /\ results' \in [Threads -> Seq(Result)]
           /\ reply' \in [Threads -> Reply]
           /\ \A u \in Threads : pc'[u] # "idle" => pc[u] # "idle"
<1>1. mutex' \in [Handles -> Threads \union {NoThread}]
  BY HandleAssumption DEF TypeOK, Leave
<1>2. pc' \in [Threads -> PCs] /\ pc' = [pc EXCEPT ![t] = "idle"]
  BY DEF TypeOK, Leave, PCs
<1>3. results' \in [Threads -> Seq(Result)]
  BY DEF TypeOK, Leave
<1>4. reply' \in [Threads -> Reply]
  BY DEF TypeOK, Leave
<1>5. \A u \in Threads : pc'[u] # "idle" => pc[u] # "idle"
  BY <1>2 DEF TypeOK
<1> QED
  BY <1>1, <1>2, <1>3, <1>4, <1>5

(* Answering a call with an error keeps the types.                         *)
LEMMA FailedTyping ==
    ASSUME NEW o \in Outcomes
    PROVE  Failed(o) \in Reply
  BY DEF Failed, Reply

(* An event that reaches the loop has been validated, and the loop belongs *)
(* to the handle that holds the write lock.                                *)
LEMMA LoopFacts ==
    ASSUME TypeOK, WriterExcludes, TransactionInv, NEW t \in Threads, InLoop(t)
    PROVE  /\ Current(t) \in Event
           /\ writer = HandleOf[t] /\ writer # NoHandle
           /\ WellFormed(txn) /\ IsPrefix(db.rows, txn.rows)
<1>1. request[t] \in Seq(Event) /\ pc[t] = "writing"
  BY DEF TypeOK, InLoop
<1>2. results[t] \in Seq(Result) /\ Len(results[t]) < Len(request[t])
  BY DEF TypeOK, InLoop
<1>3. Len(results[t]) + 1 \in 1 .. Len(request[t])
  BY <1>1, <1>2
<1>4. Current(t) \in Event
  BY <1>1, <1>3 DEF Current
<1>5. writer = HandleOf[t] /\ writer # NoHandle
  BY <1>1, HandleAssumption DEF WriterExcludes
<1> QED
  BY <1>4, <1>5 DEF TransactionInv

(* Each action keeps the types.                                            *)
LEMMA TypeStep ==
    ASSUME TypeOK, WriterExcludes, TransactionInv, [Next]_vars
    PROVE  TypeOK'
<1> USE HandleAssumption, BatchAssumption
<1>1. ASSUME NEW h \in Handles, Open(h)
      PROVE  TypeOK'
  BY <1>1 DEF TypeOK, Open
<1>2. ASSUME NEW h \in Handles, Close(h)
      PROVE  TypeOK'
  BY <1>2, EmptyWellFormed DEF TypeOK, Close
<1>3. ASSUME NEW h \in Handles, Crash(h)
      PROVE  TypeOK'
  <2>1. Failed("lost") \in Reply
    BY FailedTyping DEF Outcomes
  <2> QED
    BY <1>3, <2>1, EmptyWellFormed DEF TypeOK, Crash, PCs
<1>4. ASSUME NEW t \in Threads, NEW b \in Batches, Call(t, b)
      PROVE  TypeOK'
  <2>1. /\ request' \in [Threads -> Seq(Event \union {Invalid})]
        /\ calls' \in [Threads -> 0 .. MaxCalls]
        /\ pc[t] = "idle"
    BY <1>4 DEF TypeOK, Call
  <2>2. CASE Malformed(b) /\ Leave(t, Failed("invalid"))
    <3>1. Failed("invalid") \in Reply
      BY FailedTyping DEF Outcomes
    <3> QED
      BY <1>4, <2>1, <2>2, <3>1, LeaveTyping DEF TypeOK, Call, Leave
  <2>3. CASE Leave(t, [outcome |-> "ok", results |-> <<>>])
    <3>1. [outcome |-> "ok", results |-> <<>>] \in Reply
      BY DEF Reply, Outcomes
    <3> QED
      BY <1>4, <2>1, <2>3, <3>1, LeaveTyping DEF TypeOK, Call, Leave
  <2>4. CASE /\ ~Malformed(b)
             /\ pc' = [pc EXCEPT ![t] = "blocked"]
             /\ reply' = [reply EXCEPT ![t] = NoReply]
             /\ UNCHANGED <<mutex, results>>
    <3>1. b \in Seq(Event)
      BY <2>4 DEF Malformed, Contains
    <3>2. NoReply \in Reply
      BY DEF NoReply, Reply, Outcomes
    <3> QED
      BY <1>4, <2>1, <2>4, <3>1, <3>2 DEF TypeOK, Call, PCs
  <2> QED
    BY <1>4, <2>2, <2>3, <2>4 DEF Call
<1>5. ASSUME NEW t \in Threads, Acquire(t)
      PROVE  TypeOK'
  BY <1>5 DEF TypeOK, Acquire, PCs
<1>6. ASSUME NEW t \in Threads, Begin(t)
      PROVE  TypeOK'
  BY <1>6 DEF TypeOK, Begin, PCs
<1>7. ASSUME NEW t \in Threads, BeginFails(t)
      PROVE  TypeOK'
  <2>1. PICK o \in {"closed", "error", "busy"} : Leave(t, Failed(o))
    BY <1>7 DEF BeginFails
  <2>2. Failed(o) \in Reply
    BY FailedTyping DEF Outcomes
  <2> QED
    BY <1>7, <2>1, <2>2, LeaveTyping DEF TypeOK, BeginFails
<1>8. ASSUME NEW t \in Threads, NEW status \in {"accepted", "duplicate"},
             NEW n \in Nat, Gather(t, status, n)
      PROVE  results' \in [Threads -> Seq(Result)]
  <2>1. [status |-> status, ordinal |-> n] \in Result
    BY DEF Result
  <2> QED
    BY <1>8, <2>1 DEF TypeOK, Gather
<1>9. ASSUME NEW t \in Threads, IngestDuplicate(t)
      PROVE  TypeOK'
  <2>1. PICK r \in OwnersOf(Current(t), txn.rows) :
            Gather(t, "duplicate", r.ordinal)
    BY <1>9 DEF IngestDuplicate, Gather
  <2>2. r.ordinal \in Nat
    <3>1. txn.rows \in Seq(Row)
      BY DEF TypeOK, Database
    <3>2. PICK i \in DOMAIN txn.rows : r = txn.rows[i]
      BY DEF OwnersOf, ToSet
    <3>3. r \in Row
      BY <3>1, <3>2
    <3> QED
      BY <3>3 DEF Row
  <2> QED
    BY <1>8, <1>9, <2>1, <2>2 DEF TypeOK, IngestDuplicate
<1>10. ASSUME NEW t \in Threads, IngestInsert(t)
       PROVE  TypeOK'
  <2>1. txn.seqno + 1 \in Nat /\ txn' \in Database
    <3>1. Current(t) \in Event /\ WellFormed(txn)
      BY <1>10, LoopFacts DEF IngestInsert
    <3>2. /\ txn \in Database
          /\ OwnersOf(Current(t), txn.rows) = {}
          /\ ~Conflicting(Current(t), txn.rows)
          /\ txn' = Insert(Current(t), txn)
      BY <1>10 DEF IngestInsert, TypeOK
    <3>3. txn' \in Database
      BY <3>1, <3>2, InsertWellFormed
    <3> QED
      BY <3>2, <3>3 DEF Database
  <2> QED
    BY <1>8, <1>10, <2>1 DEF TypeOK, IngestInsert
<1>11. ASSUME NEW t \in Threads, NEW o \in {"conflict", "error"},
              Rollback(t, Failed(o))
       PROVE  TypeOK'
  <2>1. Failed(o) \in Reply
    BY FailedTyping DEF Outcomes
  <2> QED
    BY <1>11, <2>1, LeaveTyping, EmptyWellFormed DEF TypeOK, Rollback
<1>12. ASSUME NEW t \in Threads, IngestConflict(t) \/ Abort(t)
       PROVE  TypeOK'
  BY <1>11, <1>12 DEF IngestConflict, Abort
<1>13. ASSUME NEW t \in Threads, Commit(t)
       PROVE  TypeOK'
  BY <1>13, EmptyWellFormed DEF TypeOK, Commit, PCs
<1>14. ASSUME NEW t \in Threads, Return(t)
       PROVE  TypeOK'
  <2>1. [outcome |-> "ok", results |-> results[t]] \in Reply
    BY DEF TypeOK, Reply, Outcomes
  <2> QED
    BY <1>14, <2>1, LeaveTyping DEF TypeOK, Return
<1>15. ASSUME NEW t \in Threads, Interrupt(t) \/ InterruptBegin(t)
       PROVE  TypeOK'
  <2>1. Failed("error") \in Reply
    BY FailedTyping DEF Outcomes
  <2>2. CASE Interrupt(t)
    BY <2>1, <2>2, LeaveTyping DEF TypeOK, Interrupt
  <2>3. CASE InterruptBegin(t)
    BY <2>1, <2>3, LeaveTyping DEF TypeOK, InterruptBegin
  <2> QED
    BY <1>15, <2>2, <2>3
<1>16. ASSUME NEW t \in Threads, Read(t)
       PROVE  TypeOK'
  BY <1>16 DEF TypeOK, Read, View, Database
<1>17. CASE UNCHANGED vars
  BY <1>17 DEF TypeOK, vars
<1> QED
  BY <1>1, <1>2, <1>3, <1>4, <1>5, <1>6, <1>7, <1>9, <1>10, <1>12, <1>13,
     <1>14, <1>15, <1>16, <1>17 DEF Next, Environment, Step

-----------------------------------------------------------------------------
(* Who holds which lock.                                                   *)
LEMMA LeaveExcludes ==
    ASSUME TypeOK, WriterExcludes, NEW t \in Threads, NEW answer,
           Leave(t, answer)
    PROVE  \A u \in Threads :
               /\ mutex'[HandleOf[u]] = u
                     <=> pc'[u] \in {"locked", "writing", "committed"}
               /\ pc'[u] = "writing" => pc[u] = "writing" /\ u # t
<1> TAKE u \in Threads
<1>1. pc'[t] = "idle" /\ \A v \in Threads \ {t} : pc'[v] = pc[v]
  BY DEF TypeOK, Leave
<1>2. HandleOf[t] \in Handles /\ HandleOf[u] \in Handles /\ t # NoThread /\ u # NoThread
  BY HandleAssumption
<1>3. CASE mutex[HandleOf[t]] = t
  <2>1. mutex' = [mutex EXCEPT ![HandleOf[t]] = NoThread]
    BY <1>3 DEF Leave
  <2>2. CASE u = t
    BY <1>1, <1>2, <2>1, <2>2 DEF TypeOK
  <2>3. CASE u # t
    BY <1>1, <1>2, <1>3, <2>1, <2>3 DEF TypeOK, WriterExcludes
  <2> QED
    BY <2>2, <2>3
<1>4. CASE mutex[HandleOf[t]] # t
  <2>1. mutex' = mutex
    BY <1>4 DEF Leave
  <2> QED
    BY <1>1, <1>2, <1>4, <2>1 DEF TypeOK, WriterExcludes
<1> QED
  BY <1>3, <1>4

(* Each action keeps the locks with those who acquired them.               *)
LEMMA ExclusionStep ==
    ASSUME Inv, [Next]_vars
    PROVE  WriterExcludes'
<1> USE HandleAssumption
<1> USE DEF Inv
<1>1. ASSUME NEW h \in Handles, Open(h)
      PROVE  WriterExcludes'
  BY <1>1 DEF TypeOK, WriterExcludes, Open
<1>2. ASSUME NEW h \in Handles, Close(h)
      PROVE  WriterExcludes'
  BY <1>2 DEF TypeOK, WriterExcludes, Close
<1>3. ASSUME NEW h \in Handles, Crash(h)
      PROVE  WriterExcludes'
  BY <1>3 DEF TypeOK, WriterExcludes, Crash
<1>4. ASSUME NEW t \in Threads, NEW answer, Leave(t, answer), writer' = writer
      PROVE  WriterExcludes'
  BY <1>4, LeaveExcludes DEF WriterExcludes
<1>5. ASSUME NEW t \in Threads, NEW b \in Batches, Call(t, b)
      PROVE  WriterExcludes'
  <2>1. CASE \E answer : Leave(t, answer)
    BY <1>4, <1>5, <2>1 DEF Call
  <2>2. CASE pc' = [pc EXCEPT ![t] = "blocked"] /\ UNCHANGED mutex
    BY <1>5, <2>2 DEF TypeOK, WriterExcludes, Call
  <2> QED
    BY <1>5, <2>1, <2>2 DEF Call
<1>6. ASSUME NEW t \in Threads, Acquire(t)
      PROVE  WriterExcludes'
  BY <1>6 DEF TypeOK, WriterExcludes, Acquire
<1>7. ASSUME NEW t \in Threads, Begin(t)
      PROVE  WriterExcludes'
  BY <1>7 DEF TypeOK, WriterExcludes, Begin, CanBegin
<1>8. ASSUME NEW t \in Threads, BeginFails(t)
      PROVE  WriterExcludes'
  BY <1>4, <1>8 DEF BeginFails
<1>9. ASSUME NEW t \in Threads, IngestDuplicate(t) \/ IngestInsert(t)
      PROVE  WriterExcludes'
  BY <1>9 DEF WriterExcludes, IngestDuplicate, IngestInsert
<1>10. ASSUME NEW t \in Threads, NEW answer, pc[t] = "writing", Rollback(t, answer)
       PROVE  WriterExcludes'
  <2>1. \A u \in Threads : pc[u] = "writing" => u = t
    BY <1>10 DEF WriterExcludes
  <2> QED
    BY <1>10, <2>1, LeaveExcludes DEF WriterExcludes, Rollback
<1>11. ASSUME NEW t \in Threads, IngestConflict(t) \/ Abort(t)
       PROVE  WriterExcludes'
  BY <1>10, <1>11 DEF IngestConflict, InLoop, Abort
<1>12. ASSUME NEW t \in Threads, Commit(t)
       PROVE  WriterExcludes'
  BY <1>12 DEF TypeOK, WriterExcludes, Commit
<1>13. ASSUME NEW t \in Threads, Return(t)
       PROVE  WriterExcludes'
  BY <1>4, <1>13 DEF Return
<1>14. ASSUME NEW t \in Threads, Interrupt(t)
       PROVE  WriterExcludes'
  BY <1>4, <1>14 DEF Interrupt
<1>15. ASSUME NEW t \in Threads, InterruptBegin(t)
       PROVE  WriterExcludes'
  <2>1. \A u \in Threads : pc[u] # "writing"
    BY <1>15 DEF InterruptBegin, CanBegin, WriterExcludes
  <2>2. Leave(t, Failed("error")) /\ pc[t] # "idle"
    BY <1>15 DEF InterruptBegin
  <2> QED
    BY <2>1, <2>2, LeaveExcludes DEF WriterExcludes
<1>16. ASSUME NEW t \in Threads, Read(t)
       PROVE  WriterExcludes'
  BY <1>16 DEF WriterExcludes, Read
<1>17. CASE UNCHANGED vars
  BY <1>17 DEF WriterExcludes, vars
<1> QED
  BY <1>1, <1>2, <1>3, <1>5, <1>6, <1>7, <1>8, <1>9, <1>11, <1>12, <1>13,
     <1>14, <1>15, <1>16, <1>17 DEF Next, Environment, Step

-----------------------------------------------------------------------------
(* What the transaction holds.                                             *)
LEMMA TransactionKept ==
    ASSUME Inv, UNCHANGED <<writer, db, txn>>,
           \A t \in Threads : pc[t] = "writing" => pc'[t] = "writing"
    PROVE  TransactionInv'
  BY DEF Inv, TransactionInv, WellFormed

(* A transaction that ends leaves nothing behind.                          *)
LEMMA TransactionEnded ==
    ASSUME Inv, UNCHANGED db, writer' = NoHandle
    PROVE  TransactionInv'
  BY HandleAssumption DEF Inv, TransactionInv, WellFormed

(* A transaction starts from the committed rows.                           *)
LEMMA TransactionStarted ==
    ASSUME Inv, UNCHANGED db, txn' = db
    PROVE  TransactionInv'
<1>1. IsPrefix(db.rows, db.rows)
  BY PrefixReflexive DEF Inv, TypeOK, Database
<1> QED
  BY <1>1 DEF Inv, TransactionInv, WellFormed

(* Each action extends the open transaction or ends it.                    *)
LEMMA TransactionStep ==
    ASSUME Inv, [Next]_vars
    PROVE  TransactionInv' /\ IsPrefix(db.rows, db'.rows)
<1> USE HandleAssumption
<1>0. IsPrefix(db.rows, db.rows)
  BY PrefixReflexive DEF Inv, TypeOK, Database
<1>1. ASSUME NEW h \in Handles, Open(h)
      PROVE  TransactionInv' /\ UNCHANGED db
  BY <1>1, TransactionKept DEF Open
<1>2. ASSUME NEW h \in Handles, Close(h) \/ Crash(h)
      PROVE  TransactionInv' /\ UNCHANGED db
  <2>1. CASE writer = h
    BY <1>2, <2>1, TransactionEnded DEF Close, Crash
  <2>2. CASE writer # h
    <3>1. \A t \in Threads : pc[t] = "writing" => HandleOf[t] # h
      BY <2>2 DEF Inv, WriterExcludes
    <3>2. \A t \in Threads : pc[t] = "writing" => pc'[t] = "writing"
      BY <1>2, <3>1 DEF Close, Crash
    <3>3. UNCHANGED <<writer, db, txn>>
      BY <1>2, <2>2 DEF Close, Crash
    <3> QED
      BY <3>2, <3>3, TransactionKept
  <2> QED
    BY <2>1, <2>2
<1>3. ASSUME NEW t \in Threads, NEW answer, Leave(t, answer), pc[t] # "writing",
             UNCHANGED <<writer, db, txn>>
      PROVE  TransactionInv'
  BY <1>3, TransactionKept DEF Leave, Inv, TypeOK
<1>4. ASSUME NEW t \in Threads, NEW b \in Batches, Call(t, b)
      PROVE  TransactionInv' /\ UNCHANGED db
  <2>1. CASE \E answer : Leave(t, answer)
    BY <1>3, <1>4, <2>1 DEF Call
  <2>2. CASE pc' = [pc EXCEPT ![t] = "blocked"]
    BY <1>4, <2>2, TransactionKept DEF Call, Inv, TypeOK
  <2> QED
    BY <1>4, <2>1, <2>2 DEF Call
<1>5. ASSUME NEW t \in Threads, Acquire(t)
      PROVE  TransactionInv' /\ UNCHANGED db
  BY <1>5, TransactionKept DEF Acquire, Inv, TypeOK
<1>6. ASSUME NEW t \in Threads, Begin(t) \/ InterruptBegin(t)
      PROVE  TransactionInv' /\ UNCHANGED db
  BY <1>6, TransactionStarted DEF Begin, InterruptBegin
<1>7. ASSUME NEW t \in Threads, BeginFails(t) \/ Return(t) \/ Interrupt(t)
      PROVE  TransactionInv' /\ UNCHANGED db
  BY <1>3, <1>7 DEF BeginFails, Return, Interrupt
<1>8. ASSUME NEW t \in Threads, IngestDuplicate(t) \/ Read(t)
      PROVE  TransactionInv' /\ UNCHANGED db
  BY <1>8, TransactionKept DEF IngestDuplicate, Read
<1>9. ASSUME NEW t \in Threads, IngestInsert(t)
      PROVE  TransactionInv' /\ UNCHANGED db
  <2>1. /\ Current(t) \in Event
        /\ writer = HandleOf[t] /\ pc[t] = "writing"
        /\ WellFormed(txn) /\ IsPrefix(db.rows, txn.rows)
    BY <1>9, LoopFacts DEF IngestInsert, InLoop, Inv
  <2>2. txn' = Insert(Current(t), txn) /\ UNCHANGED <<db, writer, pc>>
    BY <1>9 DEF IngestInsert
  <2>3. WellFormed(txn')
    <3>1. WellFormed(Insert(Current(t), txn))
      BY <1>9, <2>1, InsertWellFormed DEF IngestInsert, Inv, TypeOK
    <3> QED
      BY <2>2, <3>1
  <2>4. IsPrefix(db.rows, txn'.rows)
    <3>1. /\ db.rows \in Seq(Row)
          /\ txn.rows \in Seq(Row)
          /\ txn.seqno \in Nat
      BY DEF Inv, TypeOK, Database
    <3>2. [ordinal |-> txn.seqno + 1, event |-> Current(t)] \in Row
      BY <2>1, <3>1 DEF Row
    <3>3. IsPrefix(db.rows, Insert(Current(t), txn).rows)
      BY <2>1, <3>1, <3>2, PrefixAppend DEF Insert
    <3> QED
      BY <2>2, <3>3
  <2>5. WellFormed(db)
    BY DEF Inv, TransactionInv
  <2> QED
    BY <2>1, <2>2, <2>3, <2>4, <2>5 DEF TransactionInv, WellFormed
<1>10. ASSUME NEW t \in Threads, IngestConflict(t) \/ Abort(t)
       PROVE  TransactionInv' /\ UNCHANGED db
  BY <1>10, TransactionEnded DEF IngestConflict, Abort, Rollback
<1>11. ASSUME NEW t \in Threads, Commit(t)
       PROVE  TransactionInv' /\ IsPrefix(db.rows, db'.rows)
  <2>1. writer # NoHandle
    BY <1>11 DEF Commit, Inv, WriterExcludes
  <2>2. WellFormed(txn) /\ IsPrefix(db.rows, txn.rows)
    BY <2>1 DEF Inv, TransactionInv
  <2>3. db' = txn /\ writer' = NoHandle
    BY <1>11 DEF Commit
  <2> QED
    BY <2>2, <2>3 DEF TransactionInv, WellFormed
<1>12. ASSUME UNCHANGED vars
       PROVE  TransactionInv' /\ UNCHANGED db
  BY <1>12, TransactionKept DEF vars
<1>13. UNCHANGED db => IsPrefix(db.rows, db'.rows)
  BY <1>0
<1> QED
  BY <1>1, <1>2, <1>4, <1>5, <1>6, <1>7, <1>8, <1>9, <1>10, <1>11, <1>12,
     <1>13 DEF Next, Environment, Step, vars

-----------------------------------------------------------------------------
(* The theorems.                                                           *)
LEMMA InitInv == Init => Inv
<1> SUFFICES ASSUME Init PROVE Inv
  OBVIOUS
<1>1. TypeOK
  <2>1. NoReply \in Reply
    BY DEF NoReply, Reply, Outcomes
  <2> QED
    BY <2>1, EmptyWellFormed, BatchAssumption DEF Init, TypeOK, PCs
<1>2. WriterExcludes
  BY HandleAssumption DEF Init, WriterExcludes
<1>3. TransactionInv
  BY EmptyWellFormed, HandleAssumption DEF Init, TransactionInv
<1> QED
  BY <1>1, <1>2, <1>3 DEF Inv

(* Every step keeps the invariant.                                         *)
LEMMA NextInv == Inv /\ [Next]_vars => Inv'
  BY TypeStep, ExclusionStep, TransactionStep DEF Inv

(* The inductive invariant of the ledger (ledger.py:136-216).              *)
THEOREM Invariance == Spec => []Inv
  BY InitInv, NextInv, PTL DEF Spec

(* Every variable of the ledger keeps its type, and only validated events  *)
(* are ever in a transaction.                                              *)
THEOREM TypeCorrect == Spec => []TypeOK
<1>1. Inv => TypeOK
  BY DEF Inv
<1> QED
  BY <1>1, Invariance, PTL

(* Whatever the number of processes and threads, at most one of them is    *)
(* between BEGIN and COMMIT, and no answered call keeps a lock.            *)
THEOREM Exclusion == Spec => []WriterExcludes
<1>1. Inv => WriterExcludes
  BY DEF Inv
<1> QED
  BY <1>1, Invariance, PTL

(* The committed table never has two rows with one identity or one source  *)
(* position, and its ordinals are 1, 2, ... without gaps.                  *)
THEOREM Consistency == Spec => []LedgerConsistent
<1>1. Inv => LedgerConsistent
  BY DEF Inv, TransactionInv, LedgerConsistent
<1> QED
  BY <1>1, Invariance, PTL

(* A transaction left open by an interrupt holds no rows of its own.       *)
THEOREM OrphansHarmless == Spec => []OrphanIsEmpty
<1>1. Inv => OrphanIsEmpty
  BY HandleAssumption DEF Inv, WriterExcludes, TransactionInv, OrphanIsEmpty
<1> QED
  BY <1>1, Invariance, PTL

(* No step changes, drops or renumbers a committed row.                    *)
THEOREM NeverRewritten == Spec => AppendOnly
<1>1. Inv /\ [Next]_vars => [IsPrefix(db.rows, db'.rows)]_vars
  BY TransactionStep
<1> QED
  BY <1>1, Invariance, PTL DEF Spec, AppendOnly

-----------------------------------------------------------------------------
(* Reads.  A snapshot is a prefix of the committed table: it was when it   *)
(* was taken, because _lock keeps readers out of the transaction of their  *)
(* own connection, and the table only grows.                               *)
SnapshotInv == Inv /\ SnapshotsCommitted

(* A read returns the committed rows of its moment.                        *)
LEMMA ReadStep ==
    ASSUME Inv, NEW t \in Threads, Read(t)
    PROVE  snapshot' = [snapshot EXCEPT ![t] = db.rows] /\ UNCHANGED db
<1>1. mutex[HandleOf[t]] = NoThread /\ HandleOf[t] \in Handles
  BY HandleAssumption DEF Read, CanRead
<1>2. writer = HandleOf[t] => txn = db
  BY <1>1, HandleAssumption DEF Inv, WriterExcludes, TransactionInv
<1> QED
  BY <1>2 DEF Read, View

(* Each action keeps the snapshots committed and in order.                 *)
LEMMA SnapshotStep ==
    ASSUME SnapshotInv, [Next]_vars
    PROVE  SnapshotsCommitted'
<1>1. /\ db.rows \in Seq(Row) /\ db'.rows \in Seq(Row)
      /\ snapshot \in [Threads -> Seq(Row)]
  BY NextInv DEF SnapshotInv, Inv, TypeOK, Database
<1>2. IsPrefix(db.rows, db'.rows)
  BY TransactionStep DEF SnapshotInv
<1>3. \A t \in Threads : IsPrefix(snapshot[t], db'.rows)
  BY <1>1, <1>2, PrefixTransitive DEF SnapshotInv, SnapshotsCommitted
<1>4. ASSUME NEW t \in Threads, Read(t)
      PROVE  SnapshotsCommitted'
  BY <1>1, <1>2, <1>3, <1>4, ReadStep DEF SnapshotInv, SnapshotsCommitted
<1>5. CASE UNCHANGED snapshot
  BY <1>3, <1>5 DEF SnapshotsCommitted
<1>6. \/ \E t \in Threads : Read(t)
      \/ UNCHANGED snapshot
  BY HandleAssumption
     DEF Next, Environment, Step, vars, Open, Close, Crash, Call, Acquire,
         Begin, BeginFails, IngestDuplicate, IngestInsert, IngestConflict,
         Abort, Rollback, Commit, Return, Interrupt, InterruptBegin
<1> QED
  BY <1>4, <1>5, <1>6

(* No reader ever sees an uncommitted row, or rows in an order that is not *)
(* the order of their ordinals.                                            *)
THEOREM ReadCommitted == Spec => []SnapshotsCommitted
<1>1. Init => SnapshotInv
  <2>1. ASSUME Init PROVE SnapshotsCommitted
    <3>1. db.rows \in Seq(Row) /\ db.rows = <<>>
      BY <2>1, EmptyWellFormed DEF Init, EmptyDb, Database
    <3>2. \A t \in Threads : snapshot[t] = db.rows
      BY <2>1, <3>1 DEF Init
    <3> QED
      BY <3>1, <3>2, PrefixReflexive DEF SnapshotsCommitted
  <2> QED
    BY <2>1, InitInv DEF SnapshotInv
<1>2. SnapshotInv /\ [Next]_vars => SnapshotInv'
  BY SnapshotStep, NextInv DEF SnapshotInv
<1>3. SnapshotInv => SnapshotsCommitted
  BY DEF SnapshotInv
<1> QED
  BY <1>1, <1>2, <1>3, PTL DEF Spec

(* A thread that reads twice never sees the ledger shrink.                 *)
THEOREM ReadsMonotonic == Spec => MonotonicReads
<1> DEFINE Grows == \A t \in Threads : IsPrefix(snapshot[t], snapshot'[t])
<1>1. ASSUME SnapshotInv, [Next]_vars PROVE Grows
  <2>1. snapshot \in [Threads -> Seq(Row)] /\ db.rows \in Seq(Row)
    BY <1>1 DEF SnapshotInv, Inv, TypeOK, Database
  <2>2. CASE UNCHANGED snapshot
    BY <2>1, <2>2, PrefixReflexive
  <2>3. ASSUME NEW t \in Threads, Read(t) PROVE Grows
    <3>1. snapshot' = [snapshot EXCEPT ![t] = db.rows]
      BY <1>1, <2>3, ReadStep DEF SnapshotInv
    <3> QED
      BY <1>1, <2>1, <3>1, PrefixReflexive DEF SnapshotInv, SnapshotsCommitted
  <2>4. \/ \E t \in Threads : Read(t)
        \/ UNCHANGED snapshot
    BY <1>1, HandleAssumption
       DEF Next, Environment, Step, vars, Open, Close, Crash, Call, Acquire,
           Begin, BeginFails, IngestDuplicate, IngestInsert, IngestConflict,
           Abort, Rollback, Commit, Return, Interrupt, InterruptBegin
  <2> QED
    BY <2>2, <2>3, <2>4
<1>2. Spec => []SnapshotInv
  <2>1. SnapshotInv <=> Inv /\ SnapshotsCommitted
    BY DEF SnapshotInv
  <2> QED
    BY <2>1, Invariance, ReadCommitted, PTL
<1>3. SnapshotInv /\ [Next]_vars => [Grows]_vars
  BY <1>1
<1> QED
  BY <1>2, <1>3, PTL DEF Spec, MonotonicReads
=============================================================================
