---------------------------- MODULE QualityProofs ----------------------------
(***************************************************************************)
(* Proofs about Quality and Campaign: for every ledger, every policy and   *)
(* every scenario, the findings are those of the ledger, whatever order    *)
(* its rows were appended in, the classifier at the boundary agrees with   *)
(* them, and a campaign detects the fault of its scenario and no other.    *)
(***************************************************************************)
EXTENDS Campaign, FiniteSetTheorems, SequenceTheorems, TLAPS

-----------------------------------------------------------------------------
(* Folds over a sequence.  The library defines them by a function on sets  *)
(* of positions; what is needed is that each position makes one step.      *)

(* The rows of the sealed ledger with one record more.                     *)
SealRecord(l, record) ==
    IF record = Invalid THEN l ELSE l \o Fresh(l, <<record>>)

(* What one step of each fold makes of the value v so far.                 *)
StepOf(a, v, i) ==
    CASE a.fold = "runs"   -> ExtendRuns(v, a.items[i])
      [] a.fold = "sealed" -> SealRecord(v, a.items[i])
      [] a.fold = "stream" -> InspectRecord(v, i, a.items[i], a.threshold)

Folds(f, a, n) ==
    f = [s \in SUBSET (1 .. n) |->
            IF s = {} THEN a.base ELSE StepOf(a, f[s \ {Max(s)}], Max(s))]

(* A set of natural numbers with a member has a least one.                 *)
LEMMA LeastIn ==
    ASSUME NEW C \in SUBSET Nat, C # {}
    PROVE  \E n \in C : \A m \in C : n <= m
<1>1. IsWellFoundedOn(OpToRel(<, Nat), Nat)
  BY NatLessThanWellFounded
<1>2. PICK n \in C : \A m \in C : <<m, n>> \notin OpToRel(<, Nat)
  BY <1>1, WFMin
<1>3. ASSUME NEW m \in C, m < n PROVE FALSE
  <2>1. \A p \in Nat \X Nat : p[1] < p[2] => p \in OpToRel(<, Nat)
    BY DEF OpToRel
  <2>2. <<m, n>> \in Nat \X Nat
    OBVIOUS
  <2>3. <<m, n>> \in OpToRel(<, Nat)
    BY <1>3, <2>1, <2>2
  <2> QED
    BY <1>2, <2>3
<1> QED
  BY <1>3

(* Every set of natural numbers that holds 0 and the successor of each of  *)
(* its members holds them all.                                             *)
LEMMA Induction ==
    ASSUME NEW P \in SUBSET Nat, 0 \in P, \A n \in P : n + 1 \in P
    PROVE  P = Nat
<1> DEFINE C == Nat \ P
<1> SUFFICES ASSUME C # {} PROVE FALSE
  OBVIOUS
<1>1. PICK n \in C : \A m \in C : n <= m
  <2>1. C \in SUBSET Nat
    OBVIOUS
  <2> HIDE DEF C
  <2> QED
    BY <2>1, LeastIn
<1>2. n # 0 /\ n - 1 \in Nat
  OBVIOUS
<1>3. n - 1 \in P
  BY <1>1, <1>2
<1> QED
  BY <1>2, <1>3

(* The greatest of some positions.                                         *)
LEMMA MaxIn ==
    ASSUME NEW n \in Nat, NEW s \in SUBSET (1 .. n), s # {}
    PROVE  Max(s) \in s /\ \A x \in s : x <= Max(s)
<1> DEFINE Bounded(m) == \A u \in SUBSET (1 .. m) :
                u # {} => \E x \in u : \A y \in u : x >= y
           P == {m \in Nat : Bounded(m)}
<1>1. 0 \in P
  <2>1. 1 .. 0 = {}
    OBVIOUS
  <2> QED
    BY <2>1
<1>2. ASSUME NEW m \in P PROVE m + 1 \in P
  <2>1. m \in Nat /\ Bounded(m)
    OBVIOUS
  <2> SUFFICES ASSUME NEW u \in SUBSET (1 .. m + 1), u # {}
               PROVE  \E x \in u : \A y \in u : x >= y
    BY <2>1
  <2>2. CASE m + 1 \in u
    BY <2>1, <2>2
  <2>3. CASE m + 1 \notin u
    <3>1. u \in SUBSET (1 .. m)
      BY <2>1, <2>3
    <3> QED
      BY <2>1, <3>1
  <2> QED
    BY <2>2, <2>3
<1>3. P = Nat
  <2> HIDE DEF P
  <2>1. P \in SUBSET Nat
    BY DEF P
  <2> QED
    BY <1>1, <1>2, <2>1, Induction
<1>4. \E x \in s : \A y \in s : x >= y
  BY <1>3
<1>5. Max(s) \in s /\ \A y \in s : Max(s) >= y
  BY <1>4 DEF Max
<1> QED
  BY <1>5

(* The last of some positions is the greatest.                             *)
LEMMA MaxAt ==
    ASSUME NEW n \in Nat, NEW s \in SUBSET (1 .. n + 1), n + 1 \in s
    PROVE  Max(s) = n + 1
<1>1. n + 1 \in Nat /\ s # {}
  OBVIOUS
<1>2. Max(s) \in s /\ \A x \in s : x <= Max(s)
  BY <1>1, MaxIn
<1>3. \A x \in s : x \in Nat /\ x <= n + 1
  OBVIOUS
<1>4. PICK m \in s : m = Max(s)
  BY <1>2
<1>5. m \in Nat /\ m <= n + 1 /\ n + 1 <= m
  BY <1>2, <1>3, <1>4
<1> QED
  BY <1>4, <1>5

(* The fold of the first positions extends to one more.                    *)
LEMMA FoldExtends ==
    ASSUME NEW a, NEW n \in Nat, NEW f, Folds(f, a, n)
    PROVE  \E g : Folds(g, a, n + 1)
<1> DEFINE g == [s \in SUBSET (1 .. n + 1) |->
                    IF n + 1 \in s THEN StepOf(a, f[s \ {n + 1}], n + 1) ELSE f[s]]
           value(s) == IF s = {} THEN a.base ELSE StepOf(a, g[s \ {Max(s)}], Max(s))
<1>1. \A s \in SUBSET (1 .. n) : g[s] = f[s]
  OBVIOUS
<1>2. ASSUME NEW s \in SUBSET (1 .. n + 1) PROVE g[s] = value(s)
  <2>1. CASE n + 1 \in s
    <3>1. Max(s) = n + 1
      BY <2>1, MaxAt
    <3>2. s \ {n + 1} \in SUBSET (1 .. n)
      OBVIOUS
    <3>3. g[s] = StepOf(a, f[s \ {n + 1}], n + 1)
      BY <2>1
    <3> HIDE DEF g
    <3>4. value(s) = StepOf(a, g[s \ {n + 1}], n + 1)
      BY <2>1, <3>1
    <3> QED
      BY <1>1, <3>2, <3>3, <3>4
  <2>2. CASE n + 1 \notin s
    <3>1. s \in SUBSET (1 .. n)
      BY <2>2
    <3>2. s # {} => s \ {Max(s)} \in SUBSET (1 .. n)
      BY <3>1
    <3> HIDE DEF g
    <3>3. f[s] = IF s = {} THEN a.base ELSE StepOf(a, f[s \ {Max(s)}], Max(s))
      BY <3>1 DEF Folds
    <3> QED
      BY <1>1, <3>1, <3>2, <3>3
  <2> QED
    BY <2>1, <2>2
<1>3. g = [s \in SUBSET (1 .. n + 1) |-> value(s)]
  <2>1. g = [s \in SUBSET (1 .. n + 1) |-> g[s]]
    OBVIOUS
  <2> HIDE DEF g, value
  <2> QED
    BY <1>2, <2>1
<1> HIDE DEF g
<1>4. Folds(g, a, n + 1)
  BY <1>3 DEF Folds
<1> QED
  BY <1>4

(* So there is a fold of any length.                                       *)
LEMMA FoldExists ==
    ASSUME NEW a, NEW n \in Nat
    PROVE  \E f : Folds(f, a, n)
<1> DEFINE P == {m \in Nat : \E f : Folds(f, a, m)}
<1>1. 0 \in P
  <2> DEFINE f == [s \in SUBSET (1 .. 0) |-> a.base]
  <2>1. \A s \in SUBSET (1 .. 0) : s = {}
    OBVIOUS
  <2>2. f = [s \in SUBSET (1 .. 0) |->
                IF s = {} THEN a.base ELSE StepOf(a, f[s \ {Max(s)}], Max(s))]
    BY <2>1
  <2> HIDE DEF f
  <2>3. Folds(f, a, 0)
    BY <2>2 DEF Folds
  <2> QED
    BY <2>3
<1>2. ASSUME NEW m \in P PROVE m + 1 \in P
  BY FoldExtends
<1>3. P = Nat
  <2> HIDE DEF P
  <2>1. P \in SUBSET Nat
    BY DEF P
  <2> QED
    BY <1>1, <1>2, <2>1, Induction
<1> QED
  BY <1>3

(* A fold starts at its base and makes one step for each position.         *)
LEMMA FoldSteps ==
    ASSUME NEW a, NEW n \in Nat, NEW f, Folds(f, a, n)
    PROVE  /\ f[1 .. 0] = a.base
           /\ \A k \in 0 .. n - 1 : f[1 .. k + 1] = StepOf(a, f[1 .. k], k + 1)
<1>1. 1 .. 0 \in SUBSET (1 .. n) /\ 1 .. 0 = {}
  OBVIOUS
<1>2. f[1 .. 0] = a.base
  BY <1>1 DEF Folds
<1>3. ASSUME NEW k \in 0 .. n - 1
      PROVE  f[1 .. k + 1] = StepOf(a, f[1 .. k], k + 1)
  <2> DEFINE s == 1 .. k + 1
  <2>1. s \in SUBSET (1 .. n) /\ s # {} /\ s \ {k + 1} = 1 .. k /\ k + 1 \in s
    OBVIOUS
  <2>2. Max(s) = k + 1
    BY MaxAt
  <2> HIDE DEF s
  <2>3. f[s] = StepOf(a, f[s \ {Max(s)}], Max(s))
    BY <2>1 DEF Folds
  <2> QED
    BY <2>1, <2>2, <2>3 DEF s
<1> QED
  BY <1>2, <1>3

(* The runs of equal payloads, grown row by row.                           *)
LEMMA RunsFold ==
    ASSUME NEW o, NEW n \in Nat, DOMAIN o = 1 .. n
    PROVE  \E F : /\ F[0] = <<>>
                  /\ \A k \in 0 .. n - 1 : F[k + 1] = ExtendRuns(F[k], o[k + 1])
                  /\ F[n] = FoldLeft(ExtendRuns, <<>>, o)
<1> DEFINE a == [fold |-> "runs", items |-> o, base |-> <<>>, threshold |-> 0]
           Body(f) == f = [s \in SUBSET DOMAIN o |->
                              IF s = {} THEN <<>>
                              ELSE ExtendRuns(f[s \ {Max(s)}], o[Max(s)])]
           iter == CHOOSE f : Body(f)
<1>1. FoldLeft(ExtendRuns, <<>>, o) = iter[1 .. n]
  BY DEF FoldLeft, MapThenFoldSet
<1>2. ASSUME NEW f PROVE Body(f) <=> Folds(f, a, n)
  <2>1. \A v, i : StepOf(a, v, i) = ExtendRuns(v, o[i])
    BY DEF StepOf
  <2>2. a.base = <<>>
    OBVIOUS
  <2> HIDE DEF a
  <2> QED
    BY <2>1, <2>2 DEF Folds
<1> HIDE DEF Body, a
<1>3. Body(iter)
  BY <1>2, FoldExists
<1>4. /\ iter[1 .. 0] = a.base
      /\ \A k \in 0 .. n - 1 : iter[1 .. k + 1] = StepOf(a, iter[1 .. k], k + 1)
  <2>1. PICK f : f = iter
    OBVIOUS
  <2>2. Folds(f, a, n)
    BY <1>2, <1>3, <2>1
  <2> QED
    BY <2>1, <2>2, FoldSteps
<1> DEFINE F == [k \in 0 .. n |-> iter[1 .. k]]
<1>5. F[0] = <<>> /\ F[n] = iter[1 .. n]
  BY <1>4 DEF a
<1>6. ASSUME NEW k \in 0 .. n - 1 PROVE F[k + 1] = ExtendRuns(F[k], o[k + 1])
  <2>1. F[k + 1] = iter[1 .. k + 1] /\ F[k] = iter[1 .. k]
    OBVIOUS
  <2>2. iter[1 .. k + 1] = ExtendRuns(iter[1 .. k], o[k + 1])
    BY <1>4 DEF StepOf, a
  <2> QED
    BY <2>1, <2>2
<1> HIDE DEF F
<1> QED
  BY <1>1, <1>5, <1>6

(* F[k] are the rows of the sealed ledger after k records.                 *)
Sealing(F, r) ==
    /\ F[0] = <<>>
    /\ \A k \in 0 .. Len(r) - 1 : F[k + 1] = SealRecord(F[k], r[k + 1])

(* The rows of the sealed ledger come record by record.                    *)
LEMMA SealFold ==
    ASSUME NEW r, NEW n \in Nat, Len(r) = n, DOMAIN r = 1 .. n, records = r
    PROVE  \E F : Sealing(F, r) /\ F[n] = SealedLog
<1> DEFINE a == [fold |-> "sealed", items |-> r, base |-> <<>>, threshold |-> 0]
           Body(f) == f = [s \in SUBSET DOMAIN r |->
                              IF s = {} THEN <<>>
                              ELSE IF r[Max(s)] = Invalid THEN f[s \ {Max(s)}]
                                   ELSE f[s \ {Max(s)}]
                                            \o Fresh(f[s \ {Max(s)}], <<r[Max(s)]>>)]
           iter == CHOOSE f : Body(f)
<1>1. SealedLog = iter[1 .. n]
  <2>1. SealedLog = iter[DOMAIN r]
    BY DEF SealedLog, FoldLeft, MapThenFoldSet
  <2> HIDE DEF iter
  <2> QED
    BY <2>1
<1>2. ASSUME NEW f PROVE Body(f) <=> Folds(f, a, n)
  <2>1. \A v, i : StepOf(a, v, i) =
            IF r[i] = Invalid THEN v ELSE v \o Fresh(v, <<r[i]>>)
    BY DEF StepOf, SealRecord
  <2>2. a.base = <<>>
    OBVIOUS
  <2> HIDE DEF a
  <2>3. ASSUME NEW s \in SUBSET (1 .. n)
        PROVE  (IF s = {} THEN <<>>
                ELSE IF r[Max(s)] = Invalid THEN f[s \ {Max(s)}]
                     ELSE f[s \ {Max(s)}] \o Fresh(f[s \ {Max(s)}], <<r[Max(s)]>>))
               = (IF s = {} THEN a.base ELSE StepOf(a, f[s \ {Max(s)}], Max(s)))
    BY <2>1, <2>2
  <2> QED
    BY <2>3 DEF Folds
<1> HIDE DEF Body, a
<1>3. Body(iter)
  BY <1>2, FoldExists
<1>4. /\ iter[1 .. 0] = a.base
      /\ \A k \in 0 .. n - 1 : iter[1 .. k + 1] = StepOf(a, iter[1 .. k], k + 1)
  <2>1. PICK f : f = iter
    OBVIOUS
  <2>2. Folds(f, a, n)
    BY <1>2, <1>3, <2>1
  <2> QED
    BY ONLY <2>1, <2>2, FoldSteps, n \in Nat
<1> DEFINE F == [k \in 0 .. n |-> iter[1 .. k]]
<1>5. F[0] = <<>> /\ F[n] = iter[1 .. n]
  BY <1>4 DEF a
<1>6. ASSUME NEW k \in 0 .. n - 1 PROVE F[k + 1] = SealRecord(F[k], r[k + 1])
  <2>1. F[k + 1] = iter[1 .. k + 1] /\ F[k] = iter[1 .. k]
    OBVIOUS
  <2>2. iter[1 .. k + 1] = SealRecord(iter[1 .. k], r[k + 1])
    BY <1>4 DEF StepOf, a
  <2> QED
    BY <2>1, <2>2
<1> HIDE DEF F
<1> QED
  BY <1>1, <1>5, <1>6 DEF Sealing

NothingSeen == [ids |-> {}, last |-> [s \in {} |-> 0], findings |-> {}]

(* The findings of the boundary come record by record.                     *)
LEMMA StreamFold ==
    ASSUME NEW r, NEW n \in Nat, DOMAIN r = 1 .. n, NEW delay
    PROVE  \E F : /\ F[0] = NothingSeen
                  /\ \A k \in 0 .. n - 1 :
                        F[k + 1] = InspectRecord(F[k], k + 1, r[k + 1], delay)
                  /\ F[n].findings = InspectStream(r, delay)
<1> DEFINE a == [fold |-> "stream", items |-> r, base |-> NothingSeen,
                 threshold |-> delay]
           at == [i \in DOMAIN r |-> i]
           Body(f) == f = [s \in SUBSET DOMAIN at |->
                              IF s = {} THEN NothingSeen
                              ELSE InspectRecord(f[s \ {Max(s)}], at[Max(s)],
                                                 r[at[Max(s)]], delay)]
           iter == CHOOSE f : Body(f)
<1>1. InspectStream(r, delay) = iter[1 .. n].findings
  BY DEF InspectStream, FoldLeftDomain, FoldLeft, MapThenFoldSet, NothingSeen
<1>2. ASSUME NEW f PROVE Body(f) <=> Folds(f, a, n)
  <2>1. \A v, i : StepOf(a, v, i) = InspectRecord(v, i, r[i], delay)
    BY DEF StepOf
  <2>2. a.base = NothingSeen
    OBVIOUS
  <2>3. DOMAIN at = 1 .. n
    OBVIOUS
  <2>4. \A s \in SUBSET (1 .. n) : s # {} => Max(s) \in 1 .. n
    BY MaxIn
  <2>5. \A s \in SUBSET (1 .. n) : s # {} => at[Max(s)] = Max(s)
    BY <2>4
  <2> HIDE DEF a, at
  <2>6. ASSUME NEW s \in SUBSET (1 .. n)
        PROVE  (IF s = {} THEN NothingSeen
                ELSE InspectRecord(f[s \ {Max(s)}], at[Max(s)], r[at[Max(s)]], delay))
               = (IF s = {} THEN a.base ELSE StepOf(a, f[s \ {Max(s)}], Max(s)))
    BY <2>1, <2>2, <2>5
  <2> QED
    BY <2>3, <2>6 DEF Folds
<1> HIDE DEF Body, a
<1>3. Body(iter)
  BY <1>2, FoldExists
<1>4. /\ iter[1 .. 0] = a.base
      /\ \A k \in 0 .. n - 1 : iter[1 .. k + 1] = StepOf(a, iter[1 .. k], k + 1)
  <2>1. PICK f : f = iter
    OBVIOUS
  <2>2. Folds(f, a, n)
    BY <1>2, <1>3, <2>1
  <2> QED
    BY <2>1, <2>2, FoldSteps
<1> DEFINE F == [k \in 0 .. n |-> iter[1 .. k]]
<1>5. F[0] = NothingSeen /\ F[n] = iter[1 .. n]
  BY <1>4 DEF a
<1>6. ASSUME NEW k \in 0 .. n - 1
      PROVE  F[k + 1] = InspectRecord(F[k], k + 1, r[k + 1], delay)
  <2>1. F[k + 1] = iter[1 .. k + 1] /\ F[k] = iter[1 .. k]
    OBVIOUS
  <2>2. iter[1 .. k + 1] = InspectRecord(iter[1 .. k], k + 1, r[k + 1], delay)
    BY <1>4 DEF StepOf, a
  <2> QED
    BY <2>1, <2>2
<1> HIDE DEF F
<1> QED
  BY <1>1, <1>5, <1>6

-----------------------------------------------------------------------------
(* Runs of equal payloads in a sequence of different rows.                 *)

PayloadAt(o, i) == o[i].event.payload

(* Among the first k rows, those from a to b have one payload, and neither *)
(* neighbour has it.                                                       *)
IsRun(o, k, a, b) ==
    /\ a \in 1 .. k /\ b \in a .. k
    /\ \A i \in a .. b : PayloadAt(o, i) = PayloadAt(o, a)
    /\ a > 1 => PayloadAt(o, a - 1) # PayloadAt(o, a)
    /\ b < k => PayloadAt(o, b + 1) # PayloadAt(o, a)

(* The runs v that have been grown of the first k rows.                    *)
RunsAt(o, k, v) ==
    /\ v \in Seq(Seq(Row))
    /\ k = 0 => v = <<>>
    /\ k > 0 => Len(v) > 0 /\ \E a \in 1 .. k :
                    IsRun(o, k, a, k) /\ v[Len(v)] = SubSeq(o, a, k)
    /\ \A j \in 1 .. Len(v) - 1 : \E a, b \in 1 .. k :
            IsRun(o, k, a, b) /\ b < k /\ v[j] = SubSeq(o, a, b)
    /\ \A a, b \in 1 .. k : IsRun(o, k, a, b) =>
            \E j \in 1 .. Len(v) : v[j] = SubSeq(o, a, b)

Different(o) == \A i, j \in 1 .. Len(o) : o[i] = o[j] => i = j

(* A part of a sequence of rows, and the same with the next row.           *)
LEMMA PartFacts ==
    ASSUME NEW o \in Seq(Row), NEW b \in 1 .. Len(o), NEW a \in 1 .. b
    PROVE  /\ SubSeq(o, a, b) \in Seq(Row)
           /\ Len(SubSeq(o, a, b)) = b - a + 1
           /\ \A i \in 1 .. b - a + 1 : SubSeq(o, a, b)[i] = o[a + i - 1]
           /\ Last(SubSeq(o, a, b)) = o[b]
           /\ ToSet(SubSeq(o, a, b)) = {o[i] : i \in a .. b}
<1> DEFINE p == SubSeq(o, a, b)
<1>1. /\ a \in Int /\ b \in Int /\ a <= b /\ \A i \in a .. b : o[i] \in Row
      /\ b - a + 1 \in Nat /\ b - a + 1 > 0
  OBVIOUS
<1>2. /\ p \in Seq(Row) /\ Len(p) = b - a + 1
      /\ \A i \in 1 .. b - a + 1 : p[i] = o[a + i - 1]
  BY <1>1, SubSeqProperties
<1>3. p[Len(p)] = o[b]
  <2>1. b - a + 1 \in 1 .. b - a + 1 /\ a + (b - a + 1) - 1 = b
    BY <1>1
  <2> HIDE DEF p
  <2> QED
    BY <1>2, <2>1
<1>4. DOMAIN p = 1 .. b - a + 1
  <2> HIDE DEF p
  <2> QED
    BY <1>2
<1>5. ASSUME NEW x PROVE x \in ToSet(p) <=> x \in {o[i] : i \in a .. b}
  <2> HIDE DEF p
  <2>1. ASSUME x \in ToSet(p) PROVE x \in {o[i] : i \in a .. b}
    <3>1. PICK i \in 1 .. b - a + 1 : x = p[i]
      BY <1>4, <2>1 DEF ToSet
    <3>2. a + i - 1 \in a .. b
      BY <1>1
    <3> QED
      BY <1>2, <3>1, <3>2
  <2>2. ASSUME x \in {o[i] : i \in a .. b} PROVE x \in ToSet(p)
    <3>1. PICK i \in a .. b : x = o[i]
      BY <2>2
    <3>2. i - a + 1 \in 1 .. b - a + 1 /\ a + (i - a + 1) - 1 = i
      BY <1>1
    <3>3. p[i - a + 1] = x
      BY <1>2, <3>1, <3>2
    <3> QED
      BY <1>4, <3>2, <3>3 DEF ToSet
  <2> QED
    BY <2>1, <2>2
<1>6. ToSet(p) = {o[i] : i \in a .. b}
  BY <1>5
<1> HIDE DEF p
<1>7. Last(p) = o[b]
  BY <1>3 DEF Last
<1> QED
  BY <1>2, <1>6, <1>7 DEF p

(* A part grows by the row that follows it.                                *)
LEMMA PartGrows ==
    ASSUME NEW o \in Seq(Row), NEW k \in Nat, k + 1 <= Len(o), NEW a \in 1 .. k
    PROVE  Append(SubSeq(o, a, k), o[k + 1]) = SubSeq(o, a, k + 1)
<1> DEFINE p == SubSeq(o, a, k)
           q == SubSeq(o, a, k + 1)
<1>1. k \in 1 .. Len(o) /\ k + 1 \in 1 .. Len(o) /\ a \in 1 .. k + 1 /\ o[k + 1] \in Row
  OBVIOUS
<1>2. /\ p \in Seq(Row) /\ Len(p) = k - a + 1
      /\ \A i \in 1 .. k - a + 1 : p[i] = o[a + i - 1]
  BY <1>1, PartFacts
<1>3. /\ q \in Seq(Row) /\ Len(q) = k + 1 - a + 1
      /\ \A i \in 1 .. k + 1 - a + 1 : q[i] = o[a + i - 1]
  BY <1>1, PartFacts
<1> HIDE DEF p, q
<1>4. /\ Append(p, o[k + 1]) \in Seq(Row) /\ Len(Append(p, o[k + 1])) = Len(q)
      /\ \A i \in 1 .. Len(q) : Append(p, o[k + 1])[i] = q[i]
  <2>1. Append(p, o[k + 1]) \in Seq(Row) /\ Len(Append(p, o[k + 1])) = k - a + 2
    BY <1>1, <1>2
  <2>2. Len(q) = k - a + 2
    BY <1>1, <1>3
  <2>3. ASSUME NEW i \in 1 .. k - a + 2 PROVE Append(p, o[k + 1])[i] = q[i]
    <3>1. q[i] = o[a + i - 1]
      BY <1>1, <1>3
    <3>2. CASE i \in 1 .. k - a + 1
      BY <1>1, <1>2, <3>1, <3>2
    <3>3. CASE i = k - a + 2
      <4>1. a + i - 1 = k + 1
        BY <1>1, <3>3
      <4> QED
        BY <1>1, <1>2, <3>1, <3>3, <4>1
    <3>4. i \in 1 .. k - a + 1 \/ i = k - a + 2
      <4>1. k \in Int /\ a \in Int /\ i \in 1 .. k - a + 2
        BY <1>1
      <4> QED
        BY <4>1
    <3> QED
      BY <3>2, <3>3, <3>4
  <2> QED
    BY <2>1, <2>2, <2>3
<1> QED
  BY <1>3, <1>4, SeqEqual DEF p, q

(* One more row: the last run grows, or a new one begins.                  *)
LEMMA RunsStep ==
    ASSUME NEW o \in Seq(Row), Different(o), NEW k \in Nat, k + 1 <= Len(o),
           NEW v, RunsAt(o, k, v)
    PROVE  RunsAt(o, k + 1, ExtendRuns(v, o[k + 1]))
<1> DEFINE row == o[k + 1]
<1>1. /\ k + 1 \in 1 .. Len(o) /\ k + 1 \in Nat /\ row \in Row /\ Len(o) \in Nat
      /\ \A a, b : IsRun(o, k, a, b) => a \in 1 .. k /\ b \in a .. k
      /\ \A a, b : IsRun(o, k + 1, a, b) => a \in 1 .. k + 1 /\ b \in a .. k + 1
  BY DEF IsRun
<1>2. /\ v \in Seq(Seq(Row)) /\ Len(v) \in Nat
      /\ \A j \in 1 .. Len(v) : v[j] \in Seq(Row)
  BY DEF RunsAt
<1>3. \A a \in 1 .. k : Last(SubSeq(o, a, k)) = o[k]
  <2>1. ASSUME NEW a \in 1 .. k PROVE k \in 1 .. Len(o) /\ a \in 1 .. k
    OBVIOUS
  <2> QED
    BY <2>1, PartFacts
<1>4. CASE k = 0 \/ PayloadAt(o, k) # PayloadAt(o, k + 1)
  <2>1. /\ k > 0 => v # <<>> /\ Last(Last(v)) = o[k]
        /\ k = 0 => v = <<>>
    <3>1. ASSUME k > 0 PROVE v # <<>> /\ Last(Last(v)) = o[k]
      <4>1. PICK a \in 1 .. k : v[Len(v)] = SubSeq(o, a, k)
        BY <3>1 DEF RunsAt
      <4>2. Len(v) > 0
        BY <3>1 DEF RunsAt
      <4> QED
        BY <1>2, <1>3, <4>1, <4>2 DEF Last
    <3> QED
      BY <3>1 DEF RunsAt
  <2>2. ExtendRuns(v, row) = Append(v, <<row>>)
    BY <1>4, <2>1 DEF ExtendRuns, PayloadAt
  <2> DEFINE w == Append(v, <<row>>)
  <2>3. <<row>> \in Seq(Row) /\ <<row>> = SubSeq(o, k + 1, k + 1)
    <3>1. /\ SubSeq(o, k + 1, k + 1) \in Seq(Row)
          /\ Len(SubSeq(o, k + 1, k + 1)) = k + 1 - (k + 1) + 1
          /\ \A i \in 1 .. k + 1 - (k + 1) + 1 :
                SubSeq(o, k + 1, k + 1)[i] = o[k + 1 + i - 1]
      BY <1>1, PartFacts
    <3> QED
      BY <1>1, <3>1
  <2>4. /\ w \in Seq(Seq(Row)) /\ Len(w) = Len(v) + 1 /\ w[Len(v) + 1] = <<row>>
        /\ \A j \in 1 .. Len(v) : w[j] = v[j]
    BY <1>2, <2>3
  <2> HIDE DEF w
  <2>5. IsRun(o, k + 1, k + 1, k + 1)
    BY <1>4 DEF IsRun
  <2>6. ASSUME NEW a, NEW b, IsRun(o, k, a, b)
        PROVE  IsRun(o, k + 1, a, b)
    <3>1. CASE b < k
      BY <2>6, <3>1 DEF IsRun
    <3>2. CASE b = k
      <4>1. PayloadAt(o, b + 1) # PayloadAt(o, a)
        BY <1>4, <2>6, <3>2 DEF IsRun
      <4> QED
        BY <2>6, <3>2, <4>1 DEF IsRun
    <3> QED
      BY <1>1, <2>6, <3>1, <3>2
  <2>7. ASSUME NEW j \in 1 .. Len(w) - 1
        PROVE  \E a, b \in 1 .. k + 1 :
                    IsRun(o, k + 1, a, b) /\ b < k + 1 /\ w[j] = SubSeq(o, a, b)
    <3>1. j \in 1 .. Len(v)
      BY <1>2, <2>4
    <3>2. PICK a \in 1 .. k, b \in 1 .. k : IsRun(o, k, a, b) /\ v[j] = SubSeq(o, a, b)
      <4>1. CASE j \in 1 .. Len(v) - 1
        BY <4>1 DEF RunsAt
      <4>2. CASE j = Len(v)
        <5>1. k > 0
          BY <1>2, <3>1 DEF RunsAt
        <5> QED
          BY <4>2, <5>1 DEF RunsAt
      <4> QED
        BY <1>2, <3>1, <4>1, <4>2
    <3>3. a \in 1 .. k + 1 /\ b \in 1 .. k + 1 /\ b < k + 1
      OBVIOUS
    <3> QED
      BY <2>4, <2>6, <3>1, <3>2, <3>3
  <2>8. ASSUME NEW a \in 1 .. k + 1, NEW b \in 1 .. k + 1, IsRun(o, k + 1, a, b)
        PROVE  \E j \in 1 .. Len(w) : w[j] = SubSeq(o, a, b)
    <3>1. CASE b = k + 1 /\ a = k + 1
      <4>1. Len(v) + 1 \in 1 .. Len(w)
        BY <1>2, <2>4
      <4>2. w[Len(v) + 1] = SubSeq(o, a, b)
        BY <2>3, <2>4, <3>1
      <4> QED
        BY <4>1, <4>2
    <3>2. CASE b = k + 1 /\ a # k + 1
      <4>1. /\ a \in 1 .. k /\ k \in a .. b /\ k + 1 \in a .. b
        BY <3>2
      <4>2. PayloadAt(o, k) = PayloadAt(o, k + 1)
        BY <2>8, <4>1 DEF IsRun
      <4> QED
        BY <1>4, <4>1, <4>2
    <3>3. CASE b # k + 1
      <4>1. b \in 1 .. k /\ a \in 1 .. k /\ b \in a .. k
        BY <2>8, <3>3 DEF IsRun
      <4>2. IsRun(o, k, a, b)
        BY <2>8, <4>1 DEF IsRun
      <4>3. PICK j \in 1 .. Len(v) : v[j] = SubSeq(o, a, b)
        BY <4>1, <4>2 DEF RunsAt
      <4>4. j \in 1 .. Len(w)
        BY <1>2, <2>4
      <4> QED
        BY <2>4, <4>3, <4>4
    <3> QED
      BY <3>1, <3>2, <3>3
  <2>9. /\ Len(w) > 0 /\ k + 1 \in 1 .. k + 1 /\ k + 1 # 0
        /\ w[Len(w)] = SubSeq(o, k + 1, k + 1)
    BY <1>2, <2>3, <2>4
  <2>10. RunsAt(o, k + 1, w)
    BY <2>4, <2>5, <2>7, <2>8, <2>9 DEF RunsAt
  <2> QED
    BY <2>2, <2>10 DEF w
<1>5. CASE k > 0 /\ PayloadAt(o, k) = PayloadAt(o, k + 1)
  <2>1. PICK c \in 1 .. k : IsRun(o, k, c, k) /\ v[Len(v)] = SubSeq(o, c, k)
    BY <1>5 DEF RunsAt
  <2>2. /\ v # <<>> /\ Len(v) > 0 /\ Last(v) = SubSeq(o, c, k)
        /\ Last(Last(v)) = o[k]
    <3>1. Len(v) > 0
      BY <1>5 DEF RunsAt
    <3> QED
      BY <1>2, <1>3, <2>1, <3>1 DEF Last
  <2>3. ExtendRuns(v, row) = Append(Front(v), Append(Last(v), row))
    BY <1>5, <2>2 DEF ExtendRuns, PayloadAt
  <2>4. Append(Last(v), row) = SubSeq(o, c, k + 1) /\ SubSeq(o, c, k + 1) \in Seq(Row)
    <3>1. c \in 1 .. k + 1
      OBVIOUS
    <3> QED
      BY <1>1, <2>2, <3>1, PartGrows, PartFacts
  <2> DEFINE w == Append(Front(v), SubSeq(o, c, k + 1))
  <2>5. /\ Front(v) \in Seq(Seq(Row)) /\ Len(Front(v)) = Len(v) - 1
        /\ \A j \in 1 .. Len(v) - 1 : Front(v)[j] = v[j]
    <3>1. /\ 1 \in Int /\ Len(v) - 1 \in Nat
          /\ \A i \in 1 .. Len(v) - 1 : v[i] \in Seq(Row)
      BY <1>2, <2>2
    <3>2. PICK m \in Nat : m = Len(v) - 1
      BY <3>1
    <3>3. /\ SubSeq(v, 1, m) \in Seq(Seq(Row))
          /\ Len(SubSeq(v, 1, m)) = IF 1 <= m THEN m - 1 + 1 ELSE 0
          /\ \A i \in 1 .. m - 1 + 1 : SubSeq(v, 1, m)[i] = v[1 + i - 1]
      BY <3>1, <3>2, SubSeqProperties
    <3>4. Front(v) = SubSeq(v, 1, m)
      BY <3>2 DEF Front
    <3>5. m - 1 + 1 = m /\ (IF 1 <= m THEN m - 1 + 1 ELSE 0) = m
      BY <3>2
    <3>6. \A i \in 1 .. m : 1 + i - 1 = i
      BY <3>2
    <3>7. Len(Front(v)) = m /\ \A i \in 1 .. m : Front(v)[i] = v[i]
      BY <3>3, <3>4, <3>5, <3>6
    <3> QED
      BY <3>2, <3>3, <3>4, <3>7
  <2>6. /\ w \in Seq(Seq(Row)) /\ Len(w) = Len(v) /\ w[Len(v)] = SubSeq(o, c, k + 1)
        /\ \A j \in 1 .. Len(v) - 1 : w[j] = v[j]
    <3>1. PICK u : u = Front(v)
      OBVIOUS
    <3>2. PICK part : part = SubSeq(o, c, k + 1)
      OBVIOUS
    <3>3. w = Append(u, part)
      BY <3>1, <3>2
    <3>4. /\ u \in Seq(Seq(Row)) /\ Len(u) = Len(v) - 1 /\ part \in Seq(Row)
          /\ \A j \in 1 .. Len(v) - 1 : u[j] = v[j]
      BY <2>4, <2>5, <3>1, <3>2
    <3> HIDE DEF w
    <3>5. /\ w \in Seq(Seq(Row)) /\ Len(w) = Len(u) + 1 /\ w[Len(u) + 1] = part
          /\ \A j \in 1 .. Len(u) : w[j] = u[j]
      BY <3>3, <3>4, AppendProperties
    <3> QED
      BY <1>2, <2>2, <3>2, <3>4, <3>5
  <2> HIDE DEF w
  <2>7. IsRun(o, k + 1, c, k + 1)
    <3>1. ASSUME NEW i \in c .. k + 1 PROVE PayloadAt(o, i) = PayloadAt(o, c)
      <4>1. CASE i \in c .. k
        BY <2>1, <4>1 DEF IsRun
      <4>2. CASE i = k + 1
        <5>1. k \in c .. k
          OBVIOUS
        <5> QED
          BY <1>5, <2>1, <4>2, <5>1 DEF IsRun
      <4> QED
        BY <4>1, <4>2
    <3> QED
      BY <2>1, <3>1 DEF IsRun
  <2>8. ASSUME NEW a, NEW b, IsRun(o, k, a, b), b < k
        PROVE  IsRun(o, k + 1, a, b)
    BY <2>8 DEF IsRun
  <2>9. ASSUME NEW j \in 1 .. Len(w) - 1
        PROVE  \E a, b \in 1 .. k + 1 :
                    IsRun(o, k + 1, a, b) /\ b < k + 1 /\ w[j] = SubSeq(o, a, b)
    <3>1. j \in 1 .. Len(v) - 1
      BY <2>6
    <3>2. PICK a \in 1 .. k, b \in 1 .. k :
                IsRun(o, k, a, b) /\ b < k /\ v[j] = SubSeq(o, a, b)
      BY <3>1 DEF RunsAt
    <3>3. a \in 1 .. k + 1 /\ b \in 1 .. k + 1 /\ b < k + 1
      OBVIOUS
    <3> QED
      BY <2>6, <2>8, <3>1, <3>2, <3>3
  <2>10. ASSUME NEW a \in 1 .. k + 1, NEW b \in 1 .. k + 1, IsRun(o, k + 1, a, b)
         PROVE  \E j \in 1 .. Len(w) : w[j] = SubSeq(o, a, b)
    <3>1. b \in a .. k + 1
      BY <2>10 DEF IsRun
    <3>2. CASE b < k
      <4>1. a \in 1 .. k /\ b \in 1 .. k /\ b \in a .. k
        BY <3>1, <3>2
      <4>2. IsRun(o, k, a, b)
        BY <2>10, <3>2, <4>1 DEF IsRun
      <4>3. PICK j \in 1 .. Len(v) : v[j] = SubSeq(o, a, b)
        BY <4>1, <4>2 DEF RunsAt
      <4>4. j # Len(v)
        <5>1. SUFFICES ASSUME SubSeq(o, a, b) = SubSeq(o, c, k) PROVE FALSE
          BY <2>1, <4>3
        <5>2. b \in 1 .. Len(o) /\ a \in 1 .. b /\ k \in 1 .. Len(o)
          BY <1>1, <4>1
        <5>3. o[b] = o[k]
          BY <1>3, <5>1, <5>2, PartFacts
        <5> QED
          BY <3>2, <5>2, <5>3 DEF Different
      <4>5. j \in 1 .. Len(v) - 1 /\ j \in 1 .. Len(w)
        BY <1>2, <2>6, <4>4
      <4> QED
        BY <2>6, <4>3, <4>5
    <3>3. CASE b = k
      <4>1. PayloadAt(o, k + 1) # PayloadAt(o, a) /\ k \in a .. b
        BY <2>10, <3>1, <3>3 DEF IsRun
      <4>2. PayloadAt(o, k) = PayloadAt(o, a)
        BY <2>10, <4>1 DEF IsRun
      <4> QED
        BY <1>5, <4>1, <4>2
    <3>4. CASE b = k + 1
      <4>1. a = c
        <5>1. \A i \in a .. k + 1 : PayloadAt(o, i) = PayloadAt(o, a)
          BY <2>10, <3>4 DEF IsRun
        <5>2. \A i \in c .. k + 1 : PayloadAt(o, i) = PayloadAt(o, c)
          BY <2>7 DEF IsRun
        <5>3. PayloadAt(o, k + 1) = PayloadAt(o, a) /\ PayloadAt(o, k + 1) = PayloadAt(o, c)
          BY <5>1, <5>2, <3>1, <3>4
        <5>4. CASE a < c
          <6>1. c - 1 \in a .. k + 1 /\ c > 1
            BY <5>4
          <6>2. PayloadAt(o, c - 1) = PayloadAt(o, c)
            BY <5>1, <5>3, <6>1
          <6> QED
            BY <2>7, <6>1, <6>2 DEF IsRun
        <5>5. CASE c < a
          <6>1. a - 1 \in c .. k + 1 /\ a > 1
            BY <5>5
          <6>2. PayloadAt(o, a - 1) = PayloadAt(o, a)
            BY <5>2, <5>3, <6>1
          <6> QED
            BY <2>10, <6>1, <6>2 DEF IsRun
        <5> QED
          BY <5>4, <5>5
      <4>2. Len(v) \in 1 .. Len(w)
        BY <1>2, <2>2, <2>6
      <4> QED
        BY <2>6, <3>4, <4>1, <4>2
    <3> QED
      BY <3>1, <3>2, <3>3, <3>4
  <2>11. /\ Len(w) > 0 /\ c \in 1 .. k + 1 /\ k + 1 # 0
         /\ w[Len(w)] = SubSeq(o, c, k + 1)
    BY <2>2, <2>6
  <2>12. RunsAt(o, k + 1, w)
    BY <2>6, <2>7, <2>9, <2>10, <2>11 DEF RunsAt
  <2> QED
    BY <2>3, <2>4, <2>12 DEF w
<1> QED
  BY <1>4, <1>5

(* The runs of the whole sequence are its maximal parts with one payload.  *)
LEMMA RunsOf ==
    ASSUME NEW o \in Seq(Row), Different(o)
    PROVE  RunsAt(o, Len(o), FoldLeft(ExtendRuns, <<>>, o))
<1>1. Len(o) \in Nat /\ DOMAIN o = 1 .. Len(o)
  OBVIOUS
<1>2. PICK F : /\ F[0] = <<>>
               /\ \A k \in 0 .. Len(o) - 1 : F[k + 1] = ExtendRuns(F[k], o[k + 1])
               /\ F[Len(o)] = FoldLeft(ExtendRuns, <<>>, o)
  BY <1>1, RunsFold
<1> DEFINE P == {k \in Nat : k <= Len(o) => RunsAt(o, k, F[k])}
<1>3. 0 \in P
  <2>1. 1 .. 0 = {} /\ <<>> \in Seq(Seq(Row)) /\ Len(<<>>) = 0 /\ 1 .. 0 - 1 = {}
    OBVIOUS
  <2>2. RunsAt(o, 0, <<>>)
    BY <2>1 DEF RunsAt
  <2> QED
    BY <1>2, <2>2
<1>4. ASSUME NEW k \in P PROVE k + 1 \in P
  <2>1. SUFFICES ASSUME k + 1 <= Len(o) PROVE RunsAt(o, k + 1, F[k + 1])
    OBVIOUS
  <2>2. k \in 0 .. Len(o) - 1 /\ RunsAt(o, k, F[k])
    BY <1>1, <2>1
  <2> QED
    BY <1>2, <2>1, <2>2, RunsStep
<1>5. P = Nat
  <2> HIDE DEF P
  <2>1. P \in SUBSET Nat
    BY DEF P
  <2> QED
    BY <1>3, <1>4, <2>1, Induction
<1>6. RunsAt(o, Len(o), F[Len(o)])
  BY <1>1, <1>5
<1> QED
  BY <1>2, <1>6

-----------------------------------------------------------------------------
(* The rows of one source in order of their sequence numbers.              *)

SequenceOf(row) == row.event.source_sequence

Before(R, row) == {r \in R : SequenceOf(r) < SequenceOf(row)}

Sorted(R) ==
    [n \in 1 .. Cardinality(R) |->
        CHOOSE row \in R : Cardinality(Before(R, row)) = n - 1]

InOrder(o) ==
    \A i, j \in 1 .. Len(o) : i < j => SequenceOf(o[i]) < SequenceOf(o[j])

(* Rows whose sequence numbers differ.                                     *)
OneEach(R) == \A r, t \in R : SequenceOf(r) = SequenceOf(t) => r = t

(* A sequence number is a number.                                          *)
LEMMA RowFacts ==
    ASSUME NEW row \in Row
    PROVE  /\ row.ordinal \in Nat /\ row.event \in Event
           /\ SequenceOf(row) \in Nat
           /\ row.event.event_id \in EventIds /\ row.event.source_id \in Sources
           /\ row.event.source_sequence \in Nat /\ row.event.observed_at \in Nat
           /\ row.event.ingested_at \in Nat
  BY DEF Row, Event, SequenceOf

(* Counting the rows before each row numbers them 0, 1, ... without gaps.  *)
LEMMA BeforeRanks ==
    ASSUME NEW R \in SUBSET Row, IsFiniteSet(R), OneEach(R)
    PROVE  /\ Cardinality(R) \in Nat
           /\ \A n \in 1 .. Cardinality(R) :
                \E row \in R : Cardinality(Before(R, row)) = n - 1
           /\ \A r, t \in R : SequenceOf(r) < SequenceOf(t) =>
                Cardinality(Before(R, r)) < Cardinality(Before(R, t))
<1> DEFINE N == Cardinality(R)
           rank(r) == Cardinality(Before(R, r))
<1>1. N \in Nat
  BY FS_CardinalityType
<1>2. \A r \in R : SequenceOf(r) \in Nat
  BY RowFacts
<1>3. \A r \in R : /\ IsFiniteSet(Before(R, r)) /\ rank(r) \in Nat
                   /\ Before(R, r) \in SUBSET R /\ r \notin Before(R, r)
  <2> TAKE r \in R
  <2>1. Before(R, r) \in SUBSET R /\ r \notin Before(R, r)
    BY <1>2 DEF Before
  <2>2. IsFiniteSet(Before(R, r))
    BY <2>1, FS_Subset
  <2> QED
    BY <2>1, <2>2, FS_CardinalityType
<1>4. ASSUME NEW r \in R, NEW t \in R, SequenceOf(r) < SequenceOf(t)
      PROVE  rank(r) < rank(t)
  <2>1. Before(R, r) \in SUBSET Before(R, t) /\ r \in Before(R, t)
    BY <1>2, <1>4 DEF Before
  <2>2. rank(r) <= rank(t) /\ (rank(r) = rank(t) => Before(R, r) = Before(R, t))
    BY <1>3, <2>1, FS_Subset
  <2> QED
    BY <1>3, <2>1, <2>2
<1>5. \A r \in R : rank(r) + 1 \in 1 .. N
  <2> TAKE r \in R
  <2>1. rank(r) <= N /\ (rank(r) = N => Before(R, r) = R)
    BY <1>3, FS_Subset
  <2>2. rank(r) \in Nat /\ rank(r) # N
    BY <1>3, <2>1
  <2> HIDE DEF rank, N
  <2> QED
    BY <1>1, <2>1, <2>2
<1> DEFINE f == [r \in R |-> rank(r) + 1]
<1>6. f \in Injection(R, 1 .. N)
  <2>1. \A r, t \in R : rank(r) + 1 = rank(t) + 1 => r = t
    <3> TAKE r, t \in R
    <3> HAVE rank(r) + 1 = rank(t) + 1
    <3>1. rank(r) = rank(t) /\ rank(r) \in Nat
      BY <1>3
    <3>2. SequenceOf(r) = SequenceOf(t)
      BY <1>2, <1>4, <3>1
    <3> QED
      BY <3>2 DEF OneEach
  <2> HIDE DEF rank, N
  <2> QED
    BY <1>5, <2>1 DEF Injection, IsInjective
<1>7. f \in Surjection(R, 1 .. N)
  <2>1. IsFiniteSet(1 .. N) /\ Cardinality(1 .. N) = N
    BY <1>1, FS_Interval
  <2> HIDE DEF f
  <2> QED
    BY <1>6, <2>1, FS_Injection
<1>8. ASSUME NEW n \in 1 .. N PROVE \E r \in R : rank(r) = n - 1
  <2>1. PICK r \in R : rank(r) + 1 = n
    BY <1>7 DEF Surjection
  <2>2. rank(r) \in Nat
    BY <1>3
  <2> HIDE DEF rank
  <2> QED
    BY <2>1, <2>2
<1> QED
  BY <1>1, <1>4, <1>8

(* Sorting lists every row once, in order of the sequence numbers.         *)
LEMMA SortedRows ==
    ASSUME NEW R \in SUBSET Row, IsFiniteSet(R), OneEach(R)
    PROVE  /\ Sorted(R) \in Seq(Row) /\ Len(Sorted(R)) = Cardinality(R)
           /\ ToSet(Sorted(R)) = R /\ InOrder(Sorted(R))
<1> DEFINE o == Sorted(R)
           N == Cardinality(R)
           rank(r) == Cardinality(Before(R, r))
<1>1. N \in Nat /\ \A n \in 1 .. N : \E row \in R : rank(row) = n - 1
  BY BeforeRanks
<1>2. \A r, t \in R : SequenceOf(r) < SequenceOf(t) => rank(r) < rank(t)
  BY BeforeRanks
<1>3. o = [n \in 1 .. N |-> CHOOSE row \in R : rank(row) = n - 1]
  BY DEF Sorted
<1> HIDE DEF o, N, rank
<1>4. \A n \in 1 .. N : o[n] \in R /\ rank(o[n]) = n - 1
  BY <1>1, <1>3
<1>5. o \in [1 .. N -> Row]
  BY <1>3, <1>4
<1>6. o \in Seq(Row) /\ Len(o) = N /\ DOMAIN o = 1 .. N
  BY <1>1, <1>5
<1>7. ASSUME NEW r \in R, NEW t \in R, rank(r) = rank(t) PROVE r = t
  <2>1. SequenceOf(r) \in Nat /\ SequenceOf(t) \in Nat
    BY RowFacts
  <2>2. ~(rank(r) < rank(t)) /\ ~(rank(t) < rank(r))
    <3>1. rank(r) \in Nat
      <4>1. Before(R, r) \in SUBSET R
        BY DEF Before
      <4> QED
        BY <4>1, FS_Subset, FS_CardinalityType DEF rank
    <3> QED
      BY <1>7, <3>1
  <2> QED
    BY <1>2, <2>1, <2>2 DEF OneEach
<1>8. \A r \in R : \E n \in 1 .. N : o[n] = r
  <2> TAKE r \in R
  <2>1. Before(R, r) \in SUBSET R /\ r \notin Before(R, r)
    BY RowFacts DEF Before
  <2>2. IsFiniteSet(Before(R, r)) /\ rank(r) <= N /\ (rank(r) = N => Before(R, r) = R)
    BY <2>1, FS_Subset DEF rank, N
  <2>3. rank(r) \in Nat
    BY <2>2, FS_CardinalityType DEF rank
  <2>4. rank(r) + 1 \in 1 .. N /\ rank(r) + 1 - 1 = rank(r)
    BY <1>1, <2>1, <2>2, <2>3
  <2>5. PICK n \in 1 .. N : n = rank(r) + 1
    BY <2>4
  <2>6. o[n] \in R /\ rank(o[n]) = rank(r)
    <3>1. n - 1 = rank(r)
      BY <2>3, <2>5
    <3>2. o[n] \in R /\ rank(o[n]) = n - 1
      BY <1>4
    <3> QED
      BY <3>1, <3>2
  <2>7. o[n] = r
    BY <1>7, <2>6
  <2> QED
    BY <2>7
<1>9. ToSet(o) = R
  BY <1>4, <1>6, <1>8 DEF ToSet
<1>10. InOrder(o)
  <2> SUFFICES ASSUME NEW i \in 1 .. N, NEW j \in 1 .. N, i < j
               PROVE  SequenceOf(o[i]) < SequenceOf(o[j])
    BY <1>6 DEF InOrder
  <2>1. /\ o[i] \in R /\ o[j] \in R /\ rank(o[i]) = i - 1 /\ rank(o[j]) = j - 1
        /\ i \in Int /\ j \in Int
    BY <1>4
  <2>2. SequenceOf(o[i]) \in Nat /\ SequenceOf(o[j]) \in Nat
    BY <2>1, RowFacts
  <2>3. ~(SequenceOf(o[j]) < SequenceOf(o[i]))
    BY <1>2, <2>1
  <2>4. SequenceOf(o[i]) # SequenceOf(o[j])
    BY <2>1 DEF OneEach
  <2> QED
    BY <2>2, <2>3, <2>4
<1> QED
  BY <1>6, <1>9, <1>10 DEF o, N

-----------------------------------------------------------------------------
(* The gaps, the regressions and the frozen runs of a list of rows.        *)

(* The positions between two neighbours, over all neighbours, are the ones *)
(* between the first and the last row that no row has; none is counted     *)
(* twice.                                                                  *)
LEMMA GapsOf ==
    ASSUME NEW o \in Seq(Row), InOrder(o), Len(o) > 0, NEW Q,
           Q = {SequenceOf(row) : row \in ToSet(o)}
    PROVE  /\ UNION {f.evidence[1] .. f.evidence[2] : f \in GapFindings(o)} =
                (Min(Q) .. Max(Q)) \ Q
           /\ \A f, g \in GapFindings(o) : f # g =>
                (f.evidence[1] .. f.evidence[2])
                    \intersect (g.evidence[1] .. g.evidence[2]) = {}
<1> DEFINE n == Len(o)
           q(i) == SequenceOf(o[i])
           gap(i) == Finding("source_sequence_gap", <<o[i], o[i + 1]>>,
                             <<q(i) + 1, q(i + 1) - 1>>)
           I == {i \in 1 .. n - 1 : q(i + 1) > q(i) + 1}
<1>1. GapFindings(o) = {gap(i) : i \in I}
  BY DEF GapFindings, SequenceOf
<1>2. \A i : gap(i).evidence[1] = q(i) + 1 /\ gap(i).evidence[2] = q(i + 1) - 1
  BY DEF Finding
<1>3. /\ n \in Nat /\ n > 0 /\ \A i \in 1 .. n : q(i) \in Nat
      /\ \A i \in 1 .. n - 1 : i \in 1 .. n /\ i + 1 \in 1 .. n
      /\ 1 \in 1 .. n /\ n \in 1 .. n
  <2>1. \A i \in 1 .. n : o[i] \in Row
    OBVIOUS
  <2> QED
    BY <2>1, RowFacts
<1>4. \A i, j \in 1 .. n : i < j => q(i) < q(j)
  BY DEF InOrder
<1>5. (\A i \in 1 .. n : q(i) \in Q) /\ \A y \in Q : \E i \in 1 .. n : y = q(i)
  <2>1. DOMAIN o = 1 .. n
    OBVIOUS
  <2> QED
    BY <2>1 DEF ToSet
<1> HIDE DEF q, gap, n
<1>6. \A i, j \in 1 .. n : i <= j => q(i) <= q(j)
  BY <1>3, <1>4
<1>7. Min(Q) = q(1)
  <2>1. \A y \in Q : y \in Nat
    BY <1>3, <1>5
  <2>2. PICK x \in Nat : x = q(1)
    BY <1>3
  <2>3. x \in Q /\ \A y \in Q : x <= y
    BY <1>3, <1>5, <1>6, <2>2
  <2>4. Min(Q) \in Q /\ \A y \in Q : Min(Q) <= y
    BY <2>3 DEF Min
  <2>5. PICK z \in Nat : z = Min(Q)
    BY <2>1, <2>4
  <2>6. x <= z /\ z <= x
    BY <2>3, <2>4, <2>5
  <2>7. x = z
    BY <2>6
  <2> QED
    BY <2>2, <2>5, <2>7
<1>8. Max(Q) = q(n)
  <2>1. \A y \in Q : y \in Nat
    BY <1>3, <1>5
  <2>2. PICK x \in Nat : x = q(n)
    BY <1>3
  <2>3. x \in Q /\ \A y \in Q : x >= y
    BY <1>3, <1>5, <1>6, <2>2
  <2>4. Max(Q) \in Q /\ \A y \in Q : Max(Q) >= y
    BY <2>3 DEF Max
  <2>5. PICK z \in Nat : z = Max(Q)
    BY <2>1, <2>4
  <2>6. x >= z /\ z >= x
    BY <2>3, <2>4, <2>5
  <2>7. x = z
    BY <2>6
  <2> QED
    BY <2>2, <2>5, <2>7
<1>9. ASSUME NEW i \in I, NEW m \in q(i) + 1 .. q(i + 1) - 1
      PROVE  m \in (q(1) .. q(n)) \ Q
  <2>1. /\ i \in 1 .. n /\ i + 1 \in 1 .. n /\ q(i) \in Nat /\ q(i + 1) \in Nat
        /\ q(1) \in Nat /\ q(n) \in Nat
    BY <1>3
  <2>2. q(1) <= q(i) /\ q(i + 1) <= q(n)
    BY <1>3, <1>6, <2>1
  <2>3. m \in Int /\ q(i) < m /\ m < q(i + 1)
    BY <2>1
  <2>4. ASSUME NEW j \in 1 .. n PROVE q(j) # m
    <3>1. j <= i \/ i + 1 <= j
      BY <2>1
    <3>2. q(j) <= q(i) \/ q(i + 1) <= q(j)
      BY <1>6, <2>1, <3>1
    <3> QED
      BY <1>3, <2>1, <2>3, <3>2
  <2>5. m \in q(1) .. q(n)
    BY <2>1, <2>2, <2>3
  <2>6. m \notin Q
    BY <1>5, <2>4
  <2> QED
    BY <2>5, <2>6
<1>10. ASSUME NEW m \in (q(1) .. q(n)) \ Q
       PROVE  \E i \in I : m \in q(i) + 1 .. q(i + 1) - 1
  <2> DEFINE S == {i \in 1 .. n : q(i) < m}
  <2>1. /\ q(1) \in Nat /\ q(n) \in Nat /\ m \in Nat /\ q(1) <= m /\ m <= q(n)
        /\ \A i \in 1 .. n : q(i) # m
    <3>1. q(1) \in Nat /\ q(n) \in Nat /\ m \in q(1) .. q(n)
      BY <1>3
    <3>2. \A i \in 1 .. n : q(i) # m
      BY <1>5
    <3> QED
      BY <3>1, <3>2
  <2>2. S \in SUBSET (1 .. n) /\ 1 \in S /\ n \notin S
    BY <1>3, <2>1
  <2>3. Max(S) \in S /\ \A x \in S : x <= Max(S)
    <3>1. S # {}
      BY <2>2
    <3> HIDE DEF S
    <3> QED
      BY <1>3, <2>2, <3>1, MaxIn
  <2>4. PICK i \in S : \A x \in S : x <= i
    BY <2>3
  <2>5. i \in 1 .. n - 1 /\ q(i) < m
    <3>1. i \in 1 .. n /\ i # n /\ q(i) < m
      BY <2>2
    <3> QED
      BY <1>3, <3>1
  <2>6. i + 1 \notin S
    BY <2>4, <2>5
  <2>7. i + 1 \in 1 .. n /\ q(i + 1) \in Nat /\ q(i) \in Nat
    BY <1>3, <2>5
  <2>8. m < q(i + 1)
    BY <2>1, <2>6, <2>7
  <2>9. i \in I /\ m \in q(i) + 1 .. q(i + 1) - 1
    BY <2>1, <2>5, <2>7, <2>8
  <2> QED
    BY <2>9
<1> DEFINE span(i) == q(i) + 1 .. q(i + 1) - 1
<1>11. \A f \in GapFindings(o) : \E i \in I :
            f = gap(i) /\ f.evidence[1] .. f.evidence[2] = span(i)
  BY <1>1, <1>2
<1>12. \A i \in I : \E f \in GapFindings(o) :
            f = gap(i) /\ f.evidence[1] .. f.evidence[2] = span(i)
  BY <1>1, <1>2
<1>13. UNION {f.evidence[1] .. f.evidence[2] : f \in GapFindings(o)} =
            (q(1) .. q(n)) \ Q
  <2>1. \A i \in I : \A m \in span(i) : m \in (q(1) .. q(n)) \ Q
    BY <1>9
  <2>2. \A m \in (q(1) .. q(n)) \ Q : \E i \in I : m \in span(i)
    BY <1>10
  <2> HIDE DEF span, I
  <2> DEFINE L == UNION {f.evidence[1] .. f.evidence[2] : f \in GapFindings(o)}
             M == (q(1) .. q(n)) \ Q
  <2>3. ASSUME NEW m \in L PROVE m \in M
    <3>1. PICK f \in GapFindings(o) : m \in f.evidence[1] .. f.evidence[2]
      OBVIOUS
    <3>2. PICK i \in I : f.evidence[1] .. f.evidence[2] = span(i)
      BY <1>11
    <3> QED
      BY <2>1, <3>1, <3>2
  <2>4. ASSUME NEW m \in M PROVE m \in L
    <3>1. PICK i \in I : m \in span(i)
      BY <2>2
    <3>2. PICK f \in GapFindings(o) : f.evidence[1] .. f.evidence[2] = span(i)
      BY <1>12
    <3> QED
      BY <3>1, <3>2
  <2> HIDE DEF L, M
  <2>5. L = M
    BY <2>3, <2>4
  <2> QED
    BY <2>5 DEF L, M
<1>14. ASSUME NEW f \in GapFindings(o), NEW g \in GapFindings(o), f # g
       PROVE  (f.evidence[1] .. f.evidence[2])
                \intersect (g.evidence[1] .. g.evidence[2]) = {}
  <2>1. PICK i \in I : f = gap(i) /\ f.evidence[1] .. f.evidence[2] = span(i)
    BY <1>11
  <2>2. PICK j \in I : g = gap(j) /\ g.evidence[1] .. g.evidence[2] = span(j)
    BY <1>11
  <2>3. /\ i \in 1 .. n /\ i + 1 \in 1 .. n /\ j \in 1 .. n /\ j + 1 \in 1 .. n
        /\ q(i) \in Nat /\ q(j) \in Nat /\ q(i + 1) \in Nat /\ q(j + 1) \in Nat
    BY <1>3
  <2>4. i # j
    BY <1>14, <2>1, <2>2
  <2>5. q(i + 1) <= q(j) \/ q(j + 1) <= q(i)
    <3>1. i + 1 <= j \/ j + 1 <= i
      BY <2>3, <2>4
    <3> QED
      BY <1>6, <2>3, <3>1
  <2>6. span(i) \intersect span(j) = {}
    BY <2>3, <2>5
  <2> QED
    BY <2>1, <2>2, <2>6
<1> QED
  BY <1>7, <1>8, <1>13, <1>14

(* The rows of o from a to b.                                              *)
Slice(o, a, b) == {o[i] : i \in a .. b}

Between(a, b, c) ==
    /\ a.event.source_sequence < b.event.source_sequence
    /\ b.event.source_sequence < c.event.source_sequence

(* One payload, and no other row of R in between.                          *)
Uniform(R, X) ==
    /\ \A a, c \in X : a.event.payload = c.event.payload
    /\ \A a, c \in X, b \in R : Between(a, b, c) => b \in X

Maximal(R, X) == Uniform(R, X) /\ \A b \in R \ X : ~Uniform(R, X \union {b})

(* Positions and sequence numbers say the same of rows in order.           *)
LEMMA OrderFacts ==
    ASSUME NEW o \in Seq(Row), InOrder(o)
    PROVE  /\ Len(o) \in Nat /\ Different(o)
           /\ \A r \in ToSet(o) : \E i \in 1 .. Len(o) : r = o[i]
           /\ \A i \in 1 .. Len(o) : o[i] \in ToSet(o)
           /\ \A i, j, k \in 1 .. Len(o) :
                Between(o[i], o[j], o[k]) <=> i < j /\ j < k
<1>1. Len(o) \in Nat /\ DOMAIN o = 1 .. Len(o)
  OBVIOUS
<1>2. \A i \in 1 .. Len(o) : SequenceOf(o[i]) \in Nat
  BY <1>1, RowFacts
<1>3. ASSUME NEW i \in 1 .. Len(o), NEW j \in 1 .. Len(o)
      PROVE  /\ SequenceOf(o[i]) < SequenceOf(o[j]) <=> i < j
             /\ o[i] = o[j] => i = j
  <2>1. i < j => SequenceOf(o[i]) < SequenceOf(o[j])
    BY DEF InOrder
  <2>2. j < i => SequenceOf(o[j]) < SequenceOf(o[i])
    BY DEF InOrder
  <2>3. i < j \/ j < i \/ i = j
    OBVIOUS
  <2> QED
    BY <1>2, <2>1, <2>2, <2>3
<1>4. \A i, j, k \in 1 .. Len(o) : Between(o[i], o[j], o[k]) <=> i < j /\ j < k
  BY <1>3 DEF Between, SequenceOf
<1> QED
  BY <1>1, <1>3, <1>4 DEF Different, ToSet

(* Neighbouring rows of one payload are uniform.                           *)
LEMMA SliceUniform ==
    ASSUME NEW o \in Seq(Row), InOrder(o), NEW a \in 1 .. Len(o), NEW b \in a .. Len(o),
           \A i \in a .. b : PayloadAt(o, i) = PayloadAt(o, a)
    PROVE  Uniform(ToSet(o), Slice(o, a, b))
<1>1. /\ Len(o) \in Nat
      /\ \A r \in ToSet(o) : \E i \in 1 .. Len(o) : r = o[i]
      /\ \A i, j, k \in 1 .. Len(o) : Between(o[i], o[j], o[k]) <=> i < j /\ j < k
  BY OrderFacts
<1>2. \A r \in Slice(o, a, b) : \E i \in a .. b : r = o[i]
  BY DEF Slice
<1>3. \A i \in a .. b : i \in 1 .. Len(o)
  OBVIOUS
<1>4. ASSUME NEW r \in Slice(o, a, b), NEW t \in Slice(o, a, b)
      PROVE  r.event.payload = t.event.payload
  BY <1>2 DEF PayloadAt
<1>5. ASSUME NEW r \in Slice(o, a, b), NEW t \in Slice(o, a, b), NEW c \in ToSet(o),
             Between(r, c, t)
      PROVE  c \in Slice(o, a, b)
  <2>1. PICK i \in a .. b, k \in a .. b, j \in 1 .. Len(o) : r = o[i] /\ t = o[k] /\ c = o[j]
    BY <1>1, <1>2
  <2>2. i < j /\ j < k
    BY <1>1, <1>3, <1>5, <2>1
  <2>3. j \in a .. b
    BY <2>2
  <2> QED
    BY <2>1, <2>3 DEF Slice
<1> QED
  BY <1>4, <1>5 DEF Uniform

(* Uniform rows are neighbours.                                            *)
LEMMA UniformSlice ==
    ASSUME NEW o \in Seq(Row), InOrder(o), NEW X \in SUBSET ToSet(o), X # {},
           Uniform(ToSet(o), X)
    PROVE  \E a \in 1 .. Len(o) : \E b \in a .. Len(o) : X = Slice(o, a, b)
<1>1. /\ Len(o) \in Nat /\ Different(o)
      /\ \A r \in ToSet(o) : \E i \in 1 .. Len(o) : r = o[i]
      /\ \A i \in 1 .. Len(o) : o[i] \in ToSet(o)
      /\ \A i, j, k \in 1 .. Len(o) : Between(o[i], o[j], o[k]) <=> i < j /\ j < k
  BY OrderFacts
<1> DEFINE I == {i \in 1 .. Len(o) : o[i] \in X}
<1>2. I \in SUBSET (1 .. Len(o)) /\ I \in SUBSET Nat /\ I # {}
  BY <1>1
<1>3. \A i \in 1 .. Len(o) : i \in I <=> o[i] \in X
  OBVIOUS
<1> HIDE DEF I
<1>4. PICK a \in I : \A i \in I : a <= i
  BY <1>2, LeastIn
<1>5. PICK b \in I : \A i \in I : i <= b
  BY <1>1, <1>2, MaxIn
<1>6. a \in 1 .. Len(o) /\ b \in a .. Len(o)
  BY <1>1, <1>2, <1>4, <1>5
<1>7. ASSUME NEW i \in a .. b PROVE i \in I
  <2>1. i \in 1 .. Len(o) /\ a \in 1 .. Len(o) /\ b \in 1 .. Len(o)
    BY <1>6
  <2>2. CASE i # a /\ i # b
    <3>1. Between(o[a], o[i], o[b])
      BY <1>1, <2>1, <2>2
    <3> QED
      BY <1>1, <1>3, <2>1, <3>1 DEF Uniform
  <2> QED
    BY <2>2
<1>8. ASSUME NEW r \in X PROVE r \in Slice(o, a, b)
  <2>1. PICK i \in 1 .. Len(o) : r = o[i]
    BY <1>1
  <2>2. i \in a .. b
    BY <1>3, <1>4, <1>5, <1>6, <2>1
  <2> QED
    BY <2>1, <2>2 DEF Slice
<1>9. ASSUME NEW r \in Slice(o, a, b) PROVE r \in X
  <2>1. PICK i \in a .. b : r = o[i]
    BY DEF Slice
  <2>2. i \in 1 .. Len(o) /\ i \in I
    BY <1>6, <1>7
  <2> QED
    BY <1>3, <2>1, <2>2
<1>10. X = Slice(o, a, b)
  BY <1>8, <1>9
<1> QED
  BY <1>6, <1>10

(* The maximal uniform sets are the runs.                                  *)
LEMMA MaximalSlice ==
    ASSUME NEW o \in Seq(Row), InOrder(o), NEW a \in 1 .. Len(o), NEW b \in a .. Len(o)
    PROVE  Maximal(ToSet(o), Slice(o, a, b)) <=> IsRun(o, Len(o), a, b)
<1> DEFINE R == ToSet(o)
           X == Slice(o, a, b)
           n == Len(o)
<1>1. /\ n \in Nat /\ Different(o)
      /\ \A r \in R : \E i \in 1 .. n : r = o[i]
      /\ \A i \in 1 .. n : o[i] \in R
      /\ \A i, j, k \in 1 .. n : Between(o[i], o[j], o[k]) <=> i < j /\ j < k
  BY OrderFacts
<1>2. /\ a \in a .. b /\ b \in a .. b /\ a \in 1 .. n /\ b \in 1 .. n
      /\ \A i \in a .. b : i \in 1 .. n
  OBVIOUS
<1>3. \A i \in 1 .. n : o[i] \in X <=> i \in a .. b
  BY <1>1, <1>2 DEF Slice, Different
<1>4. ASSUME Maximal(R, X) PROVE IsRun(o, n, a, b)
  <2>1. \A i \in a .. b : PayloadAt(o, i) = PayloadAt(o, a)
    BY <1>2, <1>3, <1>4 DEF Maximal, Uniform, PayloadAt
  <2>2. ASSUME a > 1, PayloadAt(o, a - 1) = PayloadAt(o, a) PROVE FALSE
    <3>1. /\ a - 1 \in 1 .. n /\ b \in a - 1 .. n /\ a - 1 \notin a .. b
          /\ \A i \in a - 1 .. b : i = a - 1 \/ i \in a .. b
      BY <1>1, <1>2, <2>2
    <3>2. \A i \in a - 1 .. b : PayloadAt(o, i) = PayloadAt(o, a - 1)
      BY <2>1, <2>2, <3>1
    <3>3. Uniform(R, Slice(o, a - 1, b))
      BY <3>1, <3>2, SliceUniform
    <3>4. Slice(o, a - 1, b) = X \union {o[a - 1]}
      <4>1. \A i \in a .. b : i \in a - 1 .. b
        OBVIOUS
      <4>2. a - 1 \in a - 1 .. b
        BY <3>1
      <4> QED
        BY <3>1, <4>1, <4>2 DEF Slice
    <3>5. o[a - 1] \in R \ X
      BY <1>1, <1>3, <3>1
    <3> QED
      BY <1>4, <3>3, <3>4, <3>5 DEF Maximal
  <2>3. ASSUME b < n, PayloadAt(o, b + 1) = PayloadAt(o, a) PROVE FALSE
    <3>1. /\ b + 1 \in 1 .. n /\ b + 1 \in a .. n /\ b + 1 \notin a .. b
          /\ \A i \in a .. b + 1 : i = b + 1 \/ i \in a .. b
      BY <1>1, <1>2, <2>3
    <3>2. \A i \in a .. b + 1 : PayloadAt(o, i) = PayloadAt(o, a)
      BY <2>1, <2>3, <3>1
    <3>3. Uniform(R, Slice(o, a, b + 1))
      BY <3>1, <3>2, SliceUniform
    <3>4. Slice(o, a, b + 1) = X \union {o[b + 1]}
      <4>1. \A i \in a .. b : i \in a .. b + 1
        OBVIOUS
      <4>2. b + 1 \in a .. b + 1
        BY <3>1
      <4> QED
        BY <3>1, <4>1, <4>2 DEF Slice
    <3>5. o[b + 1] \in R \ X
      BY <1>1, <1>3, <3>1
    <3> QED
      BY <1>4, <3>3, <3>4, <3>5 DEF Maximal
  <2> QED
    BY <1>2, <2>1, <2>2, <2>3 DEF IsRun
<1>5. ASSUME IsRun(o, n, a, b) PROVE Maximal(R, X)
  <2>1. Uniform(R, X)
    <3>1. \A i \in a .. b : PayloadAt(o, i) = PayloadAt(o, a)
      BY <1>5 DEF IsRun
    <3> QED
      BY <3>1, SliceUniform
  <2>2. ASSUME NEW r \in R \ X, Uniform(R, X \union {r}) PROVE FALSE
    <3> DEFINE Y == X \union {r}
    <3>1. PICK m \in 1 .. n : r = o[m]
      BY <1>1
    <3>2. m \notin a .. b
      BY <1>3, <3>1
    <3>3. o[a] \in Y /\ o[b] \in Y /\ o[m] \in Y /\ o[a] \in X
      BY <1>2, <1>3, <3>1
    <3>4. \A i, j, k \in 1 .. n : o[i] \in Y /\ o[k] \in Y /\ i < j /\ j < k => o[j] \in Y
      BY <1>1, <2>2 DEF Uniform
    <3>5. \A i, k \in 1 .. n : o[i] \in Y /\ o[k] \in Y => PayloadAt(o, i) = PayloadAt(o, k)
      BY <2>2 DEF Uniform, PayloadAt
    <3> HIDE DEF Y
    <3>6. CASE m < a
      <4>1. a - 1 \in 1 .. n /\ a > 1 /\ (a - 1 = m \/ m < a - 1) /\ a - 1 < a
        BY <1>1, <3>6
      <4>2. o[a - 1] \in Y
        BY <1>2, <3>3, <3>4, <4>1
      <4>3. PayloadAt(o, a - 1) = PayloadAt(o, a)
        BY <1>2, <3>3, <3>5, <4>1, <4>2
      <4> QED
        BY <1>5, <4>1, <4>3 DEF IsRun
    <3>7. CASE b < m
      <4>1. b + 1 \in 1 .. n /\ b < n /\ (b + 1 = m \/ b + 1 < m) /\ b < b + 1
        BY <1>1, <3>7
      <4>2. o[b + 1] \in Y
        BY <1>2, <3>3, <3>4, <4>1
      <4>3. PayloadAt(o, b + 1) = PayloadAt(o, a)
        BY <1>2, <3>3, <3>5, <4>1, <4>2
      <4> QED
        BY <1>5, <4>1, <4>3 DEF IsRun
    <3> QED
      BY <1>2, <3>2, <3>6, <3>7
  <2> QED
    BY <2>1, <2>2 DEF Maximal
<1> QED
  BY <1>4, <1>5

(* A slice has as many rows as positions.                                  *)
LEMMA SliceSize ==
    ASSUME NEW o \in Seq(Row), Different(o), NEW a \in 1 .. Len(o), NEW b \in a .. Len(o)
    PROVE  Cardinality(Slice(o, a, b)) = b - a + 1
<1> DEFINE f == [i \in a .. b |-> o[i]]
<1>1. a \in Int /\ b \in Int /\ a <= b /\ \A i \in a .. b : i \in 1 .. Len(o)
  OBVIOUS
<1>2. f \in Bijection(a .. b, Slice(o, a, b))
  <2>1. \A i \in a .. b : f[i] = o[i] /\ o[i] \in Slice(o, a, b)
    BY DEF Slice
  <2>2. \A r \in Slice(o, a, b) : \E i \in a .. b : f[i] = r
    BY DEF Slice
  <2>3. \A i, j \in a .. b : f[i] = f[j] => i = j
    BY <1>1 DEF Different
  <2>4. f \in [a .. b -> Slice(o, a, b)]
    BY <2>1
  <2> HIDE DEF f
  <2> QED
    BY <2>2, <2>3, <2>4 DEF Bijection, Injection, Surjection, IsInjective
<1>3. IsFiniteSet(a .. b) /\ Cardinality(a .. b) = b - a + 1
  BY <1>1, FS_Interval
<1>4. ExistsBijection(a .. b, Slice(o, a, b))
  BY <1>2 DEF ExistsBijection
<1> QED
  BY <1>3, <1>4, FS_Bijection

(* The frozen runs are the maximal uniform sets that are long enough.      *)
LEMMA FrozenOf ==
    ASSUME NEW o \in Seq(Row), InOrder(o)
    PROVE  /\ {ToSet(f.support) : f \in FrozenFindings(o)} =
                {X \in SUBSET ToSet(o) :
                    Cardinality(X) >= FrozenRunLength /\ Maximal(ToSet(o), X)}
           /\ \A f \in FrozenFindings(o) :
                Len(f.support) > 0 /\ f.support[1] \in ToSet(o)
<1> DEFINE n == Len(o)
           v == FoldLeft(ExtendRuns, <<>>, o)
           Long == {run \in ToSet(v) : Len(run) >= FrozenRunLength}
           F == FrozenFindings(o)
<1>1. /\ n \in Nat /\ Different(o)
      /\ \A i \in 1 .. n : o[i] \in ToSet(o)
  BY OrderFacts
<1>2. /\ v \in Seq(Seq(Row)) /\ RunsAt(o, n, v)
      /\ DOMAIN v = 1 .. Len(v) /\ Len(v) \in Nat
  <2>1. RunsAt(o, n, v)
    BY <1>1, RunsOf
  <2> HIDE DEF v
  <2>2. v \in Seq(Seq(Row))
    BY <2>1 DEF RunsAt
  <2> QED
    BY <2>1, <2>2
<1>3. FrozenRunLength \in Nat /\ FrozenRunLength >= 2
  BY PolicyAssumption
<1>4. F = {Finding("repeated_payload_run", run, <<Len(run)>>) : run \in Long}
  BY DEF FrozenFindings
<1> HIDE DEF v, F
<1>5. ASSUME NEW run \in Long
      PROVE  \E a \in 1 .. n : \E b \in a .. n :
                IsRun(o, n, a, b) /\ run = SubSeq(o, a, b)
  <2>1. PICK j \in 1 .. Len(v) : run = v[j]
    BY <1>2 DEF ToSet
  <2>2. CASE j = Len(v)
    <3>1. n > 0
      BY <1>2, <2>1 DEF RunsAt
    <3>2. PICK a \in 1 .. n : IsRun(o, n, a, n) /\ v[Len(v)] = SubSeq(o, a, n)
      BY <1>2, <3>1 DEF RunsAt
    <3>3. n \in a .. n
      BY <1>1
    <3> QED
      BY <2>1, <2>2, <3>2, <3>3
  <2>3. CASE j # Len(v)
    <3>1. j \in 1 .. Len(v) - 1
      <4>1. PICK m \in Nat : m = Len(v)
        BY <1>2
      <4>2. j \in 1 .. m /\ j # m
        BY <2>3, <4>1
      <4>3. j \in 1 .. m - 1
        BY <4>2
      <4> QED
        BY <4>1, <4>3
    <3>2. PICK a \in 1 .. n, b \in 1 .. n : IsRun(o, n, a, b) /\ v[j] = SubSeq(o, a, b)
      BY <1>2, <3>1 DEF RunsAt
    <3>3. b \in a .. n
      BY <3>2 DEF IsRun
    <3> QED
      BY <2>1, <3>2, <3>3
  <2> QED
    BY <2>2, <2>3
<1>6. ASSUME NEW a \in 1 .. n, NEW b \in a .. n
      PROVE  /\ ToSet(SubSeq(o, a, b)) = Slice(o, a, b)
             /\ Len(SubSeq(o, a, b)) = b - a + 1
             /\ Cardinality(Slice(o, a, b)) = b - a + 1
             /\ Slice(o, a, b) \in SUBSET ToSet(o)
             /\ SubSeq(o, a, b)[1] = o[a]
  <2>1. b \in 1 .. Len(o) /\ a \in 1 .. b /\ a \in a .. b /\ 1 \in 1 .. b - a + 1
        /\ a + 1 - 1 = a /\ \A i \in a .. b : i \in 1 .. n
    BY <1>1
  <2>2. /\ Len(SubSeq(o, a, b)) = b - a + 1
        /\ \A i \in 1 .. b - a + 1 : SubSeq(o, a, b)[i] = o[a + i - 1]
        /\ ToSet(SubSeq(o, a, b)) = Slice(o, a, b)
    BY <2>1, PartFacts DEF Slice
  <2>3. SubSeq(o, a, b)[1] = o[a]
    BY <2>1, <2>2
  <2> QED
    BY <1>1, <2>1, <2>2, <2>3, SliceSize DEF Slice
<1>7. ASSUME NEW f \in F
      PROVE  \E a \in 1 .. n : \E b \in a .. n :
                /\ IsRun(o, n, a, b) /\ f.support = SubSeq(o, a, b)
                /\ b - a + 1 >= FrozenRunLength
  <2>1. PICK run \in Long : f.support = run /\ Len(run) >= FrozenRunLength
    BY <1>4 DEF Finding
  <2>2. PICK a \in 1 .. n : \E b \in a .. n :
            IsRun(o, n, a, b) /\ run = SubSeq(o, a, b)
    BY <1>5
  <2>3. PICK b \in a .. n : IsRun(o, n, a, b) /\ run = SubSeq(o, a, b)
    BY <2>2
  <2>4. Len(run) = b - a + 1
    BY <1>6, <2>3
  <2> QED
    BY <2>1, <2>3, <2>4
<1>8. ASSUME NEW a \in 1 .. n, NEW b \in a .. n, IsRun(o, n, a, b),
             b - a + 1 >= FrozenRunLength
      PROVE  \E f \in F : f.support = SubSeq(o, a, b)
  <2>1. b \in 1 .. n
    BY <1>1
  <2>2. PICK j \in 1 .. Len(v) : v[j] = SubSeq(o, a, b)
    BY <1>2, <1>8, <2>1 DEF RunsAt
  <2>3. SubSeq(o, a, b) \in ToSet(v)
    BY <1>2, <2>2 DEF ToSet
  <2>4. SubSeq(o, a, b) \in Long
    BY <1>6, <1>8, <2>3
  <2>5. PICK run \in Long : run = SubSeq(o, a, b)
    BY <2>4
  <2> HIDE DEF Long
  <2>6. Finding("repeated_payload_run", run, <<Len(run)>>) \in F
    BY <1>4
  <2>7. Finding("repeated_payload_run", run, <<Len(run)>>).support = run
    BY DEF Finding
  <2> QED
    BY <2>5, <2>6, <2>7
<1> DEFINE L == {ToSet(f.support) : f \in F}
           M == {X \in SUBSET ToSet(o) :
                    Cardinality(X) >= FrozenRunLength /\ Maximal(ToSet(o), X)}
<1>9. ASSUME NEW X \in L PROVE X \in M
  <2>1. PICK f \in F : X = ToSet(f.support)
    OBVIOUS
  <2>2. PICK a \in 1 .. n : \E b \in a .. n :
            /\ IsRun(o, n, a, b) /\ f.support = SubSeq(o, a, b)
            /\ b - a + 1 >= FrozenRunLength
    BY <1>7
  <2>3. PICK b \in a .. n :
            /\ IsRun(o, n, a, b) /\ f.support = SubSeq(o, a, b)
            /\ b - a + 1 >= FrozenRunLength
    BY <2>2
  <2>4. X = Slice(o, a, b) /\ Cardinality(X) = b - a + 1 /\ X \in SUBSET ToSet(o)
    BY <1>6, <2>1, <2>3
  <2>5. Maximal(ToSet(o), X)
    BY <2>3, <2>4, MaximalSlice
  <2> QED
    BY <2>3, <2>4, <2>5
<1>10. ASSUME NEW X \in M PROVE X \in L
  <2>1. X \in SUBSET ToSet(o) /\ Cardinality(X) >= FrozenRunLength
        /\ Maximal(ToSet(o), X) /\ Uniform(ToSet(o), X)
    BY DEF Maximal
  <2>2. X # {}
    <3>1. Cardinality({}) = 0
      BY FS_EmptySet
    <3>2. Cardinality(X) # 0
      BY <1>3, <2>1
    <3> QED
      BY <3>1, <3>2
  <2>3. PICK a \in 1 .. n : \E b \in a .. n : X = Slice(o, a, b)
    BY <2>1, <2>2, UniformSlice
  <2>4. PICK b \in a .. n : X = Slice(o, a, b)
    BY <2>3
  <2>5. IsRun(o, n, a, b)
    BY <2>1, <2>4, MaximalSlice
  <2>6. b - a + 1 >= FrozenRunLength
    BY <1>6, <2>1, <2>4
  <2>7. PICK f \in F : f.support = SubSeq(o, a, b)
    BY <1>8, <2>5, <2>6
  <2>8. X = ToSet(f.support)
    BY <1>6, <2>4, <2>7
  <2> QED
    BY <2>8
<1>11. L = M
  <2> HIDE DEF L, M
  <2> QED
    BY <1>9, <1>10
<1>12. ASSUME NEW f \in F PROVE Len(f.support) > 0 /\ f.support[1] \in ToSet(o)
  <2>1. PICK a \in 1 .. n : \E b \in a .. n :
            f.support = SubSeq(o, a, b) /\ b - a + 1 >= FrozenRunLength
    BY <1>7
  <2>2. PICK b \in a .. n :
            f.support = SubSeq(o, a, b) /\ b - a + 1 >= FrozenRunLength
    BY <2>1
  <2>3. Len(f.support) = b - a + 1 /\ f.support[1] = o[a]
    BY <1>6, <2>2
  <2> QED
    BY <1>1, <1>3, <2>2, <2>3
<1> QED
  BY <1>11, <1>12 DEF F

-----------------------------------------------------------------------------
(* The invariant of an evaluation.                                         *)

SourceAt(q, i) == q[i].event.source_id

(* Of the first k rows of the source s, row p has the highest sequence.    *)
Leads(q, p, s, k) ==
    /\ p \in 1 .. k /\ SourceAt(q, p) = s
    /\ \A j \in 1 .. k :
            SourceAt(q, j) = s => SequenceOf(q[j]) <= SequenceOf(q[p])

SourcesUpTo(k) == {SourceAt(stored, i) : i \in 1 .. k}

(* What the first loop finds at position i.                                *)
Regression(q, p, i) ==
    Finding("source_sequence_regression", <<q[p], q[i]>>,
            <<SequenceOf(q[i]), SequenceOf(q[p])>>)

RegressionsAt(q, i) ==
    {Regression(q, p, i) :
        p \in {p \in 1 .. i - 1 : /\ Leads(q, p, SourceAt(q, i), i - 1)
                                  /\ SequenceOf(q[i]) < SequenceOf(q[p])}}

RowFindings(q, i) == DelayFindings(q[i]) \union RegressionsAt(q, i)

(* What the second loop finds of the source s.                             *)
SourceFindings(s) ==
    GapFindings(OrderedRows(s)) \union FrozenFindings(OrderedRows(s))
        \union StaleFindings(OrderedRows(s))

FoundUpTo(k, S) ==
    (UNION {RowFindings(stored, i) : i \in 1 .. k})
        \union (UNION {SourceFindings(s) : s \in S})

RowsInv == stored \in Seq(Row) /\ LedgerRows(stored)

LoopInv ==
    /\ judged \in 0 .. Len(stored)
    /\ pending \in SUBSET SourcesUpTo(judged)
    /\ judged < Len(stored) => pending = SourcesUpTo(judged)

HighestInv ==
    /\ DOMAIN highest = SourcesUpTo(judged)
    /\ \A s \in SourcesUpTo(judged) :
            \E p \in 1 .. judged : Leads(stored, p, s, judged) /\ highest[s] = stored[p]

FoundInv == findings = FoundUpTo(judged, SourcesUpTo(judged) \ pending)

QualityInv == RowsInv /\ LoopInv /\ HighestInv /\ FoundInv

(* What it means to be the rows of a ledger, position by position.         *)
LEMMA LedgerFacts ==
    ASSUME NEW q \in Seq(Row), LedgerRows(q)
    PROVE  /\ Len(q) \in Nat /\ DOMAIN q = 1 .. Len(q)
           /\ \A i \in 1 .. Len(q) : /\ q[i] \in Row /\ SequenceOf(q[i]) \in Nat
                                     /\ q[i].ordinal \in Nat
           /\ \A i, j \in 1 .. Len(q) :
                q[i].event.event_id = q[j].event.event_id => i = j
           /\ \A i, j \in 1 .. Len(q) :
                SourceAt(q, i) = SourceAt(q, j) /\ SequenceOf(q[i]) = SequenceOf(q[j])
                    => i = j
           /\ \A i, j \in 1 .. Len(q) : q[i].ordinal < q[j].ordinal <=> i < j
           /\ Different(q)
<1>1. Len(q) \in Nat /\ DOMAIN q = 1 .. Len(q) /\ \A i \in 1 .. Len(q) : q[i] \in Row
  OBVIOUS
<1>2. \A i \in 1 .. Len(q) : SequenceOf(q[i]) \in Nat /\ q[i].ordinal \in Nat
  BY <1>1, RowFacts
<1>3. \A i, j \in 1 .. Len(q) : q[i].event.event_id = q[j].event.event_id => i = j
  BY <1>1 DEF LedgerRows, NoRepeats
<1>4. \A i, j \in 1 .. Len(q) :
            SourceAt(q, i) = SourceAt(q, j) /\ SequenceOf(q[i]) = SequenceOf(q[j]) => i = j
  BY <1>1 DEF LedgerRows, NoRepeats, Position, SourceAt, SequenceOf
<1>5. \A i, j \in 1 .. Len(q) : i < j => q[i].ordinal < q[j].ordinal
  <2> TAKE i, j \in 1 .. Len(q)
  <2> HAVE i < j
  <2>1. i \in 1 .. j - 1
    BY <1>1
  <2> QED
    BY <1>1, <2>1 DEF LedgerRows, Increasing
<1>6. \A i, j \in 1 .. Len(q) : q[i].ordinal < q[j].ordinal <=> i < j
  <2> TAKE i, j \in 1 .. Len(q)
  <2>1. i < j \/ j < i \/ i = j
    BY <1>1
  <2> QED
    BY <1>2, <1>5, <2>1
<1>7. Different(q)
  BY <1>3 DEF Different
<1> QED
  BY <1>1, <1>2, <1>3, <1>4, <1>6, <1>7

(* A source has one leading row.                                           *)
LEMMA LeadsUnique ==
    ASSUME NEW q \in Seq(Row), LedgerRows(q), NEW k \in 0 .. Len(q), NEW s,
           NEW p, NEW r, Leads(q, p, s, k), Leads(q, r, s, k)
    PROVE  p = r
<1>1. /\ p \in 1 .. Len(q) /\ r \in 1 .. Len(q) /\ p \in 1 .. k /\ r \in 1 .. k
      /\ SourceAt(q, p) = s /\ SourceAt(q, r) = s
  BY LedgerFacts DEF Leads
<1>2. SequenceOf(q[p]) <= SequenceOf(q[r]) /\ SequenceOf(q[r]) <= SequenceOf(q[p])
  BY <1>1 DEF Leads
<1>3. SequenceOf(q[p]) \in Nat /\ SequenceOf(q[r]) \in Nat
  BY <1>1, LedgerFacts
<1>4. SequenceOf(q[p]) = SequenceOf(q[r])
  BY <1>2, <1>3
<1> QED
  BY <1>1, <1>4, LedgerFacts

(* Who leads after one more row.                                           *)
LEMMA LeadsStep ==
    ASSUME NEW q \in Seq(Row), LedgerRows(q), NEW k \in Nat, k + 1 <= Len(q)
    PROVE  /\ \A s, p : s # SourceAt(q, k + 1) /\ Leads(q, p, s, k)
                => Leads(q, p, s, k + 1)
           /\ \A p : /\ Leads(q, p, SourceAt(q, k + 1), k)
                     /\ SequenceOf(q[k + 1]) <= SequenceOf(q[p])
                => Leads(q, p, SourceAt(q, k + 1), k + 1)
           /\ \A p : /\ Leads(q, p, SourceAt(q, k + 1), k)
                     /\ SequenceOf(q[p]) < SequenceOf(q[k + 1])
                => Leads(q, k + 1, SourceAt(q, k + 1), k + 1)
           /\ (\A j \in 1 .. k : SourceAt(q, j) # SourceAt(q, k + 1))
                => Leads(q, k + 1, SourceAt(q, k + 1), k + 1)
<1>1. /\ k + 1 \in 1 .. k + 1 /\ k + 1 \in 1 .. Len(q)
      /\ \A j \in 1 .. k : j \in 1 .. k + 1
      /\ \A j \in 1 .. k + 1 : (j \in 1 .. k \/ j = k + 1) /\ j \in 1 .. Len(q)
  BY LedgerFacts
<1>2. \A j \in 1 .. Len(q) : SequenceOf(q[j]) \in Nat
  BY LedgerFacts
<1>3. ASSUME NEW s, NEW p, s # SourceAt(q, k + 1), Leads(q, p, s, k)
      PROVE  Leads(q, p, s, k + 1)
  BY <1>1, <1>3 DEF Leads
<1>4. ASSUME NEW p, Leads(q, p, SourceAt(q, k + 1), k),
             SequenceOf(q[k + 1]) <= SequenceOf(q[p])
      PROVE  Leads(q, p, SourceAt(q, k + 1), k + 1)
  BY <1>1, <1>4 DEF Leads
<1>5. ASSUME NEW p, Leads(q, p, SourceAt(q, k + 1), k),
             SequenceOf(q[p]) < SequenceOf(q[k + 1])
      PROVE  Leads(q, k + 1, SourceAt(q, k + 1), k + 1)
  <2>1. p \in 1 .. Len(q)
    BY <1>1, <1>5 DEF Leads
  <2>2. ASSUME NEW j \in 1 .. k + 1, SourceAt(q, j) = SourceAt(q, k + 1)
        PROVE  SequenceOf(q[j]) <= SequenceOf(q[k + 1])
    <3>1. CASE j = k + 1
      BY <1>1, <1>2, <3>1
    <3>2. CASE j \in 1 .. k
      <4>1. SequenceOf(q[j]) <= SequenceOf(q[p]) /\ j \in 1 .. Len(q)
        BY <1>1, <1>5, <2>2, <3>2 DEF Leads
      <4> QED
        BY <1>1, <1>2, <1>5, <2>1, <4>1
    <3> QED
      BY <1>1, <3>1, <3>2
  <2> QED
    BY <1>1, <2>2 DEF Leads
<1>6. ASSUME \A j \in 1 .. k : SourceAt(q, j) # SourceAt(q, k + 1)
      PROVE  Leads(q, k + 1, SourceAt(q, k + 1), k + 1)
  <2>1. \A j \in 1 .. k + 1 : SourceAt(q, j) = SourceAt(q, k + 1) => j = k + 1
    BY <1>1, <1>6
  <2> QED
    BY <1>1, <1>2, <2>1 DEF Leads
<1> QED
  BY <1>3, <1>4, <1>5, <1>6

(* The first loop finds of a row what the rows before it show.             *)
LEMMA RegressionFound ==
    ASSUME RowsInv, HighestInv, judged \in Nat, judged < Len(stored)
    PROVE  RegressionFindings(stored[judged + 1]) = RegressionsAt(stored, judged + 1)
<1> PICK q : q = stored
  OBVIOUS
<1> PICK k : k = judged
  OBVIOUS
<1> DEFINE row == q[k + 1]
           s == SourceAt(q, k + 1)
           H == HighestBefore(row)
           Found1 == {Regression(q, p, k + 1) : p \in
                        {p \in 1 .. k : /\ Leads(q, p, s, k)
                                        /\ SequenceOf(q[k + 1]) < SequenceOf(q[p])}}
<1>1. /\ q \in Seq(Row) /\ LedgerRows(q) /\ k \in Nat /\ k + 1 <= Len(q)
      /\ k \in 0 .. Len(q) /\ 1 .. k + 1 - 1 = 1 .. k /\ k + 1 - 1 = k
  <2>1. Len(q) \in Nat
    BY DEF RowsInv
  <2> QED
    BY <2>1 DEF RowsInv
<1>2. RegressionsAt(q, k + 1) = Found1
  BY <1>1 DEF RegressionsAt
<1>3. RegressionFindings(row) =
        {Finding("source_sequence_regression", <<prior, row>>,
                 <<SequenceOf(row), SequenceOf(prior)>>) :
            prior \in {prior \in H : SequenceOf(row) < SequenceOf(prior)}}
  BY DEF RegressionFindings, SequenceOf
<1>4. CASE s \in SourcesUpTo(judged)
  <2>1. PICK p \in 1 .. k : Leads(q, p, s, k) /\ highest[s] = q[p]
    BY <1>4 DEF HighestInv
  <2>2. H = {q[p]}
    BY <1>4, <2>1 DEF HighestBefore, HighestInv, SourceAt
  <2>3. \A r \in 1 .. k : Leads(q, r, s, k) => r = p
    BY <1>1, <2>1, LeadsUnique
  <2> HIDE DEF H, row, s
  <2>4. CASE SequenceOf(row) < SequenceOf(q[p])
    <3>1. RegressionFindings(row) = {Regression(q, p, k + 1)}
      BY <1>3, <2>2, <2>4 DEF Regression, row
    <3>2. Found1 = {Regression(q, p, k + 1)}
      BY <2>1, <2>3, <2>4 DEF row
    <3> QED
      BY <1>2, <3>1, <3>2 DEF row
  <2>5. CASE ~(SequenceOf(row) < SequenceOf(q[p]))
    <3>1. RegressionFindings(row) = {}
      BY <1>3, <2>2, <2>5
    <3>2. Found1 = {}
      BY <2>1, <2>3, <2>5 DEF row
    <3> QED
      BY <1>2, <3>1, <3>2 DEF row
  <2> QED
    BY <2>4, <2>5
<1>5. CASE s \notin SourcesUpTo(judged)
  <2>1. H = {}
    BY <1>5 DEF HighestBefore, HighestInv, SourceAt
  <2>2. \A p \in 1 .. k : ~Leads(q, p, s, k)
    BY <1>5 DEF SourcesUpTo, Leads
  <2> HIDE DEF H
  <2> QED
    BY <1>2, <1>3, <2>1, <2>2
<1> QED
  BY <1>4, <1>5

(* One row more in the first loop.                                         *)
LEMMA JudgeRowStep ==
    ASSUME QualityInv, JudgeRow
    PROVE  QualityInv'
<1> PICK q : q = stored
  OBVIOUS
<1> PICK k : k = judged
  OBVIOUS
<1> DEFINE row == q[k + 1]
           s == SourceAt(q, k + 1)
<1>1. /\ q \in Seq(Row) /\ LedgerRows(q) /\ k \in Nat /\ k + 1 <= Len(q)
      /\ stored' = q /\ judged' = k + 1 /\ as_of' = as_of /\ Len(q) \in Nat
  <2>1. q \in Seq(Row) /\ Len(q) \in Nat
    BY DEF QualityInv, RowsInv
  <2> QED
    BY <2>1 DEF QualityInv, RowsInv, LoopInv, JudgeRow
<1>2. \A j \in 1 .. k + 1 : j \in 1 .. k \/ j = k + 1
  BY <1>1
<1>3. SourcesUpTo(judged)' = SourcesUpTo(judged) \union {s}
  <2>1. \A j \in 1 .. k : j \in 1 .. k + 1
    BY <1>1
  <2>2. k + 1 \in 1 .. k + 1
    BY <1>1
  <2> QED
    BY <1>1, <1>2, <2>1, <2>2 DEF SourcesUpTo
<1>4. pending = SourcesUpTo(judged) /\ pending' = SourcesUpTo(judged)'
  <2>1. pending = SourcesUpTo(judged)
    BY <1>1 DEF QualityInv, LoopInv
  <2> QED
    BY <1>3, <2>1 DEF JudgeRow, SourceAt
<1>5. RowsInv'
  BY <1>1 DEF RowsInv
<1>6. LoopInv'
  BY <1>1, <1>4 DEF LoopInv
<1>7. HighestInv'
  <2>1. /\ \A t, p : t # s /\ Leads(q, p, t, k) => Leads(q, p, t, k + 1)
        /\ \A p : Leads(q, p, s, k) /\ SequenceOf(row) <= SequenceOf(q[p])
            => Leads(q, p, s, k + 1)
        /\ \A p : Leads(q, p, s, k) /\ SequenceOf(q[p]) < SequenceOf(row)
            => Leads(q, k + 1, s, k + 1)
        /\ (\A j \in 1 .. k : SourceAt(q, j) # s) => Leads(q, k + 1, s, k + 1)
    BY <1>1, LeadsStep
  <2>2. /\ DOMAIN highest = SourcesUpTo(judged)
        /\ \A t \in SourcesUpTo(judged) :
                \E p \in 1 .. k : Leads(q, p, t, k) /\ highest[t] = q[p]
    BY DEF QualityInv, HighestInv
  <2>3. \A p \in 1 .. k : p \in 1 .. k + 1 /\ p \in 1 .. Len(q)
    BY <1>1
  <2>4. \A p \in 1 .. Len(q) : SequenceOf(q[p]) \in Nat
    BY <1>1, LedgerFacts
  <2>5. k + 1 \in 1 .. k + 1 /\ k + 1 \in 1 .. Len(q)
    BY <1>1
  <2> DEFINE Keeps == \E prior \in HighestBefore(row) : SequenceOf(prior) >= SequenceOf(row)
  <2>6. highest' = IF Keeps THEN highest
                   ELSE [t \in DOMAIN highest \union {s} |->
                            IF t = s THEN row ELSE highest[t]]
    BY DEF JudgeRow, SequenceOf, SourceAt
  <2>7. HighestBefore(row) = IF s \in DOMAIN highest THEN {highest[s]} ELSE {}
    BY DEF HighestBefore, SourceAt
  <2> HIDE DEF row, s
  <2>8. DOMAIN highest' = SourcesUpTo(judged)'
    <3>1. CASE Keeps
      <4>1. s \in DOMAIN highest
        BY <2>7, <3>1
      <4> QED
        BY <1>3, <2>2, <2>6, <3>1, <4>1
    <3>2. CASE ~Keeps
      BY <1>3, <2>2, <2>6, <3>2
    <3> QED
      BY <3>1, <3>2
  <2>9. ASSUME NEW t \in SourcesUpTo(judged)'
        PROVE  \E p \in 1 .. k + 1 : Leads(q, p, t, k + 1) /\ highest'[t] = q[p]
    <3>1. CASE t # s
      <4>1. t \in SourcesUpTo(judged) /\ highest'[t] = highest[t]
        BY <1>3, <2>2, <2>6, <3>1
      <4> QED
        BY <2>1, <2>2, <2>3, <3>1, <4>1
    <3>2. CASE t = s /\ Keeps
      <4>1. s \in SourcesUpTo(judged) /\ SequenceOf(highest[s]) >= SequenceOf(row)
        BY <2>2, <2>7, <3>2
      <4>2. PICK p \in 1 .. k : Leads(q, p, s, k) /\ highest[s] = q[p]
        BY <2>2, <4>1
      <4>3. SequenceOf(row) <= SequenceOf(q[p])
        BY <2>3, <2>4, <2>5, <4>1, <4>2 DEF row
      <4> QED
        BY <2>1, <2>3, <2>6, <3>2, <4>2, <4>3
    <3>3. CASE t = s /\ ~Keeps
      <4>1. highest'[t] = q[k + 1]
        BY <2>6, <3>3 DEF row
      <4>2. Leads(q, k + 1, s, k + 1)
        <5>1. CASE s \in SourcesUpTo(judged)
          <6>1. PICK p \in 1 .. k : Leads(q, p, s, k) /\ highest[s] = q[p]
            BY <2>2, <5>1
          <6>2. ~(SequenceOf(q[p]) >= SequenceOf(row))
            BY <2>2, <2>7, <3>3, <5>1, <6>1
          <6>3. SequenceOf(q[p]) < SequenceOf(row)
            BY <2>3, <2>4, <2>5, <6>2 DEF row
          <6> QED
            BY <2>1, <6>1, <6>3
        <5>2. CASE s \notin SourcesUpTo(judged)
          <6>1. \A j \in 1 .. k : SourceAt(q, j) # s
            BY <5>2 DEF SourcesUpTo
          <6> QED
            BY <2>1, <6>1
        <5> QED
          BY <5>1, <5>2
      <4> QED
        BY <2>5, <3>3, <4>1, <4>2
    <3> QED
      BY <3>1, <3>2, <3>3
  <2> QED
    BY <1>1, <2>8, <2>9 DEF HighestInv
<1>8. FoundInv'
  <2>1. findings' = findings \union DelayFindings(row) \union RegressionFindings(row)
    BY DEF JudgeRow
  <2>2. RegressionFindings(row) = RegressionsAt(q, k + 1)
    BY <1>1, RegressionFound DEF QualityInv
  <2>3. findings = UNION {RowFindings(q, i) : i \in 1 .. k}
    <3>1. SourcesUpTo(judged) \ pending = {}
      BY <1>4
    <3>2. UNION {SourceFindings(t) : t \in {}} = {}
      OBVIOUS
    <3> QED
      BY <3>1, <3>2 DEF QualityInv, FoundInv, FoundUpTo
  <2>4. findings' = UNION {RowFindings(q, i) : i \in 1 .. k + 1}
    <3> DEFINE W(i) == RowFindings(q, i)
               U == UNION {W(i) : i \in 1 .. k}
    <3>1. W(k + 1) = DelayFindings(row) \union RegressionsAt(q, k + 1)
      BY DEF RowFindings
    <3>2. findings' = U \union W(k + 1)
      <4> HIDE DEF W
      <4>1. findings = U
        BY <2>3 DEF W
      <4> HIDE DEF U, row
      <4> QED
        BY <2>1, <2>2, <3>1, <4>1
    <3>3. k + 1 \in 1 .. k + 1 /\ \A i \in 1 .. k : i \in 1 .. k + 1
      BY <1>1
    <3> HIDE DEF W
    <3>4. U \union W(k + 1) = UNION {W(i) : i \in 1 .. k + 1}
      BY <1>2, <3>3
    <3> QED
      BY <3>2, <3>4 DEF W
  <2>5. FoundUpTo(judged, SourcesUpTo(judged) \ pending)' =
            UNION {RowFindings(q, i) : i \in 1 .. k + 1}
    <3>1. (SourcesUpTo(judged) \ pending)' = {}
      BY <1>4
    <3>2. FoundUpTo(judged, SourcesUpTo(judged) \ pending)' =
            (UNION {RowFindings(stored', i) : i \in 1 .. judged'})
                \union (UNION {SourceFindings(t)' : t \in (SourcesUpTo(judged) \ pending)'})
      BY DEF FoundUpTo
    <3>3. UNION {SourceFindings(t)' : t \in (SourcesUpTo(judged) \ pending)'} = {}
      BY <3>1
    <3>4. UNION {RowFindings(stored', i) : i \in 1 .. judged'} =
            UNION {RowFindings(q, i) : i \in 1 .. k + 1}
      BY <1>1
    <3> QED
      BY <3>2, <3>3, <3>4, Zenon
  <2> QED
    BY <2>4, <2>5 DEF FoundInv
<1> QED
  BY <1>5, <1>6, <1>7, <1>8 DEF QualityInv

(* One source more in the second loop.                                     *)
LEMMA JudgeSourceStep ==
    ASSUME QualityInv, JudgeSource
    PROVE  QualityInv'
<1> PICK s : s = CHOOSE t \in pending : TRUE
  OBVIOUS
<1>1. /\ s \in pending /\ pending' = pending \ {s}
      /\ judged = Len(stored) /\ s \in SourcesUpTo(judged)
      /\ findings' = findings \union SourceFindings(s)
      /\ stored' = stored /\ as_of' = as_of /\ judged' = judged /\ highest' = highest
  <2>1. s \in pending
    BY DEF JudgeSource
  <2>2. s \in SourcesUpTo(judged)
    BY <2>1 DEF QualityInv, LoopInv
  <2>3. findings' = findings \union SourceFindings(s)
    BY DEF JudgeSource, SourceFindings
  <2> QED
    BY <2>1, <2>2, <2>3 DEF JudgeSource
<1>2. SourcesUpTo(judged)' = SourcesUpTo(judged)
  BY <1>1 DEF SourcesUpTo
<1>3. RowsInv'
  BY <1>1 DEF QualityInv, RowsInv
<1>4. LoopInv'
  <2>1. Len(stored) \in Nat
    BY DEF QualityInv, RowsInv
  <2> QED
    BY <1>1, <1>2, <2>1 DEF QualityInv, LoopInv
<1>5. HighestInv'
  BY <1>1, <1>2 DEF QualityInv, HighestInv
<1>6. FoundInv'
  <2>1. \A t : SourceFindings(t)' = SourceFindings(t)
    BY <1>1 DEF SourceFindings, OrderedRows, RowsOf, StaleFindings
  <2> DEFINE S == SourcesUpTo(judged) \ pending
             A == UNION {RowFindings(stored, i) : i \in 1 .. judged}
             B == UNION {SourceFindings(t) : t \in S}
             C == UNION {SourceFindings(t) : t \in S \union {s}}
  <2>2. findings = A \union B
    BY Zenon DEF QualityInv, FoundInv, FoundUpTo
  <2>3. C = B \union SourceFindings(s)
    <3> HIDE DEF S
    <3> QED
      OBVIOUS
  <2>4. (SourcesUpTo(judged) \ pending)' = S \union {s}
    BY <1>1, <1>2
  <2>5. FoundUpTo(judged, SourcesUpTo(judged) \ pending)' = A \union C
    <3>1. FoundUpTo(judged, SourcesUpTo(judged) \ pending)' =
            (UNION {RowFindings(stored', i) : i \in 1 .. judged'})
                \union (UNION {SourceFindings(t)' : t \in (SourcesUpTo(judged) \ pending)'})
      BY DEF FoundUpTo
    <3>2. UNION {RowFindings(stored', i) : i \in 1 .. judged'} = A
      BY <1>1
    <3>3. UNION {SourceFindings(t)' : t \in (SourcesUpTo(judged) \ pending)'} = C
      <4> HIDE DEF S
      <4> QED
        BY <2>1, <2>4
    <3> HIDE DEF A, C
    <3> QED
      BY <3>1, <3>2, <3>3
  <2> HIDE DEF A, B, C
  <2> QED
    BY <1>1, <2>2, <2>3, <2>5 DEF FoundInv
<1> QED
  BY <1>3, <1>4, <1>5, <1>6 DEF QualityInv

EvaluationStarts ==
    /\ RowsInv
    /\ judged = 0 /\ highest = NoRows /\ pending = {} /\ findings = {}

(* The invariant holds of an evaluation that has just begun, or has not.   *)
LEMMA QualityStart == EvaluationStarts => QualityInv
<1> SUFFICES ASSUME EvaluationStarts PROVE QualityInv
  OBVIOUS
<1> USE DEF EvaluationStarts, RowsInv
<1>1. 1 .. judged = {} /\ Len(stored) \in Nat
  OBVIOUS
<1>2. SourcesUpTo(judged) = {}
  BY <1>1 DEF SourcesUpTo
<1>3. DOMAIN highest = {}
  BY DEF NoRows
<1>4. UNION {RowFindings(stored, i) : i \in 1 .. judged} = {}
  BY <1>1
<1>5. UNION {SourceFindings(s) : s \in SourcesUpTo(judged) \ pending} = {}
  BY <1>2
<1>6. FoundInv
  BY <1>4, <1>5 DEF FoundInv, FoundUpTo
<1> QED
  BY <1>1, <1>2, <1>3, <1>6 DEF QualityInv, RowsInv, LoopInv, HighestInv

(* What leaves an evaluation alone keeps its invariant.                    *)
LEMMA QualityIdles ==
    ASSUME QualityInv, UNCHANGED qualityVars
    PROVE  QualityInv'
<1>1. /\ stored' = stored /\ as_of' = as_of /\ judged' = judged
      /\ highest' = highest /\ pending' = pending /\ findings' = findings
  BY DEF qualityVars
<1>2. SourcesUpTo(judged)' = SourcesUpTo(judged)
  BY <1>1 DEF SourcesUpTo
<1>3. RowsInv' /\ LoopInv' /\ HighestInv'
  BY <1>1, <1>2 DEF QualityInv, RowsInv, LoopInv, HighestInv
<1>4. \A t : SourceFindings(t)' = SourceFindings(t)
  BY <1>1 DEF SourceFindings, OrderedRows, RowsOf, StaleFindings
<1>5. FoundUpTo(judged, SourcesUpTo(judged) \ pending)' =
            FoundUpTo(judged, SourcesUpTo(judged) \ pending)
  <2>1. (SourcesUpTo(judged) \ pending)' = SourcesUpTo(judged) \ pending
    BY <1>1, <1>2
  <2>2. UNION {SourceFindings(t)' : t \in (SourcesUpTo(judged) \ pending)'} =
            UNION {SourceFindings(t) : t \in SourcesUpTo(judged) \ pending}
    BY <1>4, <2>1
  <2>3. UNION {RowFindings(stored', i) : i \in 1 .. judged'} =
            UNION {RowFindings(stored, i) : i \in 1 .. judged}
    BY <1>1
  <2> QED
    BY <2>2, <2>3, Zenon DEF FoundUpTo
<1>6. FoundInv'
  BY <1>1, <1>5 DEF QualityInv, FoundInv
<1> QED
  BY <1>3, <1>6 DEF QualityInv

-----------------------------------------------------------------------------
(* What a finished evaluation has found.                                   *)

(* The rows of a source, in order.                                         *)
LEMMA SourceRows ==
    ASSUME RowsInv, NEW s
    PROVE  /\ OrderedRows(s) \in Seq(Row) /\ InOrder(OrderedRows(s))
           /\ ToSet(OrderedRows(s)) = RowsOf(s)
           /\ \A row \in RowsOf(s) : row \in Row /\ row.event.source_id = s
           /\ \A row : row \in RowsOf(s) <=>
                \E i \in 1 .. Len(stored) : row = stored[i] /\ SourceAt(stored, i) = s
<1> PICK q : q = stored
  OBVIOUS
<1> PICK R : R = RowsOf(s)
  OBVIOUS
<1>1. q \in Seq(Row) /\ LedgerRows(q)
  BY DEF RowsInv
<1>2. Len(q) \in Nat /\ DOMAIN q = 1 .. Len(q) /\ \A i \in 1 .. Len(q) : q[i] \in Row
  BY <1>1
<1>3. \A row : row \in R <=>
            \E i \in 1 .. Len(q) : row = q[i] /\ SourceAt(q, i) = s
  BY <1>2 DEF RowsOf, ToSet, SourceAt
<1>4. R \in SUBSET Row /\ \A row \in R : row.event.source_id = s
  BY <1>2, <1>3 DEF SourceAt
<1>5. IsFiniteSet(R)
  <2> DEFINE T == {q[i] : i \in 1 .. Len(q)}
             f == [i \in 1 .. Len(q) |-> q[i]]
  <2>1. f \in Surjection(1 .. Len(q), T)
    BY DEF Surjection
  <2>2. IsFiniteSet(1 .. Len(q))
    BY <1>2, FS_Interval
  <2>3. R \in SUBSET T
    BY <1>3
  <2> HIDE DEF f, T
  <2> QED
    BY <2>1, <2>2, <2>3, FS_Surjection, FS_Subset
<1>6. OneEach(R)
  <2> SUFFICES ASSUME NEW r \in R, NEW t \in R, SequenceOf(r) = SequenceOf(t)
               PROVE  r = t
    BY DEF OneEach
  <2>1. PICK i \in 1 .. Len(q), j \in 1 .. Len(q) :
            /\ r = q[i] /\ SourceAt(q, i) = s
            /\ t = q[j] /\ SourceAt(q, j) = s
    BY <1>3
  <2> QED
    BY <1>1, <2>1, LedgerFacts
<1>7. OrderedRows(s) = Sorted(R)
  BY DEF OrderedRows, Sorted, Before, SequenceOf
<1>8. Sorted(R) \in Seq(Row) /\ ToSet(Sorted(R)) = R /\ InOrder(Sorted(R))
  BY <1>4, <1>5, <1>6, SortedRows
<1> QED
  BY <1>3, <1>4, <1>7, <1>8

(* Which findings have which code.                                         *)
LEMMA CodesOf ==
    /\ \A row : \A f \in DelayFindings(row) : f.code = "delayed_arrival"
    /\ \A q, i : \A f \in RegressionsAt(q, i) : f.code = "source_sequence_regression"
    /\ \A o : \A f \in GapFindings(o) : f.code = "source_sequence_gap"
    /\ \A o : \A f \in FrozenFindings(o) : f.code = "repeated_payload_run"
    /\ \A o : \A f \in StaleFindings(o) : f.code = "stale_source"
<1>1. \A code, support, evidence : Finding(code, support, evidence).code = code
  BY DEF Finding
<1>2. \A row : \A f \in DelayFindings(row) : f.code = "delayed_arrival"
  BY <1>1 DEF DelayFindings
<1>3. \A q, i : \A f \in RegressionsAt(q, i) : f.code = "source_sequence_regression"
  BY <1>1 DEF RegressionsAt, Regression
<1>4. \A o : \A f \in GapFindings(o) : f.code = "source_sequence_gap"
  BY <1>1 DEF GapFindings
<1>5. \A o : \A f \in FrozenFindings(o) : f.code = "repeated_payload_run"
  BY <1>1 DEF FrozenFindings
<1>6. \A o : \A f \in StaleFindings(o) : f.code = "stale_source"
  BY <1>1 DEF StaleFindings
<1> QED
  BY <1>2, <1>3, <1>4, <1>5, <1>6

(* Each code comes from one place.                                         *)
LEMMA FoundByCode ==
    ASSUME QualityInv, Evaluated
    PROVE  /\ \A s : s \in SourcesStored <=> \E i \in 1 .. Len(stored) : s = SourceAt(stored, i)
           /\ \A f : f \in OfCode("delayed_arrival") <=>
                \E i \in 1 .. Len(stored) : f \in DelayFindings(stored[i])
           /\ \A f : f \in OfCode("source_sequence_regression") <=>
                \E i \in 1 .. Len(stored) : f \in RegressionsAt(stored, i)
           /\ \A f : f \in OfCode("source_sequence_gap") <=>
                \E s \in SourcesStored : f \in GapFindings(OrderedRows(s))
           /\ \A f : f \in OfCode("repeated_payload_run") <=>
                \E s \in SourcesStored : f \in FrozenFindings(OrderedRows(s))
           /\ \A f : f \in OfCode("stale_source") <=>
                \E s \in SourcesStored : f \in StaleFindings(OrderedRows(s))
<1>1. DOMAIN stored = 1 .. Len(stored)
  BY DEF QualityInv, RowsInv
<1>2. \A s : s \in SourcesStored <=> \E i \in 1 .. Len(stored) : s = SourceAt(stored, i)
  BY <1>1 DEF SourcesStored, ToSet, SourceAt
<1>3. judged = Len(stored) /\ pending = {}
  BY DEF Evaluated
<1>4. SourcesUpTo(judged) \ pending = SourcesStored
  BY <1>2, <1>3 DEF SourcesUpTo
<1>5. findings = (UNION {RowFindings(stored, i) : i \in 1 .. Len(stored)})
                    \union (UNION {SourceFindings(s) : s \in SourcesStored})
  <2>1. findings = FoundUpTo(Len(stored), SourcesStored)
    BY <1>3, <1>4 DEF QualityInv, FoundInv
  <2> QED
    BY <2>1 DEF FoundUpTo
<1>6. ASSUME NEW f
      PROVE  f \in findings <=>
                \/ \E i \in 1 .. Len(stored) : f \in DelayFindings(stored[i])
                \/ \E i \in 1 .. Len(stored) : f \in RegressionsAt(stored, i)
                \/ \E s \in SourcesStored : f \in GapFindings(OrderedRows(s))
                \/ \E s \in SourcesStored : f \in FrozenFindings(OrderedRows(s))
                \/ \E s \in SourcesStored : f \in StaleFindings(OrderedRows(s))
  <2>1. f \in findings <=>
            \/ \E i \in 1 .. Len(stored) : f \in RowFindings(stored, i)
            \/ \E s \in SourcesStored : f \in SourceFindings(s)
    BY <1>5
  <2> QED
    BY <2>1 DEF RowFindings, SourceFindings
<1>7. \A f, code : f \in OfCode(code) <=> f \in findings /\ f.code = code
  BY DEF OfCode
<1> QED
  BY <1>2, <1>6, <1>7, CodesOf, Zenon

(* The source of a finding about one source.                               *)
LEMMA SourcesOfFindings ==
    ASSUME QualityInv, NEW s \in SourcesStored
    PROVE  /\ \A f \in GapFindings(OrderedRows(s)) : FindingSource(f) = s
           /\ \A f \in FrozenFindings(OrderedRows(s)) : FindingSource(f) = s
<1> PICK o : o = OrderedRows(s)
  OBVIOUS
<1>1. /\ o \in Seq(Row) /\ InOrder(o) /\ ToSet(o) = RowsOf(s)
      /\ \A row \in RowsOf(s) : row.event.source_id = s
  BY SourceRows DEF QualityInv
<1>2. \A i \in 1 .. Len(o) : o[i] \in ToSet(o)
  BY <1>1, OrderFacts
<1>3. ASSUME NEW f \in GapFindings(o) PROVE FindingSource(f) = s
  <2>1. PICK i \in 1 .. Len(o) - 1 : f.support = <<o[i], o[i + 1]>>
    BY DEF GapFindings, Finding
  <2>2. i \in 1 .. Len(o)
    BY <1>1
  <2> QED
    BY <1>1, <1>2, <2>1, <2>2 DEF FindingSource
<1>4. ASSUME NEW f \in FrozenFindings(o) PROVE FindingSource(f) = s
  BY <1>1, FrozenOf DEF FindingSource
<1> QED
  BY <1>3, <1>4

(* A finding of a source is found in the rows of that source.              *)
LEMMA FindingsOfSource ==
    ASSUME QualityInv, Evaluated, NEW s \in SourcesStored
    PROVE  /\ {f \in OfCode("source_sequence_gap") : FindingSource(f) = s} =
                GapFindings(OrderedRows(s))
           /\ {f \in OfCode("repeated_payload_run") : FindingSource(f) = s} =
                FrozenFindings(OrderedRows(s))
<1>1. /\ \A f : f \in OfCode("source_sequence_gap") <=>
                \E t \in SourcesStored : f \in GapFindings(OrderedRows(t))
      /\ \A f : f \in OfCode("repeated_payload_run") <=>
                \E t \in SourcesStored : f \in FrozenFindings(OrderedRows(t))
  BY FoundByCode
<1>2. \A t \in SourcesStored :
            /\ \A f \in GapFindings(OrderedRows(t)) : FindingSource(f) = t
            /\ \A f \in FrozenFindings(OrderedRows(t)) : FindingSource(f) = t
  BY SourcesOfFindings
<1> QED
  BY <1>1, <1>2

(* The gaps are the missing positions.                                     *)
LEMMA GapsAreComplete ==
    ASSUME QualityInv, Evaluated
    PROVE  GapsComplete
<1> SUFFICES ASSUME NEW s \in SourcesStored
             PROVE  LET gaps == {f \in OfCode("source_sequence_gap") : FindingSource(f) = s}
                        span(f) == f.evidence[1] .. f.evidence[2]
                    IN  /\ UNION {span(f) : f \in gaps} =
                            (Min(SequencesOf(s)) .. Max(SequencesOf(s))) \ SequencesOf(s)
                        /\ \A f, g \in gaps : f # g => span(f) \intersect span(g) = {}
  BY DEF GapsComplete
<1> PICK o : o = OrderedRows(s)
  OBVIOUS
<1> PICK Q : Q = SequencesOf(s)
  OBVIOUS
<1>1. {f \in OfCode("source_sequence_gap") : FindingSource(f) = s} = GapFindings(o)
  BY FindingsOfSource
<1>2. /\ o \in Seq(Row) /\ InOrder(o) /\ ToSet(o) = RowsOf(s)
  BY SourceRows DEF QualityInv
<1>3. Q = {SequenceOf(row) : row \in ToSet(o)}
  BY <1>2 DEF SequencesOf, SequenceOf
<1>4. Len(o) > 0
  <2>1. PICK i \in 1 .. Len(stored) : s = SourceAt(stored, i)
    BY FoundByCode
  <2>2. stored[i] \in ToSet(o)
    BY <1>2, <2>1, SourceRows DEF QualityInv
  <2> QED
    BY <1>2, <2>2, OrderFacts
<1>5. /\ UNION {f.evidence[1] .. f.evidence[2] : f \in GapFindings(o)} =
            (Min(Q) .. Max(Q)) \ Q
      /\ \A f, g \in GapFindings(o) : f # g =>
            (f.evidence[1] .. f.evidence[2])
                \intersect (g.evidence[1] .. g.evidence[2]) = {}
  BY <1>2, <1>3, <1>4, GapsOf
<1> QED
  BY <1>1, <1>5

(* The runs are the maximal ones.                                          *)
LEMMA RunsAreMaximal ==
    ASSUME QualityInv, Evaluated
    PROVE  RunsMaximal
<1> DEFINE Runs(s) ==
                {ToSet(f.support) : f \in
                    {f \in OfCode("repeated_payload_run") : FindingSource(f) = s}}
           LongMaximal(s) ==
                {X \in SUBSET RowsOf(s) :
                    Cardinality(X) >= FrozenRunLength /\ Maximal(RowsOf(s), X)}
<1>1. RunsMaximal <=> \A s \in SourcesStored : Runs(s) = LongMaximal(s)
  BY DEF RunsMaximal, Maximal, Uniform, Between
<1>2. ASSUME NEW s \in SourcesStored PROVE Runs(s) = LongMaximal(s)
  <2> PICK o : o = OrderedRows(s)
    OBVIOUS
  <2>1. {f \in OfCode("repeated_payload_run") : FindingSource(f) = s} = FrozenFindings(o)
    BY FindingsOfSource
  <2>2. o \in Seq(Row) /\ InOrder(o) /\ ToSet(o) = RowsOf(s)
    BY SourceRows DEF QualityInv
  <2>3. {ToSet(f.support) : f \in FrozenFindings(o)} =
            {X \in SUBSET ToSet(o) :
                Cardinality(X) >= FrozenRunLength /\ Maximal(ToSet(o), X)}
    BY <2>2, FrozenOf
  <2> QED
    BY <2>1, <2>2, <2>3
<1> QED
  BY <1>1, <1>2

(* The regressions name the highest row that was appended before.          *)
LEMMA RegressionsAreWitnessed ==
    ASSUME QualityInv, Evaluated
    PROVE  RegressionsWitnessed
<1> PICK q : q = stored
  OBVIOUS
<1> DEFINE Witnesses(row) ==
                {f.support[1] : f \in
                    {f \in OfCode("source_sequence_regression") : f.support[2] = row}}
           Earlier(row) ==
                {prior \in RowsOf(row.event.source_id) :
                    /\ prior.ordinal < row.ordinal
                    /\ prior.event.source_sequence > row.event.source_sequence}
           Highest(row) ==
                {prior \in Earlier(row) : \A other \in Earlier(row) :
                    other.event.source_sequence <= prior.event.source_sequence}
<1>1. RegressionsWitnessed <=> \A row \in ToSet(stored) : Witnesses(row) = Highest(row)
  BY DEF RegressionsWitnessed
<1>2. q \in Seq(Row) /\ LedgerRows(q) /\ Len(q) \in Nat /\ DOMAIN q = 1 .. Len(q)
  BY LedgerFacts DEF QualityInv, RowsInv
<1>3. /\ \A i \in 1 .. Len(q) : SequenceOf(q[i]) \in Nat
      /\ \A i, j \in 1 .. Len(q) : q[i].ordinal < q[j].ordinal <=> i < j
      /\ Different(q)
  BY <1>2, LedgerFacts
<1>4. ASSUME NEW i \in 1 .. Len(q) PROVE Witnesses(q[i]) = Highest(q[i])
  <2> DEFINE s == SourceAt(q, i)
             IsWitness(p) == Leads(q, p, s, i - 1) /\ SequenceOf(q[i]) < SequenceOf(q[p])
             IsEarlier(p) == SourceAt(q, p) = s /\ SequenceOf(q[p]) > SequenceOf(q[i])
  <2>1. \A p \in 1 .. i - 1 : p \in 1 .. Len(q)
    BY <1>2
  <2>2. \A f : f \in OfCode("source_sequence_regression") <=>
                \E j \in 1 .. Len(q) : f \in RegressionsAt(q, j)
    BY FoundByCode
  <2>3. \A p, j : /\ Regression(q, p, j).support[1] = q[p]
                  /\ Regression(q, p, j).support[2] = q[j]
    BY DEF Regression, Finding
  <2>4. ASSUME NEW x
        PROVE  x \in Witnesses(q[i]) <=> \E p \in 1 .. i - 1 : IsWitness(p) /\ x = q[p]
    <3>1. ASSUME x \in Witnesses(q[i])
          PROVE  \E p \in 1 .. i - 1 : IsWitness(p) /\ x = q[p]
      <4>1. PICK f \in OfCode("source_sequence_regression") :
                    f.support[2] = q[i] /\ x = f.support[1]
        BY <3>1
      <4>2. PICK j \in 1 .. Len(q) : f \in RegressionsAt(q, j)
        BY <2>2, <4>1
      <4>3. PICK p \in 1 .. j - 1 :
                    /\ f = Regression(q, p, j) /\ Leads(q, p, SourceAt(q, j), j - 1)
                    /\ SequenceOf(q[j]) < SequenceOf(q[p])
        BY <4>2 DEF RegressionsAt
      <4>4. j = i
        BY <1>3, <2>3, <4>1, <4>3 DEF Different
      <4> QED
        BY <2>3, <4>1, <4>3, <4>4
    <3>2. ASSUME NEW p \in 1 .. i - 1, IsWitness(p), x = q[p]
          PROVE  x \in Witnesses(q[i])
      <4>1. Regression(q, p, i) \in RegressionsAt(q, i)
        BY <3>2 DEF RegressionsAt
      <4>2. Regression(q, p, i) \in OfCode("source_sequence_regression")
        BY <2>2, <4>1
      <4> QED
        BY <2>3, <3>2, <4>2
    <3> QED
      BY <3>1, <3>2
  <2>5. ASSUME NEW x
        PROVE  x \in Earlier(q[i]) <=> \E p \in 1 .. i - 1 : IsEarlier(p) /\ x = q[p]
    <3>1. \A row : row \in RowsOf(s) <=>
                \E p \in 1 .. Len(q) : row = q[p] /\ SourceAt(q, p) = s
      BY SourceRows DEF QualityInv
    <3>2. x \in Earlier(q[i]) <=>
            \E p \in 1 .. Len(q) : x = q[p] /\ p < i /\ IsEarlier(p)
      BY <1>3, <3>1 DEF SourceAt, SequenceOf
    <3>3. \A p \in 1 .. Len(q) : p < i <=> p \in 1 .. i - 1
      BY <1>2
    <3> QED
      BY <2>1, <3>2, <3>3
  <2> DEFINE W == Witnesses(q[i])
             E == Earlier(q[i])
             H == Highest(q[i])
  <2>6. H = {prior \in E : \A other \in E : SequenceOf(other) <= SequenceOf(prior)}
    BY DEF SequenceOf
  <2> HIDE DEF W, E, H, Witnesses, Earlier, Highest, s
  <2>7. ASSUME NEW x \in W PROVE x \in H
    <3>1. PICK p \in 1 .. i - 1 : IsWitness(p) /\ x = q[p]
      BY <2>4 DEF W
    <3>2. IsEarlier(p)
      BY <1>3, <2>1, <3>1 DEF Leads
    <3>3. x \in E
      BY <2>5, <3>1, <3>2 DEF E
    <3>4. ASSUME NEW other \in E PROVE SequenceOf(other) <= SequenceOf(x)
      <4>1. PICK j \in 1 .. i - 1 : IsEarlier(j) /\ other = q[j]
        BY <2>5 DEF E
      <4> QED
        BY <3>1, <4>1 DEF Leads
    <3> QED
      BY <2>6, <3>3, <3>4
  <2>8. ASSUME NEW x \in H PROVE x \in W
    <3>1. x \in E /\ \A other \in E : SequenceOf(other) <= SequenceOf(x)
      BY <2>6
    <3>2. PICK p \in 1 .. i - 1 : IsEarlier(p) /\ x = q[p]
      BY <2>5, <3>1 DEF E
    <3>3. ASSUME NEW j \in 1 .. i - 1, SourceAt(q, j) = s
          PROVE  SequenceOf(q[j]) <= SequenceOf(q[p])
      <4>1. CASE SequenceOf(q[j]) > SequenceOf(q[i])
        <5>1. q[j] \in E
          BY <2>5, <3>3, <4>1 DEF E
        <5> QED
          BY <3>1, <3>2, <5>1
      <4>2. CASE ~(SequenceOf(q[j]) > SequenceOf(q[i]))
        BY <1>3, <2>1, <3>2, <4>2
      <4> QED
        BY <4>1, <4>2
    <3>4. IsWitness(p)
      <4>1. Leads(q, p, s, i - 1)
        BY <3>2, <3>3 DEF Leads
      <4> QED
        BY <1>3, <2>1, <3>2, <4>1
    <3> QED
      BY <2>4, <3>2, <3>4 DEF W
  <2>9. W = H
    BY <2>7, <2>8
  <2> QED
    BY <2>9 DEF W, H
<1>5. \A row \in ToSet(stored) : \E i \in 1 .. Len(q) : row = q[i]
  BY <1>2 DEF ToSet
<1> HIDE DEF Witnesses, Highest
<1> QED
  BY <1>1, <1>4, <1>5

(* So the invariant of an evaluation makes its findings exact.             *)
LEMMA FindingsAreExact ==
    ASSUME QualityInv
    PROVE  FindingsExact
  BY GapsAreComplete, RegressionsAreWitnessed, RunsAreMaximal DEF FindingsExact

-----------------------------------------------------------------------------
(* What the boundary finds.                                                *)

(* The greater of two numbers.                                             *)
LEMMA MaxOfTwo ==
    ASSUME NEW a \in Nat, NEW b \in Nat
    PROVE  Max({a, b}) = IF a >= b THEN a ELSE b
<1> PICK S : S = {a, b}
  OBVIOUS
<1> PICK m \in Nat : m = IF a >= b THEN a ELSE b
  OBVIOUS
<1>1. m \in S /\ \A x \in S : m >= x
  OBVIOUS
<1>2. Max(S) \in S /\ \A x \in S : Max(S) >= x
  BY <1>1 DEF Max
<1>3. PICK x \in Nat : x = Max(S)
  BY <1>2
<1>4. x >= m /\ m >= x
  BY <1>1, <1>2, <1>3
<1>5. x = m
  BY <1>4
<1> QED
  BY <1>3, <1>5

IsLate(q, i, d) == Lag(q[i].event) > d

IsRegressed(q, i) ==
    \E p \in 1 .. i - 1 : /\ Leads(q, p, SourceAt(q, i), i - 1)
                          /\ SequenceOf(q[i]) < SequenceOf(q[p])

(* f is what the boundary should find of row i.                            *)
FoundAt(q, i, f, d) ==
    \/ IsLate(q, i, d) /\ f = Found("delayed_arrival", i, q[i].event)
    \/ IsRegressed(q, i) /\ f = Found("source_sequence_regression", i, q[i].event)

(* What the boundary knows after the first k rows of a ledger.             *)
SeenAt(q, k, seen, d) ==
    /\ seen.ids = {q[i].event.event_id : i \in 1 .. k}
    /\ DOMAIN seen.last = {SourceAt(q, i) : i \in 1 .. k}
    /\ \A s \in DOMAIN seen.last :
            \E p \in 1 .. k : Leads(q, p, s, k) /\ seen.last[s] = SequenceOf(q[p])
    /\ \A f : f \in seen.findings <=> \E i \in 1 .. k : FoundAt(q, i, f, d)

(* One row more at the boundary.                                           *)
LEMMA SeenStep ==
    ASSUME NEW q \in Seq(Row), LedgerRows(q), Invalid \notin Event, NEW d \in Nat,
           NEW k \in Nat, k + 1 <= Len(q), NEW seen, SeenAt(q, k, seen, d)
    PROVE  SeenAt(q, k + 1, InspectRecord(seen, k + 1, q[k + 1].event, d), d)
<1> PICK after : after = InspectRecord(seen, k + 1, q[k + 1].event, d)
  OBVIOUS
<1> PICK e : e = q[k + 1].event
  OBVIOUS
<1> PICK s : s = SourceAt(q, k + 1)
  OBVIOUS
<1>1. /\ k + 1 \in 1 .. k + 1 /\ k + 1 \in 1 .. Len(q) /\ k + 1 - 1 = k
      /\ \A j \in 1 .. k : j \in 1 .. k + 1 /\ j \in 1 .. Len(q) /\ j # k + 1
      /\ \A j \in 1 .. k + 1 : j \in 1 .. k \/ j = k + 1
  BY LedgerFacts
<1>2. /\ e \in Event /\ e.source_id = s /\ e.source_sequence = SequenceOf(q[k + 1])
      /\ e.source_sequence \in Nat /\ e.observed_at \in Nat /\ e.ingested_at \in Nat
      /\ \A j \in 1 .. Len(q) : SequenceOf(q[j]) \in Nat
  <2>1. q[k + 1] \in Row
    BY <1>1
  <2> QED
    BY <1>1, <2>1, RowFacts, LedgerFacts DEF SourceAt, SequenceOf
<1>3. e.event_id \notin seen.ids
  <2>1. \A j \in 1 .. k : q[j].event.event_id # e.event_id
    BY <1>1, LedgerFacts
  <2> QED
    BY <2>1 DEF SeenAt
<1>4. /\ after.ids = seen.ids \union {e.event_id}
      /\ DOMAIN after.last = DOMAIN seen.last \union {s}
      /\ \A t \in DOMAIN after.last :
            after.last[t] = IF t = s THEN HighWater(e, seen.last) ELSE seen.last[t]
      /\ \A f : f \in after.findings <=>
            \/ f \in seen.findings
            \/ /\ f = Found("source_sequence_regression", k + 1, e)
               /\ s \in DOMAIN seen.last
               /\ e.source_sequence <= seen.last[s]
            \/ /\ f = Found("delayed_arrival", k + 1, e)
               /\ e.ingested_at > e.observed_at + d
  <2> DEFINE last == [t \in DOMAIN seen.last \union {s} |->
                        IF t = s THEN HighWater(e, seen.last) ELSE seen.last[t]]
             regressed == {Found("source_sequence_regression", k + 1, e) : t \in
                            {t \in DOMAIN seen.last : t = s
                                /\ e.source_sequence <= seen.last[t]}}
             late == IF e.ingested_at > e.observed_at + d
                     THEN {Found("delayed_arrival", k + 1, e)} ELSE {}
  <2>1. e # Invalid
    BY <1>2
  <2>2. after = [ids |-> seen.ids \union {e.event_id}, last |-> last,
                 findings |-> (seen.findings \union regressed) \union late]
    BY <1>2, <1>3, <2>1 DEF InspectRecord
  <2>3. \A f : f \in regressed <=> /\ f = Found("source_sequence_regression", k + 1, e)
                                   /\ s \in DOMAIN seen.last
                                   /\ e.source_sequence <= seen.last[s]
    OBVIOUS
  <2>4. \A f : f \in late <=> /\ f = Found("delayed_arrival", k + 1, e)
                              /\ e.ingested_at > e.observed_at + d
    OBVIOUS
  <2> HIDE DEF last, regressed, late
  <2>5. /\ after.ids = seen.ids \union {e.event_id} /\ after.last = last
        /\ after.findings = (seen.findings \union regressed) \union late
    BY <2>2
  <2>6. \A f : f \in after.findings <=> f \in seen.findings \/ f \in regressed \/ f \in late
    BY <2>5
  <2>7. /\ DOMAIN after.last = DOMAIN seen.last \union {s}
        /\ \A t \in DOMAIN after.last :
            after.last[t] = IF t = s THEN HighWater(e, seen.last) ELSE seen.last[t]
    BY <2>5 DEF last
  <2> QED
    BY <2>3, <2>4, <2>5, <2>6, <2>7
<1>5. after.ids = {q[i].event.event_id : i \in 1 .. k + 1}
  BY <1>1, <1>4 DEF SeenAt
<1>6. DOMAIN after.last = {SourceAt(q, i) : i \in 1 .. k + 1}
  <2>1. DOMAIN after.last = DOMAIN seen.last \union {s}
    BY <1>4
  <2> QED
    BY <1>1, <2>1 DEF SeenAt
<1>7. /\ \A t, p : t # s /\ Leads(q, p, t, k) => Leads(q, p, t, k + 1)
      /\ \A p : Leads(q, p, s, k) /\ SequenceOf(q[k + 1]) <= SequenceOf(q[p])
            => Leads(q, p, s, k + 1)
      /\ \A p : Leads(q, p, s, k) /\ SequenceOf(q[p]) < SequenceOf(q[k + 1])
            => Leads(q, k + 1, s, k + 1)
      /\ (\A j \in 1 .. k : SourceAt(q, j) # s) => Leads(q, k + 1, s, k + 1)
  BY LeadsStep
<1>8. ASSUME NEW t \in DOMAIN after.last
      PROVE  \E p \in 1 .. k + 1 : Leads(q, p, t, k + 1) /\ after.last[t] = SequenceOf(q[p])
  <2>1. t \in DOMAIN seen.last \/ t = s
    BY <1>4
  <2>2. CASE t # s
    <3>1. after.last[t] = seen.last[t] /\ t \in DOMAIN seen.last
      BY <1>4, <2>1, <2>2
    <3>2. PICK p \in 1 .. k : Leads(q, p, t, k) /\ seen.last[t] = SequenceOf(q[p])
      BY <3>1 DEF SeenAt
    <3> QED
      BY <1>1, <1>7, <2>2, <3>1, <3>2
  <2>3. CASE t = s /\ s \in DOMAIN seen.last
    <3>1. PICK p \in 1 .. k : Leads(q, p, s, k) /\ seen.last[s] = SequenceOf(q[p])
      BY <2>3 DEF SeenAt
    <3>2. after.last[s] = Max({SequenceOf(q[k + 1]), SequenceOf(q[p])})
      BY <1>2, <1>4, <2>3, <3>1 DEF HighWater
    <3>3. SequenceOf(q[k + 1]) \in Nat /\ SequenceOf(q[p]) \in Nat
      BY <1>1, <1>2
    <3>4. after.last[s] = IF SequenceOf(q[k + 1]) >= SequenceOf(q[p])
                          THEN SequenceOf(q[k + 1]) ELSE SequenceOf(q[p])
      BY <3>2, <3>3, MaxOfTwo
    <3>5. SequenceOf(q[k + 1]) # SequenceOf(q[p])
      <4>1. SourceAt(q, p) = s /\ p \in 1 .. Len(q) /\ p # k + 1
        BY <1>1, <3>1 DEF Leads
      <4> QED
        BY <1>1, <4>1, LedgerFacts
    <3>6. CASE SequenceOf(q[k + 1]) > SequenceOf(q[p])
      BY <1>1, <1>7, <2>3, <3>1, <3>3, <3>4, <3>6
    <3>7. CASE SequenceOf(q[k + 1]) < SequenceOf(q[p])
      BY <1>1, <1>7, <2>3, <3>1, <3>3, <3>4, <3>7
    <3> QED
      BY <3>3, <3>5, <3>6, <3>7
  <2>4. CASE t = s /\ s \notin DOMAIN seen.last
    <3>1. \A j \in 1 .. k : SourceAt(q, j) # s
      BY <2>4 DEF SeenAt
    <3>2. after.last[s] = SequenceOf(q[k + 1])
      BY <1>2, <1>4, <2>4 DEF HighWater
    <3> QED
      BY <1>1, <1>7, <2>4, <3>1, <3>2
  <2> QED
    BY <2>1, <2>2, <2>3, <2>4
<1>9. IsLate(q, k + 1, d) <=> e.ingested_at > e.observed_at + d
  <2>1. IsLate(q, k + 1, d) <=> e.ingested_at - e.observed_at > d
    BY DEF IsLate, Lag
  <2> QED
    BY <1>2, <2>1
<1>10. IsRegressed(q, k + 1) <=> s \in DOMAIN seen.last /\ e.source_sequence <= seen.last[s]
  <2>1. IsRegressed(q, k + 1) <=>
            \E p \in 1 .. k : Leads(q, p, s, k) /\ SequenceOf(q[k + 1]) < SequenceOf(q[p])
    BY <1>1 DEF IsRegressed
  <2>2. ASSUME IsRegressed(q, k + 1)
        PROVE  s \in DOMAIN seen.last /\ e.source_sequence <= seen.last[s]
    <3>1. PICK p \in 1 .. k : Leads(q, p, s, k) /\ SequenceOf(q[k + 1]) < SequenceOf(q[p])
      BY <2>1, <2>2
    <3>2. s \in DOMAIN seen.last
      BY <3>1 DEF SeenAt, Leads
    <3>3. PICK r \in 1 .. k : Leads(q, r, s, k) /\ seen.last[s] = SequenceOf(q[r])
      BY <3>2 DEF SeenAt
    <3>4. SequenceOf(q[p]) <= SequenceOf(q[r])
      BY <3>1, <3>3 DEF Leads
    <3> QED
      BY <1>1, <1>2, <3>1, <3>2, <3>3, <3>4
  <2>3. ASSUME s \in DOMAIN seen.last, e.source_sequence <= seen.last[s]
        PROVE  IsRegressed(q, k + 1)
    <3>1. PICK p \in 1 .. k : Leads(q, p, s, k) /\ seen.last[s] = SequenceOf(q[p])
      BY <2>3 DEF SeenAt
    <3>2. SequenceOf(q[k + 1]) # SequenceOf(q[p])
      <4>1. SourceAt(q, p) = s /\ p \in 1 .. Len(q) /\ p # k + 1
        BY <1>1, <3>1 DEF Leads
      <4> QED
        BY <1>1, <4>1, LedgerFacts
    <3>3. SequenceOf(q[k + 1]) < SequenceOf(q[p])
      BY <1>1, <1>2, <2>3, <3>1, <3>2
    <3> QED
      BY <2>1, <3>1, <3>3
  <2> QED
    BY <2>2, <2>3
<1>11. ASSUME NEW f
       PROVE  f \in after.findings <=> \E i \in 1 .. k + 1 : FoundAt(q, i, f, d)
  <2>1. f \in after.findings <=> f \in seen.findings \/ FoundAt(q, k + 1, f, d)
    BY <1>4, <1>9, <1>10 DEF FoundAt
  <2>2. f \in seen.findings <=> \E i \in 1 .. k : FoundAt(q, i, f, d)
    BY DEF SeenAt
  <2> QED
    BY <1>1, <2>1, <2>2
<1> QED
  BY <1>5, <1>6, <1>8, <1>11 DEF SeenAt

(* What the boundary finds of the rows of a ledger.                        *)
LEMMA StreamOf ==
    ASSUME NEW q \in Seq(Row), LedgerRows(q), Invalid \notin Event, NEW d \in Nat
    PROVE  \A f : f \in InspectStream(EventsOf(q), d) <=>
                \E i \in 1 .. Len(q) : FoundAt(q, i, f, d)
<1> PICK r : r = EventsOf(q)
  OBVIOUS
<1>1. /\ Len(q) \in Nat /\ DOMAIN r = 1 .. Len(q)
      /\ \A i \in 1 .. Len(q) : r[i] = q[i].event
  BY DEF EventsOf
<1>2. PICK F : /\ F[0] = NothingSeen
               /\ \A k \in 0 .. Len(q) - 1 :
                    F[k + 1] = InspectRecord(F[k], k + 1, r[k + 1], d)
               /\ F[Len(q)].findings = InspectStream(r, d)
  BY <1>1, StreamFold
<1> DEFINE P == {k \in Nat : k <= Len(q) => SeenAt(q, k, F[k], d)}
<1>3. 0 \in P
  <2>1. 1 .. 0 = {}
    OBVIOUS
  <2>2. SeenAt(q, 0, NothingSeen, d)
    BY <2>1 DEF SeenAt, NothingSeen
  <2> QED
    BY <1>2, <2>2
<1>4. ASSUME NEW k \in P PROVE k + 1 \in P
  <2>1. SUFFICES ASSUME k + 1 <= Len(q) PROVE SeenAt(q, k + 1, F[k + 1], d)
    OBVIOUS
  <2>2. k \in 0 .. Len(q) - 1 /\ SeenAt(q, k, F[k], d) /\ k + 1 \in 1 .. Len(q)
    BY <1>1, <2>1
  <2>3. F[k + 1] = InspectRecord(F[k], k + 1, q[k + 1].event, d)
    BY <1>1, <1>2, <2>2
  <2> QED
    BY <2>1, <2>2, <2>3, SeenStep
<1>5. P = Nat
  <2> HIDE DEF P
  <2>1. P \in SUBSET Nat
    BY DEF P
  <2> QED
    BY <1>3, <1>4, <2>1, Induction
<1>6. SeenAt(q, Len(q), F[Len(q)], d)
  BY <1>1, <1>5
<1> QED
  BY <1>2, <1>6 DEF SeenAt

(* Record i brings an identity that an earlier record brought.             *)
Repeated(r, i) ==
    /\ r[i] # Invalid
    /\ \E j \in 1 .. i - 1 : r[j] # Invalid /\ r[j].event_id = r[i].event_id

FlawOf(r, i, code) ==
    IF code = "invalid_event" THEN r[i] = Invalid ELSE Repeated(r, i)

FlawCodes == {"invalid_event", "duplicate_event_id"}

(* What the boundary knows after the first k of any records.               *)
SeenRecords(r, k, seen) ==
    /\ seen = [ids |-> seen.ids, last |-> seen.last, findings |-> seen.findings]
    /\ \A id : id \in seen.ids <=>
            \E i \in 1 .. k : r[i] # Invalid /\ r[i].event_id = id
    /\ \A code \in FlawCodes : \A f :
            f \in seen.findings /\ f.code = code <=>
                \E i \in 1 .. k : FlawOf(r, i, code) /\ f = Found(code, i, r[i])

(* One record more at the boundary.                                        *)
LEMMA SeenRecordsStep ==
    ASSUME NEW r, NEW d, NEW k \in Nat, NEW seen, SeenRecords(r, k, seen)
    PROVE  SeenRecords(r, k + 1, InspectRecord(seen, k + 1, r[k + 1], d))
<1> PICK after : after = InspectRecord(seen, k + 1, r[k + 1], d)
  OBVIOUS
<1> PICK e : e = r[k + 1]
  OBVIOUS
<1>1. /\ k + 1 \in 1 .. k + 1 /\ k + 1 - 1 = k
      /\ \A j \in 1 .. k : j \in 1 .. k + 1
      /\ \A j \in 1 .. k + 1 : j \in 1 .. k \/ j = k + 1
  OBVIOUS
<1>2. \A code, i, x : Found(code, i, x).code = code
  BY DEF Found
<1>3. Repeated(r, k + 1) <=> e # Invalid /\ e.event_id \in seen.ids
  BY <1>1 DEF Repeated, SeenRecords
<1>4. SUFFICES
        /\ after = [ids |-> after.ids, last |-> after.last, findings |-> after.findings]
        /\ \A id : id \in after.ids <=>
                id \in seen.ids \/ (e # Invalid /\ e.event_id = id)
        /\ \A code \in FlawCodes : \A f :
                f \in after.findings /\ f.code = code <=>
                    \/ f \in seen.findings /\ f.code = code
                    \/ FlawOf(r, k + 1, code) /\ f = Found(code, k + 1, e)
  <2>1. ASSUME NEW id, id \in after.ids <=>
                            id \in seen.ids \/ (e # Invalid /\ e.event_id = id)
        PROVE  id \in after.ids <=>
                    \E i \in 1 .. k + 1 : r[i] # Invalid /\ r[i].event_id = id
    BY <1>1, <2>1 DEF SeenRecords
  <2>2. ASSUME NEW code \in FlawCodes, NEW f,
               f \in after.findings /\ f.code = code <=>
                    \/ f \in seen.findings /\ f.code = code
                    \/ FlawOf(r, k + 1, code) /\ f = Found(code, k + 1, e)
        PROVE  f \in after.findings /\ f.code = code <=>
                    \E i \in 1 .. k + 1 : FlawOf(r, i, code) /\ f = Found(code, i, r[i])
    BY <1>1, <2>2 DEF SeenRecords
  <2> QED
    BY <2>1, <2>2 DEF SeenRecords
<1>5. CASE e = Invalid
  <2> DEFINE found == seen.findings \union {Found("invalid_event", k + 1, e)}
  <2>1. after = [ids |-> seen.ids, last |-> seen.last, findings |-> found]
    <3>1. after = [seen EXCEPT !.findings = found]
      BY <1>5 DEF InspectRecord
    <3> HIDE DEF found
    <3> QED
      BY <3>1 DEF SeenRecords
  <2>2. \A code \in FlawCodes : FlawOf(r, k + 1, code) <=> code = "invalid_event"
    BY <1>3, <1>5 DEF FlawOf, FlawCodes
  <2> QED
    BY <1>2, <1>5, <2>1, <2>2 DEF FlawCodes
<1>6. CASE e # Invalid /\ e.event_id \in seen.ids
  <2> DEFINE found == seen.findings \union {Found("duplicate_event_id", k + 1, e)}
  <2>1. after = [ids |-> seen.ids, last |-> seen.last, findings |-> found]
    <3>1. after = [seen EXCEPT !.findings = found]
      BY <1>6 DEF InspectRecord
    <3> HIDE DEF found
    <3> QED
      BY <3>1 DEF SeenRecords
  <2>2. \A code \in FlawCodes : FlawOf(r, k + 1, code) <=> code = "duplicate_event_id"
    BY <1>3, <1>6 DEF FlawOf, FlawCodes
  <2> QED
    BY <1>2, <1>6, <2>1, <2>2 DEF FlawCodes
<1>7. CASE e # Invalid /\ e.event_id \notin seen.ids
  <2> DEFINE regressed == {Found("source_sequence_regression", k + 1, e) : t \in
                            {t \in DOMAIN seen.last : t = e.source_id
                                /\ e.source_sequence <= seen.last[t]}}
             late == IF e.ingested_at > e.observed_at + d
                     THEN {Found("delayed_arrival", k + 1, e)} ELSE {}
  <2>1. /\ after.ids = seen.ids \union {e.event_id}
        /\ after.findings = (seen.findings \union regressed) \union late
        /\ after = [ids |-> after.ids, last |-> after.last, findings |-> after.findings]
    BY <1>7 DEF InspectRecord
  <2>2. \A f : f \in regressed \/ f \in late => f.code \notin FlawCodes
    BY <1>2 DEF FlawCodes
  <2>3. \A code \in FlawCodes : ~FlawOf(r, k + 1, code)
    BY <1>3, <1>7 DEF FlawOf, FlawCodes
  <2> HIDE DEF regressed, late
  <2> QED
    BY <1>7, <2>1, <2>2, <2>3
<1> QED
  BY <1>5, <1>6, <1>7

(* The boundary reports every invalid and every repeated record once.      *)
LEMMA FlawsFound ==
    ASSUME NEW R, NEW r \in Seq(R), NEW d, NEW code \in FlawCodes
    PROVE  Cardinality({f \in InspectStream(r, d) : f.code = code}) =
                Cardinality({i \in 1 .. Len(r) : FlawOf(r, i, code)})
<1>1. Len(r) \in Nat /\ DOMAIN r = 1 .. Len(r)
  OBVIOUS
<1>2. PICK F : /\ F[0] = NothingSeen
               /\ \A k \in 0 .. Len(r) - 1 :
                    F[k + 1] = InspectRecord(F[k], k + 1, r[k + 1], d)
               /\ F[Len(r)].findings = InspectStream(r, d)
  BY <1>1, StreamFold
<1> DEFINE P == {k \in Nat : k <= Len(r) => SeenRecords(r, k, F[k])}
<1>3. 0 \in P
  <2>1. 1 .. 0 = {}
    OBVIOUS
  <2>2. SeenRecords(r, 0, NothingSeen)
    BY <2>1 DEF SeenRecords, NothingSeen
  <2> QED
    BY <1>2, <2>2
<1>4. ASSUME NEW k \in P PROVE k + 1 \in P
  <2>1. SUFFICES ASSUME k + 1 <= Len(r) PROVE SeenRecords(r, k + 1, F[k + 1])
    OBVIOUS
  <2>2. k \in 0 .. Len(r) - 1 /\ SeenRecords(r, k, F[k])
    BY <1>1, <2>1
  <2> QED
    BY <1>2, <2>2, SeenRecordsStep
<1>5. P = Nat
  <2> HIDE DEF P
  <2>1. P \in SUBSET Nat
    BY DEF P
  <2> QED
    BY <1>3, <1>4, <2>1, Induction
<1>6. SeenRecords(r, Len(r), F[Len(r)])
  BY <1>1, <1>5
<1> DEFINE I == {i \in 1 .. Len(r) : FlawOf(r, i, code)}
           S == {f \in InspectStream(r, d) : f.code = code}
           b == [i \in I |-> Found(code, i, r[i])]
<1>7. \A f : f \in S <=> \E i \in I : f = Found(code, i, r[i])
  BY <1>2, <1>6 DEF SeenRecords
<1>8. b \in Bijection(I, S)
  <2>1. \A i, j \in I : b[i] = b[j] => i = j
    BY DEF Found
  <2> HIDE DEF I, S
  <2>2. b \in [I -> S] /\ \A f \in S : \E i \in I : b[i] = f
    BY <1>7
  <2> HIDE DEF b
  <2> QED
    BY <2>1, <2>2 DEF Bijection, Injection, Surjection, IsInjective
<1>9. IsFiniteSet(I)
  <2>1. I \in SUBSET (1 .. Len(r)) /\ IsFiniteSet(1 .. Len(r))
    BY <1>1, FS_Interval
  <2> HIDE DEF I
  <2> QED
    BY <2>1, FS_Subset
<1> HIDE DEF I, S, b
<1>10. Cardinality(S) = Cardinality(I)
  BY <1>8, <1>9, FS_Bijection DEF ExistsBijection
<1> QED
  BY <1>10 DEF I, S

-----------------------------------------------------------------------------
(* The invariant of a campaign.                                            *)

(* The events among the first k records, and the records of a flaw.        *)
Kept(r, k) == {r[i] : i \in {i \in 1 .. k : r[i] # Invalid}}

Flawed(r, k, code) == {i \in 1 .. k : FlawOf(r, i, code)}

OncePerIdentity(l) ==
    \A m, n \in 1 .. Len(l) :
        l[m].event_id = l[n].event_id \/ Position(l[m]) = Position(l[n]) => m = n

(* Of two events of the log, the earlier came with an earlier record.      *)
AsOffered(l, r, k) ==
    \A m, n \in 1 .. Len(l) :
        m < n => \E i, j \in 1 .. k : i < j /\ l[m] = r[i] /\ l[n] = r[j]

(* The ledger has every event offered to it once, in order.                *)
LogInv ==
    /\ records \in Seq(Event \union {Invalid})
    /\ position \in 0 .. Len(records)
    /\ log \in Seq(Event)
    /\ OncePerIdentity(log)
    /\ ToSet(log) = Kept(records, position)
    /\ AsOffered(log, records, position)

(* Each record offered is counted, as what it is.                          *)
CountsInv ==
    /\ counts = [accepted  |-> Len(log),
                 duplicate |-> Cardinality(Flawed(records, position, "duplicate_event_id")),
                 invalid   |-> Cardinality(Flawed(records, position, "invalid_event"))]
    /\ Len(log) + Cardinality(Flawed(records, position, "duplicate_event_id"))
            + Cardinality(Flawed(records, position, "invalid_event")) = position

PhaseInv ==
    /\ phase \in {"idle", "inspect", "ingest", "evaluate", "sealed"}
    /\ phase # "idle" =>
            scenario \in CampaignScenarios /\ records = CampaignRecords(scenario)
    /\ phase \in {"ingest", "evaluate", "sealed"} =>
            boundary = InspectStream(records, DelayThreshold)
    /\ phase \in {"evaluate", "sealed"} =>
            /\ position = Len(records) /\ stored = RowsOfLog
            /\ as_of = LatestObserved(log) + ExtraAge
    /\ phase = "sealed" =>
            sealed = [events |-> log, as_of |-> as_of, boundary |-> boundary]

(* The log is what a sealed ledger would hold of the records so far.       *)
SealInv == \A F : Sealing(F, records) => log = F[position]

OfferedInv == LogInv /\ CountsInv /\ PhaseInv

CampaignInv == OfferedInv /\ SealInv

(* The records of a scenario: how many there are, the sequence number of   *)
(* each, and the event with a given sequence number.                       *)
RecordCount(sc) ==
    CASE sc = "duplicate" -> 9
      [] sc = "missing"   -> 7
      [] OTHER            -> 8

SequenceOfRecord(sc, i) ==
    CASE sc = "duplicate" -> IF i <= 5 THEN i - 1 ELSE i - 2
      [] sc = "missing"   -> IF i <= 4 THEN i - 1 ELSE i
      [] sc = "reordered" -> IF i = 5 THEN 5 ELSE IF i = 6 THEN 4 ELSE i - 1
      [] OTHER            -> i - 1

LagOfEvent(sc, n) == IF sc = "delayed" /\ n = 4 THEN 120 ELSE 1

PayloadOfEvent(sc, n) == IF sc = "frozen" /\ n \in 3 .. 5 THEN 3 ELSE n

IsEventOf(sc, e, n) ==
    /\ e \in Event
    /\ e.event_id = n /\ e.source_id = SimulatedSource /\ e.source_sequence = n
    /\ e.observed_at = n * 10
    /\ e.ingested_at = n * 10 + LagOfEvent(sc, n)
    /\ e.payload = PayloadOfEvent(sc, n)

IsRecordOf(sc, x, i) ==
    IF sc = "malformed" /\ i = 5 THEN x = Invalid
    ELSE IsEventOf(sc, x, SequenceOfRecord(sc, i))

(* The records of every scenario are events, or refused where malformed.   *)
LEMMA ScenarioRecords ==
    ASSUME NEW sc \in CampaignScenarios
    PROVE  /\ CampaignRecords(sc) \in Seq(Event \union {Invalid})
           /\ Len(CampaignRecords(sc)) = RecordCount(sc)
           /\ \A i \in 1 .. RecordCount(sc) : IsRecordOf(sc, CampaignRecords(sc)[i], i)
<1> DEFINE R == Event \union {Invalid}
<1> PICK b : b = Baseline(8)
  OBVIOUS
<1> PICK c : c = CampaignRecords(sc)
  OBVIOUS
<1>1. /\ b = [n \in 1 .. 8 |-> SimulatedEvent(n - 1)] /\ DOMAIN b = 1 .. 8
      /\ \A n \in 1 .. 8 : b[n] \in Event
  BY CampaignAssumption DEF Baseline, CampaignCount
<1>2. ASSUME NEW n \in 1 .. 8
      PROVE  b[n] = [event_id |-> n - 1, source_id |-> SimulatedSource,
                     source_sequence |-> n - 1, observed_at |-> (n - 1) * 10,
                     ingested_at |-> (n - 1) * 10 + 1, payload |-> n - 1]
  BY <1>1 DEF SimulatedEvent, IntervalSeconds
<1>3. ASSUME NEW m \in Nat, NEW d \in [1 .. m -> R] PROVE d \in Seq(R) /\ Len(d) = m
  <2> HIDE DEF R
  <2>1. d \in Seq(R)
    BY SeqDef
  <2>2. DOMAIN d = 1 .. m /\ DOMAIN d = 1 .. Len(d) /\ Len(d) \in Nat
    BY <2>1
  <2> QED
    BY <2>1, <2>2
<1>4. b \in Seq(R) /\ Len(b) = 8
  <2>1. b \in [1 .. 8 -> R]
    BY <1>1
  <2> QED
    BY <2>1, <1>3
<1>5. Pivot(8) = 5
  <2>1. 8 \div 2 = 4
    OBVIOUS
  <2> QED
    BY <2>1 DEF Pivot
<1>6. GenerateRecords(8, "baseline") = b
  BY DEF GenerateRecords
<1>7. ASSUME sc \notin {"delayed", "frozen"}, NEW n \in 1 .. 8
      PROVE  IsEventOf(sc, b[n], n - 1)
  <2>1. n - 1 \in Nat /\ LagOfEvent(sc, n - 1) = 1 /\ PayloadOfEvent(sc, n - 1) = n - 1
    BY <1>7 DEF LagOfEvent, PayloadOfEvent
  <2> QED
    BY <1>1, <1>2, <2>1 DEF IsEventOf
<1> HIDE DEF R
<1>8. CASE sc = "missing"
  <2>1. c = RemoveAt(b, 5)
    BY <1>5, <1>6, <1>8 DEF CampaignRecords, CampaignCount
  <2>2. c = SubSeq(b, 1, 4) \o SubSeq(b, 6, 8)
    BY <1>4, <2>1 DEF RemoveAt
  <2>3. /\ SubSeq(b, 1, 4) \in Seq(R) /\ Len(SubSeq(b, 1, 4)) = 4
        /\ SubSeq(b, 6, 8) \in Seq(R) /\ Len(SubSeq(b, 6, 8)) = 3
        /\ \A i \in 1 .. 4 : SubSeq(b, 1, 4)[i] = b[i]
        /\ \A i \in 1 .. 3 : SubSeq(b, 6, 8)[i] = b[i + 5]
    BY <1>4
  <2>4. c \in Seq(R) /\ Len(c) = 7 /\ \A i \in 1 .. 7 : c[i] = IF i <= 4 THEN b[i] ELSE b[i + 1]
    BY <2>2, <2>3, ConcatProperties
  <2>5. RecordCount(sc) = 7
    BY <1>8 DEF RecordCount
  <2>6. ASSUME NEW i \in 1 .. 7 PROVE IsRecordOf(sc, c[i], i)
    <3>1. SequenceOfRecord(sc, i) = IF i <= 4 THEN i - 1 ELSE i
      BY <1>8 DEF SequenceOfRecord
    <3>2. i <= 4 => IsEventOf(sc, c[i], i - 1)
      BY <1>7, <1>8, <2>4
    <3>3. ~(i <= 4) => i + 1 \in 1 .. 8 /\ (i + 1) - 1 = i /\ c[i] = b[i + 1]
      BY <2>4
    <3>4. ~(i <= 4) => IsEventOf(sc, c[i], i)
      BY <1>7, <1>8, <3>3
    <3> QED
      BY <1>8, <3>1, <3>2, <3>4 DEF IsRecordOf
  <2> QED
    BY <2>4, <2>5, <2>6 DEF R
<1>9. CASE sc = "frozen"
  <2>1. c = [i \in 1 .. 8 |->
                IF i \in 4 .. 6 THEN [b[i] EXCEPT !.payload = b[4].payload] ELSE b[i]]
    BY <1>1, <1>5, <1>6, <1>9 DEF CampaignRecords, CampaignCount
  <2>2. ASSUME NEW i \in 1 .. 8 PROVE IsEventOf(sc, c[i], i - 1)
    <3>1. LagOfEvent(sc, i - 1) = 1
      BY <1>9 DEF LagOfEvent
    <3>2. PayloadOfEvent(sc, i - 1) = IF i \in 4 .. 6 THEN 3 ELSE i - 1
      BY <1>9 DEF PayloadOfEvent
    <3>3. c[i] = [b[i] EXCEPT !.payload = PayloadOfEvent(sc, i - 1)]
      BY <1>2, <2>1, <3>2
    <3>4. PayloadOfEvent(sc, i - 1) \in Payloads
      BY <1>1, <1>2, <3>2 DEF Event
    <3>5. c[i] \in Event
      BY <1>1, <3>3, <3>4 DEF Event
    <3> QED
      BY <1>2, <3>1, <3>3, <3>5 DEF IsEventOf
  <2>3. c \in [1 .. 8 -> R]
    BY <2>1, <2>2 DEF R, IsEventOf
  <2>4. RecordCount(sc) = 8 /\ \A i \in 1 .. 8 : SequenceOfRecord(sc, i) = i - 1
    BY <1>9 DEF RecordCount, SequenceOfRecord
  <2> QED
    BY <1>3, <1>9, <2>2, <2>3, <2>4 DEF R, IsRecordOf
<1>10. CASE sc \in {"stale", "baseline"}
  <2>1. c = b
    BY <1>6, <1>10 DEF CampaignRecords, CampaignCount
  <2>2. RecordCount(sc) = 8 /\ \A i \in 1 .. 8 : SequenceOfRecord(sc, i) = i - 1
    BY <1>10 DEF RecordCount, SequenceOfRecord
  <2> QED
    BY <1>4, <1>7, <1>10, <2>1, <2>2 DEF R, IsRecordOf
<1>11. CASE sc = "delayed"
  <2>1. c = GenerateRecords(8, sc)
    BY <1>11 DEF CampaignRecords, CampaignCount
  <2>2. c = [b EXCEPT ![5] = [b[5] EXCEPT !.ingested_at = b[5].observed_at + 120]]
    BY <1>5, <1>11, <2>1 DEF GenerateRecords
  <2>3. ASSUME NEW i \in 1 .. 8 PROVE IsEventOf(sc, c[i], i - 1)
    <3>1. LagOfEvent(sc, i - 1) = IF i = 5 THEN 120 ELSE 1
      BY <1>11 DEF LagOfEvent
    <3>2. PayloadOfEvent(sc, i - 1) = i - 1
      BY <1>11 DEF PayloadOfEvent
    <3>3. c[i] = [b[i] EXCEPT !.ingested_at = (i - 1) * 10 + LagOfEvent(sc, i - 1)]
      BY <1>1, <1>2, <2>2, <3>1
    <3>4. (i - 1) * 10 + LagOfEvent(sc, i - 1) \in Nat
      BY <3>1
    <3>5. c[i] \in Event
      BY <1>1, <3>3, <3>4 DEF Event
    <3> QED
      BY <1>2, <3>2, <3>3, <3>5 DEF IsEventOf
  <2>4. c \in [1 .. 8 -> R]
    BY <1>1, <2>2, <2>3 DEF R, IsEventOf
  <2>5. RecordCount(sc) = 8 /\ \A i \in 1 .. 8 : SequenceOfRecord(sc, i) = i - 1
    BY <1>11 DEF RecordCount, SequenceOfRecord
  <2> QED
    BY <1>3, <1>11, <2>3, <2>4, <2>5 DEF R, IsRecordOf
<1>12. CASE sc = "duplicate"
  <2>1. c = GenerateRecords(8, sc)
    BY <1>12 DEF CampaignRecords, CampaignCount
  <2>2. c = InsertAt(b, 6, b[5])
    BY <1>5, <1>12, <2>1 DEF GenerateRecords
  <2>3. c = (SubSeq(b, 1, 5) \o <<b[5]>>) \o SubSeq(b, 6, 8)
    BY <1>4, <2>2 DEF InsertAt
  <2>4. /\ SubSeq(b, 1, 5) \in Seq(R) /\ Len(SubSeq(b, 1, 5)) = 5
        /\ SubSeq(b, 6, 8) \in Seq(R) /\ Len(SubSeq(b, 6, 8)) = 3
        /\ \A i \in 1 .. 5 : SubSeq(b, 1, 5)[i] = b[i]
        /\ \A i \in 1 .. 3 : SubSeq(b, 6, 8)[i] = b[i + 5]
        /\ <<b[5]>> \in Seq(R) /\ Len(<<b[5]>>) = 1 /\ <<b[5]>>[1] = b[5]
    BY <1>1, <1>4 DEF R
  <2>5. PICK d : d = SubSeq(b, 1, 5) \o <<b[5]>>
    OBVIOUS
  <2>6. d \in Seq(R) /\ Len(d) = 6 /\ \A i \in 1 .. 6 : d[i] = IF i <= 5 THEN b[i] ELSE b[5]
    BY <2>4, <2>5, ConcatProperties
  <2>7. c \in Seq(R) /\ Len(c) = 9 /\ \A i \in 1 .. 9 : c[i] = IF i <= 5 THEN b[i] ELSE b[i - 1]
    BY <2>3, <2>4, <2>5, <2>6, ConcatProperties
  <2>8. RecordCount(sc) = 9
    BY <1>12 DEF RecordCount
  <2>9. ASSUME NEW i \in 1 .. 9 PROVE IsRecordOf(sc, c[i], i)
    <3>1. SequenceOfRecord(sc, i) = IF i <= 5 THEN i - 1 ELSE i - 2
      BY <1>12 DEF SequenceOfRecord
    <3>2. i <= 5 => IsEventOf(sc, c[i], i - 1)
      BY <1>7, <1>12, <2>7
    <3>3. ~(i <= 5) => i - 1 \in 1 .. 8 /\ (i - 1) - 1 = i - 2 /\ c[i] = b[i - 1]
      BY <2>7
    <3>4. ~(i <= 5) => IsEventOf(sc, c[i], i - 2)
      BY <1>7, <1>12, <3>3
    <3> QED
      BY <1>12, <3>1, <3>2, <3>4 DEF IsRecordOf
  <2> QED
    BY <2>7, <2>8, <2>9 DEF R
<1>13. CASE sc = "reordered"
  <2>1. c = GenerateRecords(8, sc)
    BY <1>13 DEF CampaignRecords, CampaignCount
  <2>2. c = [b EXCEPT ![5] = b[6], ![6] = b[5]]
    BY <1>5, <1>13, <2>1 DEF GenerateRecords
  <2>3. c \in [1 .. 8 -> R]
    BY <1>1, <2>2 DEF R
  <2>4. RecordCount(sc) = 8
    BY <1>13 DEF RecordCount
  <2>5. ASSUME NEW i \in 1 .. 8 PROVE IsRecordOf(sc, c[i], i)
    <3>1. SequenceOfRecord(sc, i) = IF i = 5 THEN 5 ELSE IF i = 6 THEN 4 ELSE i - 1
      BY <1>13 DEF SequenceOfRecord
    <3>2. c[i] = b[SequenceOfRecord(sc, i) + 1] /\ SequenceOfRecord(sc, i) + 1 \in 1 .. 8
      BY <1>1, <2>2, <3>1
    <3>3. (SequenceOfRecord(sc, i) + 1) - 1 = SequenceOfRecord(sc, i)
      BY <3>1
    <3>4. IsEventOf(sc, c[i], SequenceOfRecord(sc, i))
      BY <1>7, <1>13, <3>2, <3>3
    <3> QED
      BY <1>13, <3>4 DEF IsRecordOf
  <2> QED
    BY <1>3, <2>3, <2>4, <2>5 DEF R
<1>14. CASE sc = "malformed"
  <2>1. c = GenerateRecords(8, sc)
    BY <1>14 DEF CampaignRecords, CampaignCount
  <2>2. c = [b EXCEPT ![5] = Invalid]
    BY <1>5, <1>14, <2>1 DEF GenerateRecords, ReplaceAt
  <2>3. c \in [1 .. 8 -> R]
    BY <1>1, <2>2 DEF R
  <2>4. RecordCount(sc) = 8 /\ \A i \in 1 .. 8 : SequenceOfRecord(sc, i) = i - 1
    BY <1>14 DEF RecordCount, SequenceOfRecord
  <2>5. \A i \in 1 .. 8 : c[i] = IF i = 5 THEN Invalid ELSE b[i]
    BY <1>1, <2>2
  <2>6. ASSUME NEW i \in 1 .. 8 PROVE IsRecordOf(sc, c[i], i)
    <3>1. i # 5 => IsEventOf(sc, c[i], i - 1)
      BY <1>7, <1>14, <2>5
    <3> QED
      BY <1>14, <2>4, <2>5, <3>1 DEF IsRecordOf
  <2>7. c \in Seq(R) /\ Len(c) = 8
    BY <1>3, <2>3
  <2> QED
    BY <2>4, <2>6, <2>7 DEF R
<1> QED
  BY <1>8, <1>9, <1>10, <1>11, <1>12, <1>13, <1>14 DEF CampaignScenarios, R

(* What ingest_many makes of a batch of one event.                         *)
LEMMA FreshOne ==
    ASSUME NEW l \in Seq(Event), NEW e \in Event
    PROVE  /\ e \in ToSet(l) => Fresh(l, <<e>>) = <<>>
           /\ e \notin ToSet(l) => Fresh(l, <<e>>) = <<e>>
           /\ IsFresh(l, <<e>>, 1) <=> e \notin ToSet(l)
           /\ ToSet(<<e>>) = {e}
<1> DEFINE b == <<e>>
           gained == {i \in DOMAIN b : IsFresh(l, b, i)}
           rank(i) == Cardinality({j \in gained : j <= i})
           pick(n) == CHOOSE i \in gained : rank(i) = n
<1>1. DOMAIN b = {1} /\ b[1] = e /\ ToSet(b) = {e} /\ 1 .. 1 - 1 = {}
  BY DEF ToSet
<1>2. IsFresh(l, b, 1) <=> e \notin ToSet(l)
  BY <1>1 DEF IsFresh, Contains, ToSet
<1>3. Fresh(l, b) = [n \in 1 .. Cardinality(gained) |-> b[pick(n)]]
  BY DEF Fresh
<1>4. CASE e \in ToSet(l)
  <2>1. gained = {}
    BY <1>1, <1>2, <1>4
  <2>2. Cardinality(gained) = 0
    BY <2>1, FS_EmptySet
  <2> HIDE DEF gained, pick
  <2>3. Fresh(l, b) = <<>>
    BY <1>3, <2>2
  <2> QED
    BY <1>1, <1>2, <1>4, <2>3
<1>5. CASE e \notin ToSet(l)
  <2>1. gained = {1}
    BY <1>1, <1>2, <1>5
  <2>2. {j \in gained : j <= 1} = {1}
    BY <2>1
  <2>3. Cardinality(gained) = 1 /\ rank(1) = 1
    BY <2>1, <2>2, FS_Singleton
  <2>4. pick(1) = 1
    BY <2>1, <2>3
  <2> HIDE DEF gained, pick, rank, b
  <2>5. Fresh(l, b) = [n \in 1 .. 1 |-> e]
    BY <1>1, <1>3, <2>3, <2>4
  <2>6. Fresh(l, b) = <<e>>
    BY <2>5
  <2> QED
    BY <1>1, <1>2, <1>5, <2>6 DEF b
<1> QED
  BY <1>4, <1>5

(* The evaluation of any rows of a ledger begins.                          *)
LEMMA EvaluateStep ==
    ASSUME NEW STATE rows, NEW STATE at, rows \in Seq(Row), LedgerRows(rows),
           Evaluate(rows, at)
    PROVE  QualityInv'
<1>1. EvaluationStarts'
  BY DEF Evaluate, EvaluationStarts, RowsInv, NoRows
<1>2. EvaluationStarts' => QualityInv'
  BY QualityStart, PTL
<1> QED
  BY <1>1, <1>2

(* The rows of a log with one event per identity are those of a ledger.    *)
LEMMA LogRows ==
    ASSUME LogInv
    PROVE  RowsOfLog \in Seq(Row) /\ LedgerRows(RowsOfLog)
<1> PICK l : l = log
  OBVIOUS
<1> PICK q : q = RowsOfLog
  OBVIOUS
<1>1. /\ l \in Seq(Event) /\ Len(l) \in Nat /\ DOMAIN l = 1 .. Len(l)
      /\ \A n \in 1 .. Len(l) : l[n] \in Event
  BY DEF LogInv
<1>2. q = [n \in 1 .. Len(l) |-> [ordinal |-> n, event |-> l[n]]]
  BY <1>1 DEF RowsOfLog
<1>3. q \in [1 .. Len(l) -> Row]
  BY <1>1, <1>2 DEF Row
<1>4. q \in Seq(Row)
  BY <1>1, <1>3, SeqDef
<1>5. \A n \in 1 .. Len(l) : q[n].ordinal = n /\ q[n].event = l[n]
  BY <1>2
<1>6. Increasing(q)
  BY <1>1, <1>2, <1>5 DEF Increasing
<1>7. NoRepeats(q)
  BY <1>1, <1>2, <1>5 DEF NoRepeats, LogInv, OncePerIdentity
<1> QED
  BY <1>4, <1>6, <1>7 DEF LedgerRows

(* One record more, kept or flawed.                                        *)
LEMMA NextRecord ==
    ASSUME NEW r, NEW k \in Nat
    PROVE  /\ r[k + 1] = Invalid => Kept(r, k + 1) = Kept(r, k)
           /\ r[k + 1] # Invalid => Kept(r, k + 1) = Kept(r, k) \union {r[k + 1]}
           /\ \A code : ~FlawOf(r, k + 1, code) => Flawed(r, k + 1, code) = Flawed(r, k, code)
           /\ \A code : FlawOf(r, k + 1, code) =>
                Flawed(r, k + 1, code) = Flawed(r, k, code) \union {k + 1}
<1>1. 1 .. k + 1 = 1 .. k \union {k + 1}
  OBVIOUS
<1>2. \A x : x \in Kept(r, k + 1) <=> \E i \in 1 .. k + 1 : r[i] # Invalid /\ x = r[i]
  BY DEF Kept
<1>3. \A x : x \in Kept(r, k) <=> \E i \in 1 .. k : r[i] # Invalid /\ x = r[i]
  BY DEF Kept
<1>4. /\ r[k + 1] = Invalid => Kept(r, k + 1) = Kept(r, k)
      /\ r[k + 1] # Invalid => Kept(r, k + 1) = Kept(r, k) \union {r[k + 1]}
  BY <1>1, <1>2, <1>3
<1>5. \A code : /\ ~FlawOf(r, k + 1, code) => Flawed(r, k + 1, code) = Flawed(r, k, code)
                /\ FlawOf(r, k + 1, code) =>
                    Flawed(r, k + 1, code) = Flawed(r, k, code) \union {k + 1}
  BY <1>1 DEF Flawed
<1> QED
  BY <1>4, <1>5

(* How many records of a flaw there are, with one record more.             *)
LEMMA NextFlaw ==
    ASSUME NEW r, NEW k \in Nat, NEW code
    PROVE  /\ Cardinality(Flawed(r, k, code)) \in Nat
           /\ Cardinality(Flawed(r, k + 1, code)) =
                Cardinality(Flawed(r, k, code)) + IF FlawOf(r, k + 1, code) THEN 1 ELSE 0
<1> PICK S : S = Flawed(r, k, code)
  OBVIOUS
<1>1. S \in SUBSET (1 .. k) /\ IsFiniteSet(1 .. k)
  BY FS_Interval DEF Flawed
<1>2. IsFiniteSet(S) /\ Cardinality(S) \in Nat /\ k + 1 \notin S
  BY <1>1, FS_Subset, FS_CardinalityType
<1>3. Cardinality(S \union {k + 1}) = Cardinality(S) + 1
  BY <1>2, FS_AddElement
<1>4. PICK T : T = Flawed(r, k + 1, code)
  OBVIOUS
<1>5. /\ ~FlawOf(r, k + 1, code) => T = S
      /\ FlawOf(r, k + 1, code) => T = S \union {k + 1}
  BY <1>4, NextRecord
<1>6. Cardinality(T) = Cardinality(S) + IF FlawOf(r, k + 1, code) THEN 1 ELSE 0
  BY <1>2, <1>3, <1>5
<1> QED
  BY <1>2, <1>4, <1>6

(* A log with one event more.                                              *)
LEMMA LogGrows ==
    ASSUME NEW l \in Seq(Event), NEW e \in Event, OncePerIdentity(l),
           e \notin ToSet(l), Consistent(ToSet(l) \union {e})
    PROVE  LET after == l \o <<e>>
           IN  /\ after \in Seq(Event) /\ Len(after) = Len(l) + 1
               /\ OncePerIdentity(after)
               /\ ToSet(after) = ToSet(l) \union {e}
               /\ \A r : \A k \in Nat :
                    AsOffered(l, r, k) /\ ToSet(l) = Kept(r, k) /\ e = r[k + 1]
                        => AsOffered(after, r, k + 1)
<1> PICK after : after = l \o <<e>>
  OBVIOUS
<1>1. <<e>> \in Seq(Event) /\ Len(<<e>>) = 1 /\ <<e>>[1] = e
  OBVIOUS
<1>2. /\ after \in Seq(Event) /\ Len(after) = Len(l) + 1 /\ Len(l) \in Nat
      /\ \A i \in 1 .. Len(l) : after[i] = l[i]
      /\ after[Len(l) + 1] = e
  BY <1>1, ConcatProperties
<1>3. DOMAIN after = 1 .. Len(l) + 1 /\ DOMAIN l = 1 .. Len(l)
  BY <1>2
<1>4. \A i \in 1 .. Len(l) + 1 : i \in 1 .. Len(l) \/ i = Len(l) + 1
  BY <1>2
<1>5. \A i \in 1 .. Len(l) : l[i] \in ToSet(l) /\ i \in 1 .. Len(l) + 1
  BY <1>2, <1>3 DEF ToSet
<1>6. ToSet(after) = ToSet(l) \union {e}
  <2>1. ASSUME NEW x PROVE x \in ToSet(after) <=> x \in ToSet(l) \/ x = e
    <3>1. x \in ToSet(after) <=> \E i \in 1 .. Len(l) + 1 : x = after[i]
      BY <1>3 DEF ToSet
    <3>2. x \in ToSet(l) <=> \E i \in 1 .. Len(l) : x = l[i]
      BY <1>3 DEF ToSet
    <3>3. Len(l) + 1 \in 1 .. Len(l) + 1
      BY <1>2
    <3> QED
      BY <1>2, <1>4, <1>5, <3>1, <3>2, <3>3
  <2> QED
    BY <2>1
<1>7. \A i \in 1 .. Len(l) : /\ l[i].event_id # e.event_id
                             /\ Position(l[i]) # Position(e)
  BY <1>5 DEF Consistent
<1>8. OncePerIdentity(after)
  <2>1. \A m, n \in 1 .. Len(l) :
            l[m].event_id = l[n].event_id \/ Position(l[m]) = Position(l[n]) => m = n
    BY DEF OncePerIdentity
  <2> QED
    BY <1>2, <1>4, <1>7, <2>1 DEF OncePerIdentity
<1>9. ASSUME NEW r, NEW k \in Nat, AsOffered(l, r, k), ToSet(l) = Kept(r, k),
             e = r[k + 1], NEW m \in 1 .. Len(l) + 1, NEW n \in 1 .. Len(l) + 1, m < n
      PROVE  \E i, j \in 1 .. k + 1 : i < j /\ after[m] = r[i] /\ after[n] = r[j]
  <2>1. m \in 1 .. Len(l)
    BY <1>2, <1>9
  <2>2. CASE n \in 1 .. Len(l)
    <3>1. PICK i, j \in 1 .. k : i < j /\ l[m] = r[i] /\ l[n] = r[j]
      BY <1>9, <2>1, <2>2 DEF AsOffered
    <3>2. i \in 1 .. k + 1 /\ j \in 1 .. k + 1
      BY <1>9
    <3> QED
      BY <1>2, <2>1, <2>2, <3>1, <3>2
  <2>3. CASE n = Len(l) + 1
    <3>1. PICK i \in 1 .. k : l[m] = r[i]
      BY <1>5, <1>9, <2>1 DEF Kept
    <3>2. i \in 1 .. k + 1 /\ k + 1 \in 1 .. k + 1 /\ i < k + 1
      BY <1>9
    <3> QED
      BY <1>2, <1>9, <2>1, <2>3, <3>1, <3>2
  <2> QED
    BY <1>4, <2>2, <2>3
<1>10. ASSUME NEW r, NEW k \in Nat, AsOffered(l, r, k), ToSet(l) = Kept(r, k),
              e = r[k + 1]
       PROVE  AsOffered(after, r, k + 1)
  <2>1. ASSUME NEW m \in 1 .. Len(after), NEW n \in 1 .. Len(after), m < n
        PROVE  \E i, j \in 1 .. k + 1 : i < j /\ after[m] = r[i] /\ after[n] = r[j]
    <3>1. m \in 1 .. Len(l) + 1 /\ n \in 1 .. Len(l) + 1
      BY <1>2
    <3> QED
      BY <1>9, <1>10, <2>1, <3>1
  <2> QED
    BY <2>1 DEF AsOffered
<1> QED
  BY <1>2, <1>6, <1>8, <1>10

(* A campaign begins, or nothing is run.                                   *)
LEMMA CampaignStarts ==
    ASSUME CampaignInit \/ CampaignIdle
    PROVE  CampaignInv
<1> PICK r : r = records
  OBVIOUS
<1>1. r \in Seq(Event \union {Invalid})
  <2>1. CASE CampaignInit
    BY <2>1, ScenarioRecords DEF CampaignInit
  <2>2. CASE CampaignIdle
    <3>1. r = <<>>
      BY <2>2 DEF CampaignIdle
    <3> QED
      BY <3>1
  <2> QED
    BY <2>1, <2>2
<1>2. /\ position = 0 /\ log = <<>> /\ boundary = {} /\ counts = NoCounts
      /\ phase \in {"idle", "inspect"}
  BY DEF CampaignInit, CampaignIdle
<1>3. 1 .. 0 = {} /\ Len(r) \in Nat
  BY <1>1
<1>4. Kept(r, 0) = {} /\ \A code : Flawed(r, 0, code) = {}
  BY <1>3 DEF Kept, Flawed
<1>5. \A code : Cardinality(Flawed(r, 0, code)) = 0
  BY <1>4, FS_EmptySet
<1>6. log \in Seq(Event) /\ Len(log) = 0 /\ ToSet(log) = {}
  BY <1>2 DEF ToSet
<1>10. OncePerIdentity(log)
  BY <1>3, <1>6 DEF OncePerIdentity
<1>11. position \in 0 .. Len(records)
  BY <1>2, <1>3
<1>12. ToSet(log) = Kept(records, position)
  BY <1>2, <1>4, <1>6
<1>13. AsOffered(log, records, position)
  BY <1>3, <1>6 DEF AsOffered
<1>7. LogInv
  BY <1>1, <1>6, <1>10, <1>11, <1>12, <1>13 DEF LogInv
<1>8. CountsInv
  BY <1>2, <1>5, <1>6 DEF CountsInv, NoCounts
<1>9. PhaseInv
  BY <1>2 DEF PhaseInv, CampaignInit, CampaignIdle
<1>14. SealInv
  BY <1>2 DEF SealInv, Sealing
<1> QED
  BY <1>7, <1>8, <1>9, <1>14 DEF CampaignInv, OfferedInv

(* A record is ingested: it is new, a repetition, or refused.              *)
LEMMA IngestRecordStep ==
    ASSUME CampaignInv, IngestRecord
    PROVE  CampaignInv'
<1> PICK r : r = records
  OBVIOUS
<1> PICK k : k = position
  OBVIOUS
<1> PICK l : l = log
  OBVIOUS
<1> PICK e : e = r[k + 1]
  OBVIOUS
<1>1. /\ r \in Seq(Event \union {Invalid}) /\ Len(r) \in Nat
      /\ k \in Nat /\ k < Len(r) /\ k + 1 \in 0 .. Len(r) /\ k + 1 \in 1 .. Len(r)
      /\ l \in Seq(Event) /\ Len(l) \in Nat
      /\ OncePerIdentity(l) /\ ToSet(l) = Kept(r, k) /\ AsOffered(l, r, k)
  BY DEF CampaignInv, OfferedInv, LogInv, IngestRecord
<1>2. e \in Event \union {Invalid}
  BY <1>1
<1>3. /\ records' = r /\ position' = k + 1 /\ phase = "ingest" /\ phase' = "ingest"
      /\ boundary' = boundary /\ scenario' = scenario
  BY DEF IngestRecord
<1>4. /\ boundary = InspectStream(r, DelayThreshold)
      /\ scenario \in CampaignScenarios /\ records = CampaignRecords(scenario)
  BY <1>3 DEF CampaignInv, OfferedInv, PhaseInv
<1>5. PhaseInv'
  BY <1>3, <1>4 DEF PhaseInv
<1>11. SealInv'
  <2>1. log' = SealRecord(l, e)
    BY <1>1 DEF IngestRecord, SealRecord
  <2>2. SUFFICES ASSUME NEW F, Sealing(F, r) PROVE log' = F[k + 1]
    BY <1>3 DEF SealInv
  <2>3. l = F[k] /\ k \in 0 .. Len(r) - 1
    BY <1>1, <2>2 DEF CampaignInv, SealInv
  <2> QED
    BY <2>1, <2>2, <2>3 DEF Sealing
<1> DEFINE dup(n) == Cardinality(Flawed(r, n, "duplicate_event_id"))
           inv(n) == Cardinality(Flawed(r, n, "invalid_event"))
<1>6. /\ counts = [accepted |-> Len(l), duplicate |-> dup(k), invalid |-> inv(k)]
      /\ Len(l) + dup(k) + inv(k) = k
  BY DEF CampaignInv, OfferedInv, CountsInv
<1>7. /\ dup(k) \in Nat /\ inv(k) \in Nat
      /\ dup(k + 1) = dup(k) + IF Repeated(r, k + 1) THEN 1 ELSE 0
      /\ inv(k + 1) = inv(k) + IF e = Invalid THEN 1 ELSE 0
  BY <1>1, NextFlaw DEF FlawOf
<1>8. SUFFICES
        /\ log' \in Seq(Event) /\ OncePerIdentity(log')
        /\ ToSet(log') = Kept(r, k + 1) /\ AsOffered(log', r, k + 1)
        /\ counts' = [accepted |-> Len(log'), duplicate |-> dup(k + 1), invalid |-> inv(k + 1)]
        /\ Len(log') + dup(k + 1) + inv(k + 1) = k + 1
  <2>1. OncePerIdentity(log)' <=> OncePerIdentity(log')
    BY DEF OncePerIdentity
  <2>2. AsOffered(log, records, position)' <=> AsOffered(log', r, k + 1)
    BY <1>3 DEF AsOffered
  <2> QED
    BY <1>1, <1>3, <1>5, <1>11, <2>1, <2>2
    DEF CampaignInv, OfferedInv, LogInv, CountsInv
<1>12. AsOffered(l, r, k + 1)
  <2>1. ASSUME NEW m \in 1 .. Len(l), NEW n \in 1 .. Len(l), m < n
        PROVE  \E i, j \in 1 .. k + 1 : i < j /\ l[m] = r[i] /\ l[n] = r[j]
    <3>1. PICK i, j \in 1 .. k : i < j /\ l[m] = r[i] /\ l[n] = r[j]
      BY <1>1, <2>1 DEF AsOffered
    <3>2. i \in 1 .. k + 1 /\ j \in 1 .. k + 1
      BY <1>1
    <3> QED
      BY <3>1, <3>2
  <2> QED
    BY <2>1 DEF AsOffered
<1>9. CASE e = Invalid
  <2>1. counts' = Counted(counts, "invalid") /\ log' = l
    BY <1>9 DEF IngestRecord
  <2>2. ~Repeated(r, k + 1)
    BY <1>9 DEF Repeated
  <2>3. Kept(r, k + 1) = ToSet(l)
    BY <1>1, <1>9, NextRecord
  <2> HIDE DEF dup, inv
  <2>4. counts' = [accepted |-> Len(l), duplicate |-> dup(k), invalid |-> inv(k) + 1]
    BY <1>6, <2>1 DEF Counted
  <2> QED
    BY <1>1, <1>6, <1>7, <1>9, <1>12, <2>1, <2>2, <2>3, <2>4
<1>10. CASE e # Invalid
  <2>1. e \in Event
    BY <1>2, <1>10
  <2>2. /\ Compatible(l, <<e>>)
        /\ counts' = Counted(counts, IF IsFresh(l, <<e>>, 1) THEN "accepted" ELSE "duplicate")
        /\ log' = l \o Fresh(l, <<e>>)
    BY <1>10 DEF IngestRecord
  <2>3. Consistent(ToSet(l) \union {e})
    BY <1>1, <2>1, <2>2, FreshOne DEF Compatible
  <2>4. Kept(r, k + 1) = ToSet(l) \union {e}
    BY <1>1, <1>10, NextRecord
  <2>5. Repeated(r, k + 1) <=> e \in ToSet(l)
    <3>1. 1 .. k + 1 - 1 = 1 .. k
      BY <1>1
    <3>2. Repeated(r, k + 1) <=> \E j \in 1 .. k : r[j] # Invalid /\ r[j].event_id = e.event_id
      BY <1>1, <1>10, <3>1 DEF Repeated
    <3>3. \A x : x \in ToSet(l) <=> \E j \in 1 .. k : r[j] # Invalid /\ x = r[j]
      BY <1>1 DEF Kept
    <3>4. ASSUME NEW x \in ToSet(l), x.event_id = e.event_id PROVE x = e
      BY <2>3, <3>4 DEF Consistent
    <3> QED
      BY <1>10, <3>2, <3>3, <3>4
  <2>6. CASE e \in ToSet(l)
    <3>1. log' = l /\ counts' = Counted(counts, "duplicate")
      BY <1>1, <2>1, <2>2, <2>6, FreshOne, ConcatEmptySeq
    <3> HIDE DEF dup, inv
    <3>2. counts' = [accepted |-> Len(l), duplicate |-> dup(k) + 1, invalid |-> inv(k)]
      BY <1>6, <3>1 DEF Counted
    <3>3. ToSet(l) = Kept(r, k + 1)
      BY <2>4, <2>6
    <3> QED
      BY <1>1, <1>6, <1>7, <1>10, <1>12, <2>5, <2>6, <3>1, <3>2, <3>3
  <2>7. CASE e \notin ToSet(l)
    <3>1. log' = l \o <<e>> /\ counts' = Counted(counts, "accepted")
      BY <1>1, <2>1, <2>2, <2>7, FreshOne
    <3>2. /\ log' \in Seq(Event) /\ Len(log') = Len(l) + 1
          /\ OncePerIdentity(log') /\ ToSet(log') = ToSet(l) \union {e}
          /\ AsOffered(log', r, k + 1)
      BY <1>1, <2>1, <2>3, <2>7, <3>1, LogGrows
    <3> HIDE DEF dup, inv
    <3>3. counts' = [accepted |-> Len(l) + 1, duplicate |-> dup(k), invalid |-> inv(k)]
      BY <1>6, <3>1 DEF Counted
    <3> QED
      BY <1>1, <1>6, <1>7, <1>10, <2>4, <2>5, <2>7, <3>2, <3>3
  <2> QED
    BY <2>6, <2>7
<1> QED
  BY <1>9, <1>10

(* No other step of a campaign touches its records, log or counts.         *)
LEMMA CampaignStep ==
    ASSUME CampaignInv, CampaignNext
    PROVE  CampaignInv'
<1>1. ASSUME UNCHANGED <<records, position, log, counts>>, PhaseInv'
      PROVE  CampaignInv'
  <2>1. LogInv'
    BY <1>1 DEF CampaignInv, OfferedInv, LogInv, OncePerIdentity, AsOffered
  <2>2. CountsInv'
    BY <1>1 DEF CampaignInv, OfferedInv, CountsInv
  <2>3. SealInv'
    BY <1>1 DEF CampaignInv, SealInv
  <2> QED
    BY <1>1, <2>1, <2>2, <2>3 DEF CampaignInv, OfferedInv
<1>7. PhaseInv
  BY DEF CampaignInv, OfferedInv
<1>2. CASE Inspect
  <2>1. PhaseInv'
    BY <1>2, <1>7 DEF Inspect, PhaseInv
  <2> QED
    BY <1>1, <1>2, <2>1 DEF Inspect
<1>3. CASE IngestRecord
  BY <1>3, IngestRecordStep
<1>4. CASE StartEvaluation
  <2>1. as_of' = (LatestObserved(log) + ExtraAge)'
    BY <1>4 DEF StartEvaluation, Evaluate, ExtraAge, LatestObserved
  <2>3. stored' = RowsOfLog'
    BY <1>4 DEF StartEvaluation, Evaluate, RowsOfLog
  <2>2. PhaseInv'
    BY <1>4, <1>7, <2>1, <2>3 DEF StartEvaluation, PhaseInv
  <2> QED
    BY <1>1, <1>4, <2>2 DEF StartEvaluation
<1>5. CASE SealBundle
  <2>1. as_of' = as_of /\ (LatestObserved(log) + ExtraAge)' = LatestObserved(log) + ExtraAge
    BY <1>5 DEF SealBundle, qualityVars, ExtraAge, LatestObserved
  <2>3. stored' = stored /\ RowsOfLog' = RowsOfLog
    BY <1>5 DEF SealBundle, qualityVars, RowsOfLog
  <2>4. SealedLog = log
    <3> PICK r : r = records
      OBVIOUS
    <3>1. r \in Seq(Event \union {Invalid}) /\ position = Len(r)
      BY <1>5, <1>7 DEF SealBundle, PhaseInv, CampaignInv, OfferedInv, LogInv
    <3>2. Len(r) \in Nat /\ DOMAIN r = 1 .. Len(r)
      BY <3>1
    <3>3. PICK F : Sealing(F, r) /\ F[Len(r)] = SealedLog
      BY <3>2, SealFold
    <3> QED
      BY <3>1, <3>3 DEF CampaignInv, SealInv
  <2>5. sealed' = [events |-> log, as_of |-> as_of, boundary |-> boundary]
    BY <1>5, <1>7, <2>4 DEF SealBundle, PhaseInv, ExtraAge, LatestObserved
  <2>2. PhaseInv'
    BY <1>5, <1>7, <2>1, <2>3, <2>5 DEF SealBundle, PhaseInv
  <2> QED
    BY <1>1, <1>5, <2>2 DEF SealBundle
<1>6. CASE QualityNext /\ UNCHANGED campaignVars
  <2>1. as_of' = as_of /\ (LatestObserved(log) + ExtraAge)' = LatestObserved(log) + ExtraAge
    BY <1>6 DEF QualityNext, JudgeRow, JudgeSource, campaignVars, ExtraAge, LatestObserved
  <2>3. stored' = stored /\ RowsOfLog' = RowsOfLog
    BY <1>6 DEF QualityNext, JudgeRow, JudgeSource, campaignVars, RowsOfLog
  <2>2. PhaseInv'
    BY <1>6, <1>7, <2>1, <2>3 DEF campaignVars, PhaseInv
  <2> QED
    BY <1>1, <1>6, <2>2 DEF campaignVars
<1> QED
  BY <1>2, <1>3, <1>4, <1>5, <1>6 DEF CampaignNext

(* No step of a campaign disturbs an evaluation but its own.               *)
LEMMA CampaignKeepsQuality ==
    ASSUME QualityInv, CampaignInv, CampaignNext
    PROVE  QualityInv'
<1>1. CASE Inspect \/ IngestRecord \/ SealBundle
  <2>1. UNCHANGED qualityVars
    BY <1>1 DEF Inspect, IngestRecord, SealBundle
  <2> QED
    BY <2>1, QualityIdles
<1>2. CASE StartEvaluation
  <2>1. RowsOfLog \in Seq(Row) /\ LedgerRows(RowsOfLog)
    BY LogRows DEF CampaignInv, OfferedInv
  <2>2. Evaluate(RowsOfLog, LatestObserved(log) + ExtraAge)
    BY <1>2 DEF StartEvaluation
  <2> QED
    BY <2>1, <2>2, EvaluateStep
<1>3. CASE QualityNext
  BY <1>3, JudgeRowStep, JudgeSourceStep DEF QualityNext
<1> QED
  BY <1>1, <1>2, <1>3 DEF CampaignNext

(* Where nothing happens, nothing changes.                                 *)
LEMMA CampaignIdles ==
    ASSUME CampaignInv, UNCHANGED <<campaignVars, qualityVars>>
    PROVE  CampaignInv'
<1>1. /\ scenario' = scenario /\ records' = records /\ phase' = phase
      /\ position' = position /\ log' = log /\ boundary' = boundary
      /\ counts' = counts /\ as_of' = as_of /\ stored' = stored /\ sealed' = sealed
  BY DEF campaignVars, qualityVars
<1>2. LogInv'
  BY <1>1 DEF CampaignInv, OfferedInv, LogInv
<1>3. CountsInv'
  BY <1>1 DEF CampaignInv, OfferedInv, CountsInv
<1>4. /\ (LatestObserved(log) + ExtraAge)' = LatestObserved(log) + ExtraAge
      /\ RowsOfLog' = RowsOfLog
  BY <1>1 DEF ExtraAge, LatestObserved, RowsOfLog
<1>5. PhaseInv'
  BY <1>1, <1>4 DEF CampaignInv, OfferedInv, PhaseInv
<1>6. SealInv'
  BY <1>1 DEF CampaignInv, SealInv
<1> QED
  BY <1>2, <1>3, <1>5, <1>6 DEF CampaignInv, OfferedInv

(* The findings so far are those of the rows so far, in any evaluation,    *)
(* and a campaign's ledger and counts are those of the records offered so  *)
(* far (quality.py:132-222, campaign.py:98-149).                           *)
THEOREM CampaignInvariant == CampaignSpec => [](QualityInv /\ CampaignInv)
<1>1. ASSUME (CampaignInit /\ QualityIdle) \/ (CampaignIdle /\ QualityInit)
      PROVE  QualityInv /\ CampaignInv
  <2>1. stored \in Seq(Row) /\ LedgerRows(stored)
    <3>1. CASE QualityIdle
      <4>1. stored = <<>>
        BY <3>1 DEF QualityIdle
      <4> QED
        BY <4>1 DEF LedgerRows, Increasing, NoRepeats
    <3>2. CASE QualityInit
      BY <3>2, LedgerAssumption DEF QualityInit
    <3> QED
      BY <1>1, <3>1, <3>2
  <2>2. judged = 0 /\ highest = NoRows /\ pending = {} /\ findings = {}
    BY <1>1 DEF QualityIdle, QualityInit
  <2>3. QualityInv
    BY <2>1, <2>2, QualityStart DEF EvaluationStarts, RowsInv
  <2> QED
    BY <1>1, <2>3, CampaignStarts
<1>2. ASSUME QualityInv /\ CampaignInv,
             [CampaignNext]_<<campaignVars, qualityVars>>
      PROVE  (QualityInv /\ CampaignInv)'
  <2>1. CASE CampaignNext
    BY <1>2, <2>1, CampaignStep, CampaignKeepsQuality
  <2>2. CASE UNCHANGED <<campaignVars, qualityVars>>
    BY <1>2, <2>2, CampaignIdles, QualityIdles
  <2> QED
    BY <1>2, <2>1, <2>2
<1> QED
  BY <1>1, <1>2, PTL DEF CampaignSpec

(* Every evaluation that ends, of any ledger, has found exactly the gaps,  *)
(* the regressions and the frozen runs of the ledger (quality.py:132-222). *)
THEOREM EvaluationIsExact == CampaignSpec => []FindingsExact
<1>1. QualityInv => FindingsExact
  BY FindingsAreExact
<1> QED
  BY <1>1, CampaignInvariant, PTL

-----------------------------------------------------------------------------
(* The boundary and the evaluation agree.                                  *)

(* Of the rows of a ledger the boundary reports those that are late and    *)
(* those that regress, as the evaluation does.                             *)
LEMMA BoundaryOfRows ==
    ASSUME QualityInv, Evaluated, Invalid \notin Event
    PROVE  LET found == InspectStream(EventsOf(stored), DelayThreshold)
               reported(code) == {f.event : f \in {f \in found : f.code = code}}
               judgedAs(code) == {Last(f.support).event : f \in OfCode(code)}
           IN  /\ reported("delayed_arrival") = judgedAs("delayed_arrival")
               /\ reported("source_sequence_regression")
                    = judgedAs("source_sequence_regression")
               /\ {f.code : f \in found} \subseteq
                    {"delayed_arrival", "source_sequence_regression"}
<1> PICK q : q = stored
  OBVIOUS
<1> PICK found : found = InspectStream(EventsOf(stored), DelayThreshold)
  OBVIOUS
<1> DEFINE reported(code) == {f.event : f \in {f \in found : f.code = code}}
           judgedAs(code) == {Last(f.support).event : f \in OfCode(code)}
<1>1. \A f : f \in found <=> \E i \in 1 .. Len(q) : FoundAt(q, i, f, DelayThreshold)
  <2>1. q \in Seq(Row) /\ LedgerRows(q)
    BY DEF QualityInv, RowsInv
  <2> QED
    BY <2>1, StreamOf, PolicyAssumption
<1>2. /\ \A f : f \in OfCode("delayed_arrival") <=>
            \E i \in 1 .. Len(q) : f \in DelayFindings(q[i])
      /\ \A f : f \in OfCode("source_sequence_regression") <=>
            \E i \in 1 .. Len(q) : f \in RegressionsAt(q, i)
  BY FoundByCode
<1>3. \A code, i, e : Found(code, i, e).code = code /\ Found(code, i, e).event = e
  BY DEF Found
<1>4. ASSUME NEW x
      PROVE  x \in reported("delayed_arrival") <=>
                \E i \in 1 .. Len(q) : IsLate(q, i, DelayThreshold) /\ x = q[i].event
  BY <1>1, <1>3 DEF FoundAt
<1>5. ASSUME NEW x
      PROVE  x \in reported("source_sequence_regression") <=>
                \E i \in 1 .. Len(q) : IsRegressed(q, i) /\ x = q[i].event
  BY <1>1, <1>3 DEF FoundAt
<1>6. ASSUME NEW x
      PROVE  x \in judgedAs("delayed_arrival") <=>
                \E i \in 1 .. Len(q) : IsLate(q, i, DelayThreshold) /\ x = q[i].event
  <2>1. x \in judgedAs("delayed_arrival") <=>
            \E i \in 1 .. Len(q) : \E f \in DelayFindings(q[i]) : x = Last(f.support).event
    BY <1>2
  <2>2. ASSUME NEW i \in 1 .. Len(q)
        PROVE  (\E f \in DelayFindings(q[i]) : x = Last(f.support).event)
                    <=> IsLate(q, i, DelayThreshold) /\ x = q[i].event
    <3>1. /\ \A y : Finding("delayed_arrival", <<q[i]>>, y).support = <<q[i]>>
          /\ Last(<<q[i]>>) = q[i]
      BY DEF Finding, Last
    <3> QED
      BY <3>1 DEF DelayFindings, IsLate
  <2> QED
    BY <2>1, <2>2
<1>7. ASSUME NEW x
      PROVE  x \in judgedAs("source_sequence_regression") <=>
                \E i \in 1 .. Len(q) : IsRegressed(q, i) /\ x = q[i].event
  <2>1. x \in judgedAs("source_sequence_regression") <=>
            \E i \in 1 .. Len(q) : \E f \in RegressionsAt(q, i) : x = Last(f.support).event
    BY <1>2
  <2>2. ASSUME NEW i \in 1 .. Len(q)
        PROVE  (\E f \in RegressionsAt(q, i) : x = Last(f.support).event)
                    <=> IsRegressed(q, i) /\ x = q[i].event
    <3>1. \A p : Last(Regression(q, p, i).support) = q[i]
      BY DEF Regression, Finding, Last
    <3> QED
      BY <3>1 DEF RegressionsAt, IsRegressed
  <2> QED
    BY <2>1, <2>2
<1>8. \A f \in found : f.code \in {"delayed_arrival", "source_sequence_regression"}
  BY <1>1, <1>3 DEF FoundAt
<1>9. reported("delayed_arrival") = judgedAs("delayed_arrival")
  <2> HIDE DEF reported, judgedAs
  <2> QED
    BY <1>4, <1>6
<1>10. reported("source_sequence_regression") = judgedAs("source_sequence_regression")
  <2> HIDE DEF reported, judgedAs
  <2> QED
    BY <1>5, <1>7
<1> QED
  BY <1>8, <1>9, <1>10

(* What the boundary finds wrong with a record is what the ledger makes of *)
(* it: a campaign that has offered every record has counted them so.       *)
LEMMA BoundaryOfRecords ==
    ASSUME CampaignInv, phase \in {"evaluate", "sealed"}
    PROVE  /\ Cardinality(BoundaryOf("duplicate_event_id")) = counts.duplicate
           /\ Cardinality(BoundaryOf("invalid_event")) = counts.invalid
<1> PICK r : r = records
  OBVIOUS
<1>1. /\ r \in Seq(Event \union {Invalid})
      /\ position = Len(r) /\ boundary = InspectStream(r, DelayThreshold)
  BY DEF CampaignInv, OfferedInv, LogInv, PhaseInv
<1>2. /\ counts.duplicate = Cardinality(Flawed(r, Len(r), "duplicate_event_id"))
      /\ counts.invalid = Cardinality(Flawed(r, Len(r), "invalid_event"))
  BY <1>1 DEF CampaignInv, OfferedInv, CountsInv
<1>3. ASSUME NEW code \in FlawCodes
      PROVE  Cardinality(BoundaryOf(code)) = Cardinality(Flawed(r, Len(r), code))
  BY <1>1, FlawsFound DEF BoundaryOf, Flawed
<1>4. "duplicate_event_id" \in FlawCodes /\ "invalid_event" \in FlawCodes
  BY DEF FlawCodes
<1> QED
  BY <1>2, <1>3, <1>4

(* The classifier at the boundary and the evaluation agree about every     *)
(* ledger, and about the records of every campaign (stream.py:31-53,       *)
(* quality.py:133-164).                                                    *)
THEOREM ClassifiersAlwaysAgree == CampaignSpec => []ClassifiersAgree
<1>1. ASSUME QualityInv, CampaignInv PROVE ClassifiersAgree
  <2>1. ASSUME CampaignDone
        PROVE  /\ Cardinality(BoundaryOf("duplicate_event_id")) = counts.duplicate
               /\ Cardinality(BoundaryOf("invalid_event")) = counts.invalid
    BY <1>1, <2>1, BoundaryOfRecords DEF CampaignDone
  <2>2. SUFFICES ASSUME Evaluated
                 PROVE  LET found == InspectStream(EventsOf(stored), DelayThreshold)
                            reported(code) == {f.event : f \in {f \in found : f.code = code}}
                            judgedAs(code) == {Last(f.support).event : f \in OfCode(code)}
                        IN  /\ reported("delayed_arrival") = judgedAs("delayed_arrival")
                            /\ reported("source_sequence_regression")
                                    = judgedAs("source_sequence_regression")
                            /\ {f.code : f \in found} \subseteq
                                    {"delayed_arrival", "source_sequence_regression"}
    BY <2>1 DEF ClassifiersAgree
  <2> QED
    BY <1>1, <2>2, BoundaryOfRows, CampaignAssumption
<1>2. QualityInv /\ CampaignInv => ClassifiersAgree
  BY <1>1
<1> QED
  BY <1>2, CampaignInvariant, PTL

-----------------------------------------------------------------------------
(* What is detected of a scenario at the boundary.                         *)

(* Record i is an event that no earlier record brought.                    *)
NewAt(r, i) == r[i] # Invalid /\ ~Repeated(r, i)

(* The boundary reports record i under this code.                          *)
CodeAt(r, i, code, d) ==
    \/ code = "invalid_event" /\ r[i] = Invalid
    \/ code = "duplicate_event_id" /\ Repeated(r, i)
    \/ /\ code = "delayed_arrival" /\ NewAt(r, i)
       /\ r[i].ingested_at > r[i].observed_at + d
    \/ /\ code = "source_sequence_regression" /\ NewAt(r, i)
       /\ \E j \in 1 .. i - 1 :
            /\ NewAt(r, j) /\ r[j].source_id = r[i].source_id
            /\ r[i].source_sequence <= r[j].source_sequence

(* What the boundary knows after the first k records.                      *)
Watched(r, k, seen, d) ==
    /\ seen = [ids |-> seen.ids, last |-> seen.last, findings |-> seen.findings]
    /\ \A id : id \in seen.ids <=>
            \E i \in 1 .. k : r[i] # Invalid /\ r[i].event_id = id
    /\ \A s : s \in DOMAIN seen.last <=>
            \E i \in 1 .. k : NewAt(r, i) /\ r[i].source_id = s
    /\ \A s \in DOMAIN seen.last :
            \E p \in 1 .. k : /\ NewAt(r, p) /\ r[p].source_id = s
                              /\ seen.last[s] = r[p].source_sequence
    /\ \A p \in 1 .. k :
            NewAt(r, p) => r[p].source_sequence <= seen.last[r[p].source_id]
    /\ \A code : (\E f \in seen.findings : f.code = code) <=>
            \E i \in 1 .. k : CodeAt(r, i, code, d)

(* One record more at the boundary.                                        *)
LEMMA WatchedStep ==
    ASSUME NEW r \in Seq(Event \union {Invalid}), NEW d \in Nat, NEW k \in Nat,
           k + 1 <= Len(r), NEW seen, Watched(r, k, seen, d)
    PROVE  Watched(r, k + 1, InspectRecord(seen, k + 1, r[k + 1], d), d)
<1> PICK after : after = InspectRecord(seen, k + 1, r[k + 1], d)
  OBVIOUS
<1> PICK e : e = r[k + 1]
  OBVIOUS
<1>1. /\ k + 1 \in 1 .. k + 1 /\ 1 .. (k + 1) - 1 = 1 .. k
      /\ \A j \in 1 .. k : j \in 1 .. k + 1
      /\ \A j \in 1 .. k + 1 : j \in 1 .. k \/ j = k + 1
  OBVIOUS
<1>2. \A code, i, x : Found(code, i, x).code = code
  BY DEF Found
<1>3. ASSUME NEW i \in 1 .. k + 1, r[i] # Invalid PROVE r[i].source_sequence \in Nat
  <2>1. r[i] \in Event
    BY <1>3
  <2> QED
    BY <2>1 DEF Event
<1>4. Repeated(r, k + 1) <=> e # Invalid /\ e.event_id \in seen.ids
  <2>1. e.event_id \in seen.ids <=>
            \E i \in 1 .. k : r[i] # Invalid /\ r[i].event_id = e.event_id
    BY DEF Watched
  <2>2. Repeated(r, k + 1) <=> /\ e # Invalid
                               /\ \E i \in 1 .. k : /\ r[i] # Invalid
                                                    /\ r[i].event_id = e.event_id
    BY <1>1 DEF Repeated
  <2> QED
    BY <2>1, <2>2
<1>5. CASE e = Invalid \/ Repeated(r, k + 1)
  <2> DEFINE code1 == IF e = Invalid THEN "invalid_event" ELSE "duplicate_event_id"
             found == seen.findings \union {Found(code1, k + 1, e)}
  <2>1. after = [ids |-> seen.ids, last |-> seen.last, findings |-> found]
    <3>1. after = [seen EXCEPT !.findings = found]
      BY <1>4, <1>5 DEF InspectRecord
    <3> HIDE DEF found
    <3> QED
      BY <3>1 DEF Watched
  <2>2. ~NewAt(r, k + 1)
    BY <1>5 DEF NewAt
  <2>3. \A code : CodeAt(r, k + 1, code, d) <=> code = code1
    BY <1>4, <1>5, <2>2 DEF CodeAt
  <2>4. e # Invalid => e.event_id \in seen.ids
    BY <1>4, <1>5
  <2> HIDE DEF code1
  <2>5. \A code : (\E f \in after.findings : f.code = code) <=>
                        (\E f \in seen.findings : f.code = code) \/ code = code1
    BY <1>2, <2>1
  <2> HIDE DEF found
  <2>6. after.ids = seen.ids /\ after.last = seen.last
        /\ after = [ids |-> after.ids, last |-> after.last, findings |-> after.findings]
    BY <2>1
  <2>7. \A id : id \in after.ids <=>
            \E i \in 1 .. k + 1 : r[i] # Invalid /\ r[i].event_id = id
    BY <1>1, <2>4, <2>6 DEF Watched
  <2>10. \A s : s \in DOMAIN after.last <=>
                \E i \in 1 .. k + 1 : NewAt(r, i) /\ r[i].source_id = s
    BY <1>1, <2>2, <2>6 DEF Watched
  <2>11. ASSUME NEW s \in DOMAIN after.last
         PROVE  \E p \in 1 .. k + 1 : /\ NewAt(r, p) /\ r[p].source_id = s
                                      /\ after.last[s] = r[p].source_sequence
    <3>1. PICK p \in 1 .. k : /\ NewAt(r, p) /\ r[p].source_id = s
                              /\ seen.last[s] = r[p].source_sequence
      BY <2>6 DEF Watched
    <3> QED
      BY <1>1, <2>6, <3>1
  <2>12. \A p \in 1 .. k + 1 :
                NewAt(r, p) => r[p].source_sequence <= after.last[r[p].source_id]
    BY <1>1, <2>2, <2>6 DEF Watched
  <2>9. \A code : (\E f \in after.findings : f.code = code) <=>
                        \E i \in 1 .. k + 1 : CodeAt(r, i, code, d)
    BY <1>1, <2>3, <2>5 DEF Watched
  <2> QED
    BY <2>6, <2>7, <2>9, <2>10, <2>11, <2>12 DEF Watched
<1>6. CASE e # Invalid /\ ~Repeated(r, k + 1)
  <2> DEFINE s == e.source_id
             regressed == {Found("source_sequence_regression", k + 1, e) : t \in
                            {t \in DOMAIN seen.last : t = e.source_id
                                /\ e.source_sequence <= seen.last[t]}}
             late == IF e.ingested_at > e.observed_at + d
                     THEN {Found("delayed_arrival", k + 1, e)} ELSE {}
  <2>1. NewAt(r, k + 1) /\ e.event_id \notin seen.ids
    BY <1>4, <1>6 DEF NewAt
  <2>2. /\ after.ids = seen.ids \union {e.event_id}
        /\ after.last = [t \in DOMAIN seen.last \union {s} |->
                            IF t = s THEN HighWater(e, seen.last) ELSE seen.last[t]]
        /\ after.findings = (seen.findings \union regressed) \union late
        /\ after = [ids |-> after.ids, last |-> after.last, findings |-> after.findings]
    BY <1>6, <2>1 DEF InspectRecord
  <2>3. \A code : (\E f \in late : f.code = code) <=>
            code = "delayed_arrival" /\ e.ingested_at > e.observed_at + d
    BY <1>2
  <2>4. \A code : (\E f \in regressed : f.code = code) <=>
            /\ code = "source_sequence_regression"
            /\ s \in DOMAIN seen.last /\ e.source_sequence <= seen.last[s]
    BY <1>2
  <2> HIDE DEF regressed, late
  <2>5. e.source_sequence \in Nat
    BY <1>1, <1>3, <1>6
  <2>6. ASSUME s \in DOMAIN seen.last
        PROVE  \E p \in 1 .. k : /\ NewAt(r, p) /\ r[p].source_id = s
                                 /\ seen.last[s] = r[p].source_sequence
                                 /\ seen.last[s] \in Nat
    <3>1. PICK p \in 1 .. k : /\ NewAt(r, p) /\ r[p].source_id = s
                              /\ seen.last[s] = r[p].source_sequence
      BY <2>6 DEF Watched
    <3>2. r[p].source_sequence \in Nat
      BY <1>1, <1>3, <3>1 DEF NewAt
    <3> QED
      BY <3>1, <3>2
  <2>7. /\ s \in DOMAIN seen.last =>
                HighWater(e, seen.last) = IF e.source_sequence >= seen.last[s]
                                          THEN e.source_sequence ELSE seen.last[s]
        /\ s \notin DOMAIN seen.last => HighWater(e, seen.last) = e.source_sequence
    BY <2>5, <2>6, MaxOfTwo DEF HighWater
  <2>8. \A id : id \in after.ids <=>
            \E i \in 1 .. k + 1 : r[i] # Invalid /\ r[i].event_id = id
    BY <1>1, <1>6, <2>2 DEF Watched
  <2>9. \A t : t \in DOMAIN after.last <=>
            \E i \in 1 .. k + 1 : NewAt(r, i) /\ r[i].source_id = t
    BY <1>1, <2>1, <2>2 DEF Watched
  <2>10. ASSUME NEW t \in DOMAIN after.last
         PROVE  \E p \in 1 .. k + 1 : /\ NewAt(r, p) /\ r[p].source_id = t
                                      /\ after.last[t] = r[p].source_sequence
    <3>1. CASE t # s
      BY <1>1, <2>2, <3>1 DEF Watched
    <3>2. CASE t = s /\ after.last[s] = e.source_sequence
      BY <1>1, <2>1, <3>2
    <3>3. CASE t = s /\ after.last[s] # e.source_sequence
      <4>1. s \in DOMAIN seen.last /\ after.last[s] = seen.last[s]
        BY <2>2, <2>7, <3>3
      <4> QED
        BY <1>1, <2>6, <3>3, <4>1
    <3> QED
      BY <3>1, <3>2, <3>3
  <2>11. ASSUME NEW p \in 1 .. k + 1, NewAt(r, p)
         PROVE  r[p].source_sequence <= after.last[r[p].source_id]
    <3>1. CASE p = k + 1
      BY <2>2, <2>5, <2>6, <2>7, <3>1
    <3>2. CASE p \in 1 .. k
      <4>1. /\ r[p].source_sequence <= seen.last[r[p].source_id]
            /\ r[p].source_id \in DOMAIN seen.last /\ r[p].source_sequence \in Nat
        BY <1>3, <2>11, <3>2 DEF Watched, NewAt
      <4>2. CASE r[p].source_id = s
        BY <2>2, <2>5, <2>6, <2>7, <4>1, <4>2
      <4>3. CASE r[p].source_id # s
        BY <2>2, <4>1, <4>3
      <4> QED
        BY <4>2, <4>3
    <3> QED
      BY <1>1, <3>1, <3>2
  <2>12. (s \in DOMAIN seen.last /\ e.source_sequence <= seen.last[s]) <=>
            \E j \in 1 .. k : /\ NewAt(r, j) /\ r[j].source_id = s
                              /\ e.source_sequence <= r[j].source_sequence
    <3>1. ASSUME s \in DOMAIN seen.last, e.source_sequence <= seen.last[s]
          PROVE  \E j \in 1 .. k : /\ NewAt(r, j) /\ r[j].source_id = s
                                   /\ e.source_sequence <= r[j].source_sequence
      BY <2>6, <3>1
    <3>2. ASSUME NEW j \in 1 .. k, NewAt(r, j), r[j].source_id = s,
                 e.source_sequence <= r[j].source_sequence
          PROVE  s \in DOMAIN seen.last /\ e.source_sequence <= seen.last[s]
      <4>1. s \in DOMAIN seen.last /\ r[j].source_sequence <= seen.last[s]
        BY <3>2 DEF Watched
      <4>2. r[j].source_sequence \in Nat /\ seen.last[s] \in Nat
        BY <1>1, <1>3, <2>6, <3>2, <4>1 DEF NewAt
      <4> QED
        BY <2>5, <3>2, <4>1, <4>2
    <3> QED
      BY <3>1, <3>2
  <2>13. \A code : CodeAt(r, k + 1, code, d) <=>
            \/ code = "delayed_arrival" /\ e.ingested_at > e.observed_at + d
            \/ /\ code = "source_sequence_regression"
               /\ s \in DOMAIN seen.last /\ e.source_sequence <= seen.last[s]
    BY <1>1, <1>6, <2>1, <2>12 DEF CodeAt
  <2>14. \A code : (\E f \in after.findings : f.code = code) <=>
            (\E f \in seen.findings : f.code = code) \/ CodeAt(r, k + 1, code, d)
    BY <2>2, <2>3, <2>4, <2>13
  <2>15. \A code : (\E f \in after.findings : f.code = code) <=>
            \E i \in 1 .. k + 1 : CodeAt(r, i, code, d)
    BY <1>1, <2>14 DEF Watched
  <2> QED
    BY <2>2, <2>8, <2>9, <2>10, <2>11, <2>15 DEF Watched
<1> QED
  BY <1>5, <1>6

(* The codes the boundary reports of any records.                          *)
LEMMA CodesAtBoundary ==
    ASSUME NEW r \in Seq(Event \union {Invalid}), NEW d \in Nat
    PROVE  \A code : (\E f \in InspectStream(r, d) : f.code = code) <=>
                \E i \in 1 .. Len(r) : CodeAt(r, i, code, d)
<1>1. Len(r) \in Nat /\ DOMAIN r = 1 .. Len(r)
  OBVIOUS
<1>2. PICK F : /\ F[0] = NothingSeen
               /\ \A k \in 0 .. Len(r) - 1 :
                    F[k + 1] = InspectRecord(F[k], k + 1, r[k + 1], d)
               /\ F[Len(r)].findings = InspectStream(r, d)
  BY <1>1, StreamFold
<1> DEFINE P == {k \in Nat : k <= Len(r) => Watched(r, k, F[k], d)}
<1>3. 0 \in P
  <2>1. 1 .. 0 = {}
    OBVIOUS
  <2>2. Watched(r, 0, NothingSeen, d)
    BY <2>1 DEF Watched, NothingSeen
  <2> QED
    BY <1>2, <2>2
<1>4. ASSUME NEW k \in P PROVE k + 1 \in P
  <2>1. SUFFICES ASSUME k + 1 <= Len(r) PROVE Watched(r, k + 1, F[k + 1], d)
    OBVIOUS
  <2>2. k \in 0 .. Len(r) - 1 /\ Watched(r, k, F[k], d)
    BY <1>1, <2>1
  <2> QED
    BY <1>2, <2>1, <2>2, WatchedStep
<1>5. P = Nat
  <2> HIDE DEF P
  <2>1. P \in SUBSET Nat
    BY DEF P
  <2> QED
    BY <1>3, <1>4, <2>1, Induction
<1>6. Watched(r, Len(r), F[Len(r)], d)
  BY <1>1, <1>5
<1> QED
  BY <1>2, <1>6 DEF Watched

IsRefused(sc, i) == sc = "malformed" /\ i = 5

(* Where the sequence numbers of a scenario repeat, step back or are       *)
(* missing.                                                                *)
LEMMA SequencesOfRecords ==
    ASSUME NEW sc \in CampaignScenarios
    PROVE  /\ \A i \in 1 .. RecordCount(sc) : SequenceOfRecord(sc, i) \in 0 .. 7
           /\ \A n \in 0 .. 7 :
                (\E i \in 1 .. RecordCount(sc) :
                    ~IsRefused(sc, i) /\ SequenceOfRecord(sc, i) = n)
                        <=> ~(sc \in {"malformed", "missing"} /\ n = 4)
           /\ sc # "duplicate" => \A i, j \in 1 .. RecordCount(sc) :
                SequenceOfRecord(sc, i) = SequenceOfRecord(sc, j) => i = j
           /\ sc # "reordered" => \A i, j \in 1 .. RecordCount(sc) :
                i < j => SequenceOfRecord(sc, i) <= SequenceOfRecord(sc, j)
           /\ RecordCount(sc) \in {7, 8, 9}
<1>1. CASE sc = "duplicate"
  <2>1. RecordCount(sc) = 9
    BY <1>1 DEF RecordCount
  <2>2. \A i \in 1 .. 9 : SequenceOfRecord(sc, i) = IF i <= 5 THEN i - 1 ELSE i - 2
    BY <1>1 DEF SequenceOfRecord
  <2>3. ASSUME NEW n \in 0 .. 7
        PROVE  \E i \in 1 .. 9 : ~IsRefused(sc, i) /\ SequenceOfRecord(sc, i) = n
    <3>1. CASE n <= 4
      <4>1. n + 1 \in 1 .. 9 /\ SequenceOfRecord(sc, n + 1) = n
        BY <2>2, <3>1
      <4> QED
        BY <1>1, <4>1 DEF IsRefused
    <3>2. CASE ~(n <= 4)
      <4>1. n + 2 \in 1 .. 9 /\ SequenceOfRecord(sc, n + 2) = n
        BY <2>2, <3>2
      <4> QED
        BY <1>1, <4>1 DEF IsRefused
    <3> QED
      BY <3>1, <3>2
  <2> QED
    BY <1>1, <2>1, <2>2, <2>3
<1>2. CASE sc = "missing"
  <2>1. RecordCount(sc) = 7
    BY <1>2 DEF RecordCount
  <2>2. \A i \in 1 .. 7 : SequenceOfRecord(sc, i) = IF i <= 4 THEN i - 1 ELSE i
    BY <1>2 DEF SequenceOfRecord
  <2>3. ASSUME NEW n \in 0 .. 7, n # 4
        PROVE  \E i \in 1 .. 7 : ~IsRefused(sc, i) /\ SequenceOfRecord(sc, i) = n
    <3>1. CASE n <= 4
      <4>1. n + 1 \in 1 .. 7 /\ SequenceOfRecord(sc, n + 1) = n
        BY <2>2, <2>3, <3>1
      <4> QED
        BY <1>2, <4>1 DEF IsRefused
    <3>2. CASE ~(n <= 4)
      <4>1. n \in 1 .. 7 /\ SequenceOfRecord(sc, n) = n
        BY <2>2, <3>2
      <4> QED
        BY <1>2, <4>1 DEF IsRefused
    <3> QED
      BY <3>1, <3>2
  <2>4. \A i \in 1 .. 7 : SequenceOfRecord(sc, i) # 4
    BY <2>2
  <2>5. \A n \in 0 .. 7 :
            (\E i \in 1 .. RecordCount(sc) :
                ~IsRefused(sc, i) /\ SequenceOfRecord(sc, i) = n)
                    <=> ~(sc \in {"malformed", "missing"} /\ n = 4)
    BY <1>2, <2>1, <2>3, <2>4
  <2> QED
    BY <1>2, <2>1, <2>2, <2>5
<1>3. CASE sc = "reordered"
  <2>1. RecordCount(sc) = 8
    BY <1>3 DEF RecordCount
  <2>2. \A i \in 1 .. 8 : SequenceOfRecord(sc, i) =
                IF i = 5 THEN 5 ELSE IF i = 6 THEN 4 ELSE i - 1
    BY <1>3 DEF SequenceOfRecord
  <2>3. ASSUME NEW n \in 0 .. 7
        PROVE  \E i \in 1 .. 8 : ~IsRefused(sc, i) /\ SequenceOfRecord(sc, i) = n
    <3> DEFINE i == IF n = 5 THEN 5 ELSE IF n = 4 THEN 6 ELSE n + 1
    <3>1. i \in 1 .. 8 /\ SequenceOfRecord(sc, i) = n
      BY <2>2
    <3> QED
      BY <1>3, <3>1 DEF IsRefused
  <2> QED
    BY <1>3, <2>1, <2>2, <2>3
<1>4. CASE sc \notin {"duplicate", "missing", "reordered"}
  <2>1. RecordCount(sc) = 8
    BY <1>4 DEF RecordCount
  <2>2. \A i \in 1 .. 8 : SequenceOfRecord(sc, i) = i - 1
    BY <1>4 DEF SequenceOfRecord
  <2>3. ASSUME NEW n \in 0 .. 7
        PROVE  (\E i \in 1 .. 8 : ~IsRefused(sc, i) /\ SequenceOfRecord(sc, i) = n)
                    <=> ~(sc = "malformed" /\ n = 4)
    <3>1. n + 1 \in 1 .. 8 /\ SequenceOfRecord(sc, n + 1) = n
      BY <2>2
    <3>2. \A i \in 1 .. 8 : SequenceOfRecord(sc, i) = n => i = n + 1
      BY <2>2
    <3> QED
      BY <3>1, <3>2 DEF IsRefused
  <2> QED
    BY <1>4, <2>1, <2>2, <2>3
<1> QED
  BY <1>1, <1>2, <1>3, <1>4

(* What a scenario's records are, said of any of them.                     *)
LEMMA RecordFacts ==
    ASSUME NEW sc \in CampaignScenarios, NEW r, r = CampaignRecords(sc)
    PROVE  /\ r \in Seq(Event \union {Invalid}) /\ Len(r) = RecordCount(sc)
           /\ \A i \in 1 .. Len(r) :
                /\ r[i] = Invalid <=> IsRefused(sc, i)
                /\ ~IsRefused(sc, i) => IsEventOf(sc, r[i], SequenceOfRecord(sc, i))
           /\ \A i \in 1 .. Len(r) : Repeated(r, i) <=>
                /\ ~IsRefused(sc, i)
                /\ \E j \in 1 .. i - 1 : /\ ~IsRefused(sc, j)
                                         /\ SequenceOfRecord(sc, j) = SequenceOfRecord(sc, i)
<1>1. /\ r \in Seq(Event \union {Invalid}) /\ Len(r) = RecordCount(sc) /\ Len(r) \in Nat
      /\ \A i \in 1 .. Len(r) : IsRecordOf(sc, r[i], i)
  BY ScenarioRecords
<1>2. ASSUME NEW i \in 1 .. Len(r)
      PROVE  /\ r[i] = Invalid <=> IsRefused(sc, i)
             /\ ~IsRefused(sc, i) => IsEventOf(sc, r[i], SequenceOfRecord(sc, i))
  BY <1>1, CampaignAssumption DEF IsRecordOf, IsRefused, IsEventOf
<1>3. ASSUME NEW i \in 1 .. Len(r)
      PROVE  Repeated(r, i) <=>
                /\ ~IsRefused(sc, i)
                /\ \E j \in 1 .. i - 1 : /\ ~IsRefused(sc, j)
                                         /\ SequenceOfRecord(sc, j) = SequenceOfRecord(sc, i)
  <2>1. \A j \in 1 .. i - 1 : j \in 1 .. Len(r)
    BY <1>1
  <2>2. \A j \in 1 .. Len(r) : ~IsRefused(sc, j) => r[j].event_id = SequenceOfRecord(sc, j)
    BY <1>2 DEF IsEventOf
  <2> QED
    BY <1>2, <2>1, <2>2 DEF Repeated
<1> QED
  BY <1>1, <1>2, <1>3

(* The policies under which each fault shows and nothing else does.  The   *)
(* campaign's own, QualityPolicy() and the default of inspect_stream (60,  *)
(* 60 and 3), is one.  The bounds are the best possible: under any other   *)
(* threshold a fault goes unnoticed or plain records are reported.         *)
DetectingPolicy ==
    /\ DelayThreshold \in 1 .. 119
    /\ StaleAfter \in 1 .. 119
    /\ FrozenRunLength <= 3

BoundaryCodes(sc) ==
    CASE sc = "delayed"   -> {"delayed_arrival"}
      [] sc = "duplicate" -> {"duplicate_event_id"}
      [] sc = "reordered" -> {"source_sequence_regression"}
      [] sc = "malformed" -> {"invalid_event"}
      [] OTHER            -> {}

(* The boundary detects the faults that show in one record or two.         *)
LEMMA BoundaryOfScenario ==
    ASSUME DetectingPolicy, NEW sc \in CampaignScenarios, NEW r, r = CampaignRecords(sc)
    PROVE  {f.code : f \in InspectStream(r, DelayThreshold)} = BoundaryCodes(sc)
<1> DEFINE S(i) == SequenceOfRecord(sc, i)
<1>1. /\ r \in Seq(Event \union {Invalid}) /\ Len(r) = RecordCount(sc)
      /\ \A i \in 1 .. Len(r) :
            /\ r[i] = Invalid <=> IsRefused(sc, i)
            /\ ~IsRefused(sc, i) => IsEventOf(sc, r[i], S(i))
      /\ \A i \in 1 .. Len(r) : Repeated(r, i) <=>
            /\ ~IsRefused(sc, i)
            /\ \E j \in 1 .. i - 1 : ~IsRefused(sc, j) /\ S(j) = S(i)
  BY RecordFacts
<1>2. /\ \A i \in 1 .. Len(r) : S(i) \in 0 .. 7
      /\ sc # "duplicate" => \A i, j \in 1 .. Len(r) : S(i) = S(j) => i = j
      /\ sc # "reordered" => \A i, j \in 1 .. Len(r) : i < j => S(i) <= S(j)
      /\ Len(r) \in {7, 8, 9}
  BY <1>1, SequencesOfRecords
<1>3. (\E i \in 1 .. Len(r) : r[i] = Invalid) <=> sc = "malformed"
  BY <1>1, <1>2 DEF IsRefused
<1>4. (\E i \in 1 .. Len(r) : Repeated(r, i)) <=> sc = "duplicate"
  <2>1. ASSUME sc # "duplicate", NEW i \in 1 .. Len(r) PROVE ~Repeated(r, i)
    <3>1. \A j \in 1 .. i - 1 : j \in 1 .. Len(r) /\ j # i
      BY <1>2
    <3> QED
      BY <1>1, <1>2, <2>1, <3>1
  <2>2. ASSUME sc = "duplicate" PROVE 6 \in 1 .. Len(r) /\ Repeated(r, 6)
    <3>1. Len(r) = 9
      BY <1>1, <2>2 DEF RecordCount
    <3>2. S(5) = 4 /\ S(6) = 4
      BY <2>2 DEF SequenceOfRecord
    <3>3. 6 \in 1 .. Len(r) /\ 5 \in 1 .. 6 - 1
      BY <3>1
    <3> HIDE DEF S
    <3> QED
      BY <1>1, <2>2, <3>2, <3>3 DEF IsRefused
  <2> QED
    BY <2>1, <2>2
<1>5. ASSUME NEW i \in 1 .. Len(r), ~IsRefused(sc, i)
      PROVE  /\ r[i].ingested_at > r[i].observed_at + DelayThreshold
                    <=> sc = "delayed" /\ S(i) = 4
             /\ r[i].source_sequence = S(i) /\ r[i].source_id = SimulatedSource
  <2>1. IsEventOf(sc, r[i], S(i)) /\ S(i) \in 0 .. 7
    BY <1>1, <1>2, <1>5
  <2> HIDE DEF S
  <2>2. /\ r[i].observed_at = S(i) * 10
        /\ r[i].ingested_at = S(i) * 10 + LagOfEvent(sc, S(i))
    BY <2>1 DEF IsEventOf
  <2>3. S(i) * 10 \in Nat
    BY <2>1
  <2>4. LagOfEvent(sc, S(i)) = IF sc = "delayed" /\ S(i) = 4 THEN 120 ELSE 1
    BY DEF LagOfEvent
  <2>5. r[i].ingested_at > r[i].observed_at + DelayThreshold
            <=> LagOfEvent(sc, S(i)) > DelayThreshold
    <3>1. PICK a \in Nat : a = S(i) * 10
      BY <2>3
    <3>2. PICK lag \in Nat : lag = LagOfEvent(sc, S(i))
      BY <2>4
    <3>3. PICK d \in Nat : d = DelayThreshold
      BY PolicyAssumption
    <3>4. a + lag > a + d <=> lag > d
      OBVIOUS
    <3> QED
      BY <2>2, <3>1, <3>2, <3>3, <3>4
  <2> QED
    BY <2>1, <2>4, <2>5 DEF DetectingPolicy, IsEventOf
<1>6. (\E i \in 1 .. Len(r) : /\ NewAt(r, i)
                              /\ r[i].ingested_at > r[i].observed_at + DelayThreshold)
            <=> sc = "delayed"
  <2>1. ASSUME sc = "delayed"
        PROVE  /\ 5 \in 1 .. Len(r) /\ NewAt(r, 5)
               /\ r[5].ingested_at > r[5].observed_at + DelayThreshold
    <3>1. S(5) = 4
      BY <2>1 DEF SequenceOfRecord
    <3> HIDE DEF S
    <3>4. Len(r) = 8
      BY <1>1, <2>1 DEF RecordCount
    <3>5. 5 \in 1 .. Len(r)
      BY <3>4
    <3>3. 5 \in 1 .. Len(r) /\ ~IsRefused(sc, 5)
      BY <2>1, <3>5 DEF IsRefused
    <3>2. NewAt(r, 5)
      BY <1>1, <1>4, <2>1, <3>3 DEF NewAt
    <3> QED
      BY <1>5, <2>1, <3>1, <3>2, <3>3
  <2> HIDE DEF S
  <2> QED
    BY <1>1, <1>5, <2>1 DEF NewAt
<1>7. (\E i \in 1 .. Len(r) : NewAt(r, i) /\ \E j \in 1 .. i - 1 :
            /\ NewAt(r, j) /\ r[j].source_id = r[i].source_id
            /\ r[i].source_sequence <= r[j].source_sequence)
        <=> sc = "reordered"
  <2>1. ASSUME NEW i \in 1 .. Len(r), NewAt(r, i), NEW j \in 1 .. i - 1, NewAt(r, j),
               r[i].source_sequence <= r[j].source_sequence
        PROVE  sc = "reordered"
    <3>1. j \in 1 .. Len(r) /\ j < i /\ ~IsRefused(sc, i) /\ ~IsRefused(sc, j)
      BY <1>1, <1>2, <2>1 DEF NewAt
    <3> HIDE DEF S
    <3>2. S(i) <= S(j) /\ S(i) \in 0 .. 7 /\ S(j) \in 0 .. 7
      BY <1>2, <1>5, <2>1, <3>1
    <3>3. S(i) # S(j)
      BY <1>1, <2>1, <3>1 DEF NewAt
    <3> QED
      BY <1>2, <3>1, <3>2, <3>3
  <2>2. ASSUME sc = "reordered"
        PROVE  /\ 6 \in 1 .. Len(r) /\ NewAt(r, 6)
               /\ 5 \in 1 .. 6 - 1 /\ NewAt(r, 5) /\ r[5].source_id = r[6].source_id
               /\ r[6].source_sequence <= r[5].source_sequence
    <3>1. /\ S(5) = 5 /\ S(6) = 4 /\ Len(r) = 8
          /\ ~IsRefused(sc, 5) /\ ~IsRefused(sc, 6)
      BY <1>1, <2>2 DEF SequenceOfRecord, RecordCount, IsRefused
    <3>2. 5 \in 1 .. Len(r) /\ 6 \in 1 .. Len(r) /\ 5 \in 1 .. 6 - 1
      BY <3>1
    <3> HIDE DEF S
    <3>3. NewAt(r, 5) /\ NewAt(r, 6)
      BY <1>1, <1>4, <2>2, <3>1, <3>2 DEF NewAt
    <3> QED
      BY <1>5, <3>1, <3>2, <3>3
  <2> QED
    BY <2>1, <2>2
<1> HIDE DEF S
<1>8. \A code : (\E i \in 1 .. Len(r) : CodeAt(r, i, code, DelayThreshold)) <=>
            \/ code = "invalid_event" /\ sc = "malformed"
            \/ code = "duplicate_event_id" /\ sc = "duplicate"
            \/ code = "delayed_arrival" /\ sc = "delayed"
            \/ code = "source_sequence_regression" /\ sc = "reordered"
  BY <1>3, <1>4, <1>6, <1>7 DEF CodeAt
<1>9. \A code : (\E f \in InspectStream(r, DelayThreshold) : f.code = code) <=>
            \E i \in 1 .. Len(r) : CodeAt(r, i, code, DelayThreshold)
  BY <1>1, CodesAtBoundary, PolicyAssumption
<1>10. ASSUME NEW code
       PROVE  code \in BoundaryCodes(sc) <=>
                \/ code = "invalid_event" /\ sc = "malformed"
                \/ code = "duplicate_event_id" /\ sc = "duplicate"
                \/ code = "delayed_arrival" /\ sc = "delayed"
                \/ code = "source_sequence_regression" /\ sc = "reordered"
  BY DEF BoundaryCodes
<1>11. \A code : code \in {f.code : f \in InspectStream(r, DelayThreshold)} <=>
                    \E f \in InspectStream(r, DelayThreshold) : f.code = code
  OBVIOUS
<1> QED
  BY <1>8, <1>9, <1>10, <1>11

-----------------------------------------------------------------------------
(* What is detected of a scenario in the ledger.                           *)

IsLost(sc, n) == sc \in {"malformed", "missing"} /\ n = 4

(* The rows q are the events of a scenario that were not lost.             *)
HoldsScenario(sc, q) ==
    /\ \A i \in 1 .. Len(q) : /\ SequenceOf(q[i]) \in 0 .. 7
                              /\ IsEventOf(sc, q[i].event, SequenceOf(q[i]))
    /\ \A n \in 0 .. 7 :
            (\E i \in 1 .. Len(q) : SequenceOf(q[i]) = n) <=> ~IsLost(sc, n)

(* The log of a campaign that has offered every record holds its scenario, *)
(* in order unless that is the fault.                                      *)
LEMMA LoggedScenario ==
    ASSUME OfferedInv, phase \in {"evaluate", "sealed"}
    PROVE  /\ scenario \in CampaignScenarios
           /\ HoldsScenario(scenario, stored)
           /\ scenario # "reordered" => \A i, j \in 1 .. Len(stored) :
                i < j => SequenceOf(stored[i]) <= SequenceOf(stored[j])
           /\ as_of = 70 + ExtraAge
<1> PICK sc : sc = scenario
  OBVIOUS
<1> PICK r : r = records
  OBVIOUS
<1> PICK l : l = log
  OBVIOUS
<1> PICK q : q = stored
  OBVIOUS
<1> DEFINE S(i) == SequenceOfRecord(sc, i)
<1>1. /\ sc \in CampaignScenarios /\ r = CampaignRecords(sc) /\ position = Len(r)
      /\ l \in Seq(Event) /\ ToSet(l) = Kept(r, Len(r)) /\ AsOffered(l, r, Len(r))
      /\ q = RowsOfLog /\ as_of = LatestObserved(l) + ExtraAge
  BY DEF OfferedInv, PhaseInv, LogInv
<1>2. /\ Len(r) = RecordCount(sc)
      /\ \A i \in 1 .. Len(r) : r[i] = Invalid <=> IsRefused(sc, i)
      /\ \A i \in 1 .. Len(r) : ~IsRefused(sc, i) => IsEventOf(sc, r[i], S(i))
  BY <1>1, RecordFacts
<1>3. /\ \A i \in 1 .. Len(r) : S(i) \in 0 .. 7
      /\ \A n \in 0 .. 7 : (\E i \in 1 .. Len(r) : ~IsRefused(sc, i) /\ S(i) = n)
                                <=> ~IsLost(sc, n)
      /\ sc # "reordered" => \A i, j \in 1 .. Len(r) : i < j => S(i) <= S(j)
  <2>1. /\ \A i \in 1 .. Len(r) : S(i) \in 0 .. 7
        /\ sc # "reordered" => \A i, j \in 1 .. Len(r) : i < j => S(i) <= S(j)
    BY <1>1, <1>2, SequencesOfRecords
  <2>2. \A n \in 0 .. 7 : (\E i \in 1 .. RecordCount(sc) : ~IsRefused(sc, i) /\ S(i) = n)
                                <=> ~(sc \in {"malformed", "missing"} /\ n = 4)
    BY <1>1, SequencesOfRecords
  <2> QED
    BY <1>2, <2>1, <2>2 DEF IsLost
<1> HIDE DEF S
<1>4. /\ Len(q) = Len(l) /\ Len(l) \in Nat /\ DOMAIN l = 1 .. Len(l)
      /\ \A i \in 1 .. Len(l) : q[i].event = l[i]
  <2>1. Len(l) \in Nat /\ DOMAIN l = 1 .. Len(l)
    BY <1>1
  <2>2. q = [n \in 1 .. Len(l) |-> [ordinal |-> n, event |-> l[n]]]
    BY <1>1, <2>1 DEF RowsOfLog
  <2>3. Len(q) = Len(l)
    BY <2>1, <2>2
  <2> QED
    BY <2>1, <2>2, <2>3
<1>5. \A x : (\E i \in 1 .. Len(l) : l[i] = x) <=>
            \E i \in 1 .. Len(r) : ~IsRefused(sc, i) /\ x = r[i]
  <2>1. \A x : x \in ToSet(l) <=> \E i \in 1 .. Len(l) : l[i] = x
    BY <1>4 DEF ToSet
  <2>2. \A x : x \in Kept(r, Len(r)) <=> \E i \in 1 .. Len(r) : r[i] # Invalid /\ x = r[i]
    BY DEF Kept
  <2>3. \A i \in 1 .. Len(r) : r[i] = Invalid <=> IsRefused(sc, i)
    BY <1>2
  <2>4. ToSet(l) = Kept(r, Len(r))
    BY <1>1
  <2> QED
    BY ONLY <2>1, <2>2, <2>3, <2>4
<1>6. \A i \in 1 .. Len(r) : ~IsRefused(sc, i) =>
            r[i].source_sequence = S(i) /\ r[i].observed_at = S(i) * 10
  BY <1>2 DEF IsEventOf
<1>7. ASSUME NEW i \in 1 .. Len(q)
      PROVE  /\ SequenceOf(q[i]) \in 0 .. 7
             /\ IsEventOf(sc, q[i].event, SequenceOf(q[i]))
  <2>1. PICK j \in 1 .. Len(r) : ~IsRefused(sc, j) /\ l[i] = r[j]
    BY <1>4, <1>5
  <2>2. SequenceOf(q[i]) = S(j) /\ q[i].event = r[j]
    BY <1>4, <1>6, <2>1 DEF SequenceOf
  <2> QED
    BY <1>2, <1>3, <2>1, <2>2
<1>8. ASSUME NEW n \in 0 .. 7
      PROVE  (\E i \in 1 .. Len(q) : SequenceOf(q[i]) = n) <=> ~IsLost(sc, n)
  <2>1. ASSUME NEW i \in 1 .. Len(q), SequenceOf(q[i]) = n PROVE ~IsLost(sc, n)
    <3>1. PICK j \in 1 .. Len(r) : ~IsRefused(sc, j) /\ l[i] = r[j]
      BY <1>4, <1>5
    <3>2. S(j) = n
      BY <1>4, <1>6, <2>1, <3>1 DEF SequenceOf
    <3> QED
      BY <1>3, <3>1, <3>2
  <2>2. ASSUME ~IsLost(sc, n) PROVE \E i \in 1 .. Len(q) : SequenceOf(q[i]) = n
    <3>1. PICK j \in 1 .. Len(r) : ~IsRefused(sc, j) /\ S(j) = n
      BY <1>3, <2>2
    <3>2. PICK i \in 1 .. Len(l) : l[i] = r[j]
      BY <1>5, <3>1
    <3> QED
      BY <1>4, <1>6, <3>1, <3>2 DEF SequenceOf
  <2> QED
    BY <2>1, <2>2
<1>9. ASSUME sc # "reordered", NEW i \in 1 .. Len(q), NEW j \in 1 .. Len(q), i < j
      PROVE  SequenceOf(q[i]) <= SequenceOf(q[j])
  <2>1. PICK a, b \in 1 .. Len(r) : a < b /\ l[i] = r[a] /\ l[j] = r[b]
    BY <1>1, <1>4, <1>9 DEF AsOffered
  <2>2. \A x \in 1 .. Len(l) : l[x] \in Event
    BY <1>1
  <2>3. r[a] # Invalid /\ r[b] # Invalid
    BY <1>4, <2>1, <2>2, CampaignAssumption
  <2>4. SequenceOf(q[i]) = S(a) /\ SequenceOf(q[j]) = S(b)
    BY <1>2, <1>4, <1>6, <2>1, <2>3 DEF SequenceOf
  <2> QED
    BY <1>3, <1>9, <2>1, <2>4
<1>10. LatestObserved(l) = 70
  <2> DEFINE T == {e.observed_at : e \in ToSet(l)}
  <2>1. \A x : x \in ToSet(l) <=> \E i \in 1 .. Len(l) : l[i] = x
    BY <1>4 DEF ToSet
  <2>2. ASSUME NEW t \in T PROVE t \in Nat /\ t <= 70
    <3>1. PICK j \in 1 .. Len(r) : ~IsRefused(sc, j) /\ t = r[j].observed_at
      BY <1>5, <2>1
    <3>2. PICK m \in 0 .. 7 : m = S(j)
      BY <1>3
    <3>3. t = m * 10
      BY <1>6, <3>1, <3>2
    <3> QED
      BY <3>3
  <2>3. 70 \in T
    <3>1. PICK j \in 1 .. Len(r) : ~IsRefused(sc, j) /\ S(j) = 7
      BY <1>3 DEF IsLost
    <3>2. r[j].observed_at = 70
      BY <1>6, <3>1
    <3>3. r[j] \in ToSet(l)
      BY <1>5, <2>1, <3>1
    <3> QED
      BY <3>2, <3>3
  <2>4. l # <<>>
    BY <2>3 DEF ToSet
  <2> HIDE DEF T
  <2>5. Max(T) = 70
    <3>1. Max(T) \in T /\ \A x \in T : Max(T) >= x
      BY <2>2, <2>3 DEF Max
    <3>2. PICK m \in Nat : m = Max(T) /\ m <= 70
      BY <2>2, <3>1
    <3>3. m >= 70
      BY <2>3, <3>1, <3>2
    <3>4. m = 70
      BY <3>2, <3>3
    <3> QED
      BY <3>2, <3>4
  <2> QED
    BY <2>4, <2>5 DEF LatestObserved, T
<1> QED
  BY <1>1, <1>7, <1>8, <1>9, <1>10 DEF HoldsScenario

(* Gaps and frozen runs of a scenario's rows in order.                     *)
LEMMA OrderedScenario ==
    ASSUME DetectingPolicy, NEW sc \in CampaignScenarios, NEW o \in Seq(Row),
           InOrder(o), HoldsScenario(sc, o)
    PROVE  /\ GapFindings(o) # {} <=> sc \in {"malformed", "missing"}
           /\ FrozenFindings(o) # {} <=> sc = "frozen"
           /\ Len(o) \in Nat \ {0} /\ Last(o).event.observed_at = 70
<1> DEFINE S(i) == SequenceOf(o[i])
<1>1. /\ Len(o) \in Nat /\ \A i \in 1 .. Len(o) : o[i] \in ToSet(o)
      /\ \A x \in ToSet(o) : \E i \in 1 .. Len(o) : x = o[i]
      /\ \A i, j, k \in 1 .. Len(o) : Between(o[i], o[j], o[k]) <=> i < j /\ j < k
  BY OrderFacts
<1>2. /\ \A i \in 1 .. Len(o) : S(i) \in 0 .. 7 /\ IsEventOf(sc, o[i].event, S(i))
      /\ \A n \in 0 .. 7 : (\E i \in 1 .. Len(o) : S(i) = n) <=> ~IsLost(sc, n)
  BY DEF HoldsScenario
<1>3. \A i, j \in 1 .. Len(o) : i < j => S(i) < S(j)
  BY DEF InOrder
<1>4. ASSUME NEW i \in 1 .. Len(o), NEW j \in 1 .. Len(o)
      PROVE  i < j <=> S(i) < S(j)
  <2>1. S(i) \in 0 .. 7 /\ S(j) \in 0 .. 7
    BY <1>2
  <2>2. (i < j => S(i) < S(j)) /\ (j < i => S(j) < S(i)) /\ (i = j => S(i) = S(j))
    BY <1>3
  <2> HIDE DEF S
  <2>3. i < j \/ j < i \/ i = j
    BY <1>1
  <2> QED
    BY <2>1, <2>2, <2>3
<1>5. \A f : f \in GapFindings(o) <=> \E i \in 1 .. Len(o) - 1 :
            /\ S(i + 1) > S(i) + 1
            /\ f = Finding("source_sequence_gap", <<o[i], o[i + 1]>>, <<S(i) + 1, S(i + 1) - 1>>)
  BY DEF GapFindings, SequenceOf
<1> HIDE DEF S
<1>6. ASSUME GapFindings(o) # {} PROVE sc \in {"malformed", "missing"}
  <2>1. PICK i \in 1 .. Len(o) - 1 : S(i + 1) > S(i) + 1
    BY <1>5, <1>6
  <2>2. i \in 1 .. Len(o) /\ i + 1 \in 1 .. Len(o)
    BY <1>1
  <2>5. S(i) \in 0 .. 7 /\ S(i + 1) \in 0 .. 7
    BY <1>2, <2>2
  <2>3. PICK n \in 0 .. 7 : n = S(i) + 1 /\ n < S(i + 1)
    BY <2>1, <2>5
  <2>4. ASSUME NEW j \in 1 .. Len(o), S(j) = n PROVE FALSE
    <3>2. S(i) < S(j) /\ S(j) < S(i + 1)
      BY <2>3, <2>4, <2>5
    <3>1. i < j /\ j < i + 1
      BY <1>4, <2>2, <3>2
    <3> QED
      BY <1>1, <3>1
  <2> QED
    BY <1>2, <2>3, <2>4 DEF IsLost
<1>7. ASSUME sc \in {"malformed", "missing"} PROVE GapFindings(o) # {}
  <2>1. PICK a \in 1 .. Len(o) : S(a) = 3
    BY <1>2 DEF IsLost
  <2>2. PICK b \in 1 .. Len(o) : S(b) = 5
    BY <1>2 DEF IsLost
  <2>3. a < b /\ a + 1 \in 1 .. Len(o) /\ a \in 1 .. Len(o) - 1
    <3>1. a < b
      BY <1>4, <2>1, <2>2
    <3> QED
      BY <1>1, <3>1
  <2>4. S(a + 1) \in 0 .. 7 /\ S(a + 1) > 3 /\ S(a + 1) # 4
    <3>1. S(a + 1) \in 0 .. 7
      BY <1>2, <2>3
    <3>2. a < a + 1
      OBVIOUS
    <3>3. S(a) < S(a + 1)
      BY <1>3, <2>3, <3>2
    <3>4. S(a + 1) # 4
      BY <1>2, <1>7, <2>3 DEF IsLost
    <3> QED
      BY <2>1, <3>1, <3>3, <3>4
  <2>5. S(a + 1) > S(a) + 1
    BY <2>1, <2>4
  <2> QED
    BY <1>5, <2>3, <2>5
<1> DEFINE O == ToSet(o)
           IsLong(X) == Cardinality(X) >= FrozenRunLength /\ Maximal(O, X)
<1>8. FrozenFindings(o) # {} <=> \E X \in SUBSET O : IsLong(X)
  <2>1. {ToSet(f.support) : f \in FrozenFindings(o)} = {X \in SUBSET O : IsLong(X)}
    BY FrozenOf
  <2> QED
    BY <2>1
<1>9. \A i \in 1 .. Len(o) : o[i].event.payload = PayloadOfEvent(sc, S(i))
  BY <1>2 DEF IsEventOf
<1>10. ASSUME sc # "frozen", NEW X \in SUBSET O, IsLong(X) PROVE FALSE
  <2>1. ASSUME NEW x \in X, NEW y \in X PROVE x = y
    <3>1. PICK i \in 1 .. Len(o) : x = o[i]
      BY <1>1
    <3>2. PICK j \in 1 .. Len(o) : y = o[j]
      BY <1>1
    <3>3. o[i].event.payload = o[j].event.payload
      BY <1>10, <3>1, <3>2 DEF Maximal, Uniform
    <3>4. S(i) = S(j)
      BY <1>9, <1>10, <3>3 DEF PayloadOfEvent
    <3>5. i = j
      <4>1. ~(i < j) /\ ~(j < i)
        BY <1>2, <1>4, <3>4
      <4> QED
        BY <1>1, <4>1
    <3> QED
      BY <3>1, <3>2, <3>5
  <2>2. X = {} \/ \E x : X = {x}
    <3>1. ASSUME NEW x \in X PROVE X = {x}
      BY <2>1
    <3> QED
      BY <3>1
  <2>3. Cardinality(X) \in {0, 1}
    BY <2>2, FS_EmptySet, FS_Singleton
  <2> QED
    BY <1>10, <2>3, PolicyAssumption
<1>11. ASSUME sc = "frozen" PROVE \E X \in SUBSET O : IsLong(X)
  <2>1. PICK a \in 1 .. Len(o) : S(a) = 3
    BY <1>2, <1>11 DEF IsLost
  <2>2. PICK b \in 1 .. Len(o) : S(b) = 4
    BY <1>2, <1>11 DEF IsLost
  <2>3. PICK c \in 1 .. Len(o) : S(c) = 5
    BY <1>2, <1>11 DEF IsLost
  <2> DEFINE X == {o[a], o[b], o[c]}
  <2>4. o[a] # o[b] /\ o[a] # o[c] /\ o[b] # o[c]
    BY <2>1, <2>2, <2>3 DEF S
  <2>5. Cardinality(X) = 3
    <3>1. IsFiniteSet({o[a]}) /\ Cardinality({o[a]}) = 1
      BY FS_Singleton
    <3>5. o[b] \notin {o[a]} /\ o[c] \notin {o[a]} \union {o[b]}
      BY <2>4
    <3>2. /\ IsFiniteSet({o[a]} \union {o[b]})
          /\ Cardinality({o[a]} \union {o[b]}) = Cardinality({o[a]}) + 1
      BY <3>1, <3>5, FS_AddElement
    <3>6. Cardinality(({o[a]} \union {o[b]}) \union {o[c]})
            = Cardinality({o[a]} \union {o[b]}) + 1
      BY <3>2, <3>5, FS_AddElement
    <3>3. Cardinality(({o[a]} \union {o[b]}) \union {o[c]}) = 3
      BY <3>1, <3>2, <3>6
    <3>4. X = ({o[a]} \union {o[b]}) \union {o[c]}
      OBVIOUS
    <3> QED
      BY <3>3, <3>4
  <2>6. ASSUME NEW i \in 1 .. Len(o)
        PROVE  /\ o[i] \in X <=> S(i) \in 3 .. 5
               /\ o[i] \in X <=> o[i].event.payload = 3
    <3>1. \A j \in 1 .. Len(o) : S(i) = S(j) => i = j
      <4>1. ASSUME NEW j \in 1 .. Len(o), S(i) = S(j) PROVE i = j
        <5>1. ~(i < j) /\ ~(j < i)
          BY <1>2, <1>4, <4>1
        <5> QED
          BY <1>1, <5>1
      <4> QED
        BY <4>1
    <3>2. o[i] = o[a] \/ o[i] = o[b] \/ o[i] = o[c] => S(i) = 3 \/ S(i) = 4 \/ S(i) = 5
      BY <2>1, <2>2, <2>3 DEF S
    <3>3. S(i) \in 0 .. 7
      BY <1>2
    <3>4. S(i) \in 3 .. 5 => i = a \/ i = b \/ i = c
      BY <2>1, <2>2, <2>3, <3>1, <3>3
    <3>5. o[i] \in X <=> S(i) \in 3 .. 5
      BY <3>2, <3>4
    <3>6. o[i].event.payload = IF S(i) \in 3 .. 5 THEN 3 ELSE S(i)
      BY <1>9, <1>11 DEF PayloadOfEvent
    <3>7. o[i].event.payload = 3 <=> S(i) \in 3 .. 5
      BY <3>3, <3>6
    <3> QED
      BY <3>5, <3>7
  <2>7. X \in SUBSET O /\ o[a] \in X
    BY <1>1
  <2> HIDE DEF X
  <2>8. Uniform(O, X)
    <3>1. ASSUME NEW x \in X, NEW y \in X PROVE x.event.payload = y.event.payload
      BY <1>1, <2>6, <2>7
    <3>2. ASSUME NEW x \in X, NEW z \in X, NEW y \in O, Between(x, y, z) PROVE y \in X
      <4>1. PICK i \in 1 .. Len(o) : x = o[i]
        BY <1>1, <2>7
      <4>2. PICK j \in 1 .. Len(o) : y = o[j]
        BY <1>1
      <4>3. PICK k \in 1 .. Len(o) : z = o[k]
        BY <1>1, <2>7
      <4>4. i < j /\ j < k
        BY <1>1, <3>2, <4>1, <4>2, <4>3
      <4>5. S(i) < S(j) /\ S(j) < S(k) /\ S(i) \in 3 .. 5 /\ S(k) \in 3 .. 5 /\ S(j) \in 0 .. 7
        BY <1>2, <1>3, <2>6, <4>1, <4>2, <4>3, <4>4
      <4>6. S(j) \in 3 .. 5
        BY <4>5
      <4> QED
        BY <2>6, <4>2, <4>6
    <3> QED
      BY <3>1, <3>2 DEF Uniform
  <2>9. ASSUME NEW y \in O \ X PROVE ~Uniform(O, X \union {y})
    <3>1. PICK j \in 1 .. Len(o) : y = o[j]
      BY <1>1
    <3>2. y.event.payload # 3 /\ o[a].event.payload = 3
      BY <2>6, <2>7, <2>9, <3>1
    <3> QED
      BY <2>7, <3>2 DEF Uniform
  <2>10. Cardinality(X) >= FrozenRunLength
    BY <2>5, PolicyAssumption DEF DetectingPolicy
  <2> QED
    BY <2>7, <2>8, <2>9, <2>10 DEF Maximal
<1>12. Len(o) \in Nat \ {0} /\ Last(o).event.observed_at = 70
  <2>1. PICK z \in 1 .. Len(o) : S(z) = 7
    BY <1>2 DEF IsLost
  <2>2. Len(o) \in 1 .. Len(o)
    BY <1>1
  <2>3. z = Len(o)
    <3>1. S(Len(o)) \in 0 .. 7
      BY <1>2, <2>2
    <3>2. ~(7 < S(Len(o)))
      BY <3>1
    <3>3. ~(z < Len(o))
      BY <1>4, <2>1, <2>2, <3>2
    <3> QED
      BY <1>1, <3>3
  <2>4. o[z].event.observed_at = 70
    <3>1. IsEventOf(sc, o[z].event, 7)
      BY <1>2, <2>1
    <3>2. o[z].event.observed_at = 7 * 10
      BY <3>1 DEF IsEventOf
    <3> QED
      BY <3>2
  <2> QED
    BY <1>1, <2>2, <2>3, <2>4 DEF Last
<1> QED
  BY <1>6, <1>7, <1>8, <1>10, <1>11, <1>12

(* The one source of a finished campaign, and its rows in order.           *)
LEMMA ScenarioSource ==
    ASSUME QualityInv, Evaluated, NEW sc \in CampaignScenarios, HoldsScenario(sc, stored)
    PROVE  /\ SourcesStored = {SimulatedSource}
           /\ OrderedRows(SimulatedSource) \in Seq(Row)
           /\ InOrder(OrderedRows(SimulatedSource))
           /\ HoldsScenario(sc, OrderedRows(SimulatedSource))
<1> PICK q : q = stored
  OBVIOUS
<1> PICK o : o = OrderedRows(SimulatedSource)
  OBVIOUS
<1>1. /\ \A i \in 1 .. Len(q) : /\ SequenceOf(q[i]) \in 0 .. 7
                                /\ IsEventOf(sc, q[i].event, SequenceOf(q[i]))
      /\ \A n \in 0 .. 7 :
            (\E i \in 1 .. Len(q) : SequenceOf(q[i]) = n) <=> ~IsLost(sc, n)
  BY DEF HoldsScenario
<1>2. \A i \in 1 .. Len(q) : SourceAt(q, i) = SimulatedSource
  BY <1>1 DEF IsEventOf, SourceAt
<1>3. SourcesStored = {SimulatedSource}
  <2>1. \A s : s \in SourcesStored <=> \E i \in 1 .. Len(q) : s = SourceAt(q, i)
    BY FoundByCode
  <2>2. PICK i \in 1 .. Len(q) : SequenceOf(q[i]) = 7
    BY <1>1 DEF IsLost
  <2> QED
    BY <1>2, <2>1, <2>2
<1>4. /\ o \in Seq(Row) /\ InOrder(o)
      /\ \A row : row \in ToSet(o) <=>
            \E i \in 1 .. Len(q) : row = q[i] /\ SourceAt(q, i) = SimulatedSource
  BY SourceRows DEF QualityInv
<1>5. /\ \A i \in 1 .. Len(o) : o[i] \in ToSet(o)
      /\ \A row \in ToSet(o) : \E i \in 1 .. Len(o) : row = o[i]
  BY <1>4, OrderFacts
<1>6. \A i \in 1 .. Len(o) : \E j \in 1 .. Len(q) : o[i] = q[j]
  BY <1>4, <1>5
<1>7. \A j \in 1 .. Len(q) : \E i \in 1 .. Len(o) : o[i] = q[j]
  BY <1>2, <1>4, <1>5
<1>8. HoldsScenario(sc, o)
  <2>1. ASSUME NEW i \in 1 .. Len(o)
        PROVE  SequenceOf(o[i]) \in 0 .. 7 /\ IsEventOf(sc, o[i].event, SequenceOf(o[i]))
    BY <1>1, <1>6
  <2>2. ASSUME NEW n \in 0 .. 7
        PROVE  (\E i \in 1 .. Len(o) : SequenceOf(o[i]) = n) <=> ~IsLost(sc, n)
    <3>1. (\E i \in 1 .. Len(q) : SequenceOf(q[i]) = n) <=> ~IsLost(sc, n)
      BY <1>1
    <3>2. ASSUME NEW i \in 1 .. Len(o), SequenceOf(o[i]) = n
          PROVE  \E j \in 1 .. Len(q) : SequenceOf(q[j]) = n
      BY <1>6, <3>2
    <3>3. ASSUME NEW j \in 1 .. Len(q), SequenceOf(q[j]) = n
          PROVE  \E i \in 1 .. Len(o) : SequenceOf(o[i]) = n
      BY <1>7, <3>3
    <3> QED
      BY <3>1, <3>2, <3>3
  <2> QED
    BY <2>1, <2>2 DEF HoldsScenario
<1> QED
  BY <1>3, <1>4, <1>8

(* The rows of a scenario are late, and regress, only where that is the    *)
(* fault.                                                                  *)
LEMMA RowsOfScenario ==
    ASSUME DetectingPolicy, NEW sc \in CampaignScenarios, NEW q \in Seq(Row),
           LedgerRows(q), HoldsScenario(sc, q),
           sc # "reordered" => \A i, j \in 1 .. Len(q) :
                i < j => SequenceOf(q[i]) <= SequenceOf(q[j])
    PROVE  /\ (\E i \in 1 .. Len(q) : DelayFindings(q[i]) # {}) <=> sc = "delayed"
           /\ (\E i \in 1 .. Len(q) : RegressionsAt(q, i) # {}) => sc = "reordered"
<1>1. /\ \A i \in 1 .. Len(q) : /\ SequenceOf(q[i]) \in 0 .. 7
                                /\ IsEventOf(sc, q[i].event, SequenceOf(q[i]))
      /\ \A n \in 0 .. 7 :
            (\E i \in 1 .. Len(q) : SequenceOf(q[i]) = n) <=> ~IsLost(sc, n)
  BY DEF HoldsScenario
<1>2. Len(q) \in Nat
  OBVIOUS
<1>3. ASSUME NEW i \in 1 .. Len(q)
      PROVE  DelayFindings(q[i]) # {} <=> sc = "delayed" /\ SequenceOf(q[i]) = 4
  <2>1. PICK n \in 0 .. 7 : n = SequenceOf(q[i])
    BY <1>1
  <2>2. /\ q[i].event.observed_at = n * 10
        /\ q[i].event.ingested_at = n * 10 + LagOfEvent(sc, n)
    BY <1>1, <2>1 DEF IsEventOf
  <2>3. LagOfEvent(sc, n) = IF sc = "delayed" /\ n = 4 THEN 120 ELSE 1
    BY DEF LagOfEvent
  <2>4. Lag(q[i].event) = LagOfEvent(sc, n)
    <3>1. PICK a \in Nat : a = n * 10
      BY <2>1
    <3>2. PICK lag \in Nat : lag = LagOfEvent(sc, n)
      BY <2>3
    <3>3. a + lag - a = lag
      OBVIOUS
    <3> QED
      BY <2>2, <3>1, <3>2, <3>3 DEF Lag
  <2>5. DelayFindings(q[i]) # {} <=> Lag(q[i].event) > DelayThreshold
    BY DEF DelayFindings
  <2> QED
    BY <2>1, <2>3, <2>4, <2>5 DEF DetectingPolicy
<1>4. (\E i \in 1 .. Len(q) : DelayFindings(q[i]) # {}) <=> sc = "delayed"
  <2>1. \E i \in 1 .. Len(q) : SequenceOf(q[i]) = 4 \/ sc # "delayed"
    <3>1. \E i \in 1 .. Len(q) : SequenceOf(q[i]) = 7
      BY <1>1 DEF IsLost
    <3>2. sc = "delayed" => \E i \in 1 .. Len(q) : SequenceOf(q[i]) = 4
      BY <1>1 DEF IsLost
    <3> QED
      BY <3>1, <3>2
  <2> QED
    BY <1>3, <2>1
<1>5. ASSUME NEW i \in 1 .. Len(q), RegressionsAt(q, i) # {}, sc # "reordered" PROVE FALSE
  <2>1. PICK p \in 1 .. i - 1 : SequenceOf(q[i]) < SequenceOf(q[p])
    BY <1>5 DEF RegressionsAt
  <2>2. p \in 1 .. Len(q) /\ p < i
    BY <1>2
  <2>3. SequenceOf(q[p]) <= SequenceOf(q[i])
    BY <1>5, <2>2
  <2>4. SequenceOf(q[p]) \in 0 .. 7 /\ SequenceOf(q[i]) \in 0 .. 7
    BY <1>1, <2>2
  <2> QED
    BY <2>1, <2>3, <2>4
<1> QED
  BY <1>4, <1>5

(* The codes of the findings of a finished evaluation.                     *)
LEMMA CodesFound ==
    ASSUME QualityInv, Evaluated, NEW code
    PROVE  (\E f \in findings : f.code = code) <=>
                \/ /\ code = "delayed_arrival"
                   /\ \E i \in 1 .. Len(stored) : DelayFindings(stored[i]) # {}
                \/ /\ code = "source_sequence_regression"
                   /\ \E i \in 1 .. Len(stored) : RegressionsAt(stored, i) # {}
                \/ /\ code = "source_sequence_gap"
                   /\ \E s \in SourcesStored : GapFindings(OrderedRows(s)) # {}
                \/ /\ code = "repeated_payload_run"
                   /\ \E s \in SourcesStored : FrozenFindings(OrderedRows(s)) # {}
                \/ /\ code = "stale_source"
                   /\ \E s \in SourcesStored : StaleFindings(OrderedRows(s)) # {}
<1>1. \A f, c : f \in OfCode(c) <=> f \in findings /\ f.code = c
  BY DEF OfCode
<1>2. \A f \in findings :
            f.code \in {"delayed_arrival", "source_sequence_regression",
                        "source_sequence_gap", "repeated_payload_run", "stale_source"}
  <2>1. \A s : s \in SourcesUpTo(judged) => \E i \in 1 .. judged : s = SourceAt(stored, i)
    BY DEF SourcesUpTo
  <2>2. findings = (UNION {RowFindings(stored, i) : i \in 1 .. judged})
            \union (UNION {SourceFindings(s) : s \in SourcesUpTo(judged) \ pending})
    BY DEF QualityInv, FoundInv, FoundUpTo
  <2> TAKE f \in findings
  <2>3. \/ \E i : f \in RowFindings(stored, i)
        \/ \E s : f \in SourceFindings(s)
    BY <2>2
  <2>4. \/ \E i : f \in DelayFindings(stored[i])
        \/ \E i : f \in RegressionsAt(stored, i)
        \/ \E s : f \in GapFindings(OrderedRows(s))
        \/ \E s : f \in FrozenFindings(OrderedRows(s))
        \/ \E s : f \in StaleFindings(OrderedRows(s))
    BY <2>3 DEF RowFindings, SourceFindings
  <2> QED
    BY <2>4, CodesOf
<1>3. (\E f \in findings : f.code = code) <=> \E f : f \in OfCode(code)
  BY <1>1
<1>4. code \notin {"delayed_arrival", "source_sequence_regression",
                   "source_sequence_gap", "repeated_payload_run", "stale_source"}
        => ~\E f : f \in OfCode(code)
  BY <1>1, <1>2
<1>5. CASE code = "delayed_arrival"
  BY <1>3, <1>5, FoundByCode
<1>6. CASE code = "source_sequence_regression"
  BY <1>3, <1>6, FoundByCode
<1>7. CASE code = "source_sequence_gap"
  BY <1>3, <1>7, FoundByCode
<1>8. CASE code = "repeated_payload_run"
  BY <1>3, <1>8, FoundByCode
<1>9. CASE code = "stale_source"
  BY <1>3, <1>9, FoundByCode
<1> QED
  BY <1>3, <1>4, <1>5, <1>6, <1>7, <1>8, <1>9

(* What a finished campaign detects, at the boundary and in the ledger, is *)
(* the fault of its scenario.                                              *)
LEMMA ScenarioDetected ==
    ASSUME DetectingPolicy, QualityInv, OfferedInv, CampaignDone
    PROVE  DetectedCodes = ExpectedCodes[scenario]
<1> PICK sc : sc = scenario
  OBVIOUS
<1> PICK q : q = stored
  OBVIOUS
<1> PICK o : o = OrderedRows(SimulatedSource)
  OBVIOUS
<1>1. phase \in {"evaluate", "sealed"} /\ Evaluated
  BY DEF CampaignDone
<1>2. /\ sc \in CampaignScenarios /\ HoldsScenario(sc, q)
      /\ sc # "reordered" => \A i, j \in 1 .. Len(q) :
            i < j => SequenceOf(q[i]) <= SequenceOf(q[j])
      /\ as_of = 70 + ExtraAge
  BY <1>1, LoggedScenario
<1>3. q \in Seq(Row) /\ LedgerRows(q)
  BY DEF QualityInv, RowsInv
<1>4. SourcesStored = {SimulatedSource} /\ o \in Seq(Row) /\ InOrder(o) /\ HoldsScenario(sc, o)
  BY <1>1, <1>2, ScenarioSource
<1>5. /\ GapFindings(o) # {} <=> sc \in {"malformed", "missing"}
      /\ FrozenFindings(o) # {} <=> sc = "frozen"
      /\ Last(o).event.observed_at = 70
  BY <1>2, <1>4, OrderedScenario
<1>6. StaleFindings(o) # {} <=> sc = "stale"
  <2>1. as_of = IF sc = "stale" THEN 190 ELSE 71
    BY <1>2 DEF ExtraAge
  <2>2. StaleFindings(o) # {} <=> as_of > 70 + StaleAfter
    BY <1>5 DEF StaleFindings
  <2> QED
    BY <2>1, <2>2 DEF DetectingPolicy
<1>7. /\ (\E i \in 1 .. Len(q) : DelayFindings(q[i]) # {}) <=> sc = "delayed"
      /\ (\E i \in 1 .. Len(q) : RegressionsAt(q, i) # {}) => sc = "reordered"
  BY <1>2, <1>3, RowsOfScenario
<1>8. {f.code : f \in boundary} = BoundaryCodes(sc)
  <2>1. boundary = InspectStream(CampaignRecords(sc), DelayThreshold)
    BY <1>1 DEF OfferedInv, PhaseInv
  <2> QED
    BY <1>2, <2>1, BoundaryOfScenario
<1>9. \A code : code \in DetectedCodes <=>
            code \in BoundaryCodes(sc) \/ \E f \in findings : f.code = code
  BY <1>8 DEF DetectedCodes
<1>10. \A code : (\E f \in findings : f.code = code) =>
            \/ code = "delayed_arrival" /\ sc = "delayed"
            \/ code = "source_sequence_regression" /\ sc = "reordered"
            \/ code = "source_sequence_gap" /\ sc \in {"malformed", "missing"}
            \/ code = "repeated_payload_run" /\ sc = "frozen"
            \/ code = "stale_source" /\ sc = "stale"
  BY <1>1, <1>4, <1>5, <1>6, <1>7, CodesFound
<1>11. /\ sc \in {"malformed", "missing"} =>
            \E f \in findings : f.code = "source_sequence_gap"
       /\ sc = "frozen" => \E f \in findings : f.code = "repeated_payload_run"
       /\ sc = "stale" => \E f \in findings : f.code = "stale_source"
  BY <1>1, <1>4, <1>5, <1>6, CodesFound
<1>12. \A code : code \in DetectedCodes <=>
            \/ code = "invalid_event" /\ sc = "malformed"
            \/ code = "duplicate_event_id" /\ sc = "duplicate"
            \/ code = "delayed_arrival" /\ sc = "delayed"
            \/ code = "source_sequence_regression" /\ sc = "reordered"
            \/ code = "source_sequence_gap" /\ sc \in {"malformed", "missing"}
            \/ code = "repeated_payload_run" /\ sc = "frozen"
            \/ code = "stale_source" /\ sc = "stale"
  BY <1>9, <1>10, <1>11 DEF BoundaryCodes
<1>13. \A code : code \in ExpectedCodes[sc] <=>
            \/ code = "invalid_event" /\ sc = "malformed"
            \/ code = "duplicate_event_id" /\ sc = "duplicate"
            \/ code = "delayed_arrival" /\ sc = "delayed"
            \/ code = "source_sequence_regression" /\ sc = "reordered"
            \/ code = "source_sequence_gap" /\ sc \in {"malformed", "missing"}
            \/ code = "repeated_payload_run" /\ sc = "frozen"
            \/ code = "stale_source" /\ sc = "stale"
  BY <1>2 DEF CampaignScenarios, ExpectedCodes
<1> QED
  BY <1>12, <1>13

(* Under a policy that can tell the faults apart, a campaign detects the   *)
(* fault of its scenario and no other, counts every record once, and the   *)
(* bundle sealed for it holds what was evaluated (campaign.py:98-149,      *)
(* bundle.py:304-330, tests/test_campaign.py:9).                           *)
THEOREM FaultsDetected ==
    ASSUME DetectingPolicy
    PROVE  CampaignSpec => []FaultDetected
<1>1. ASSUME QualityInv, CampaignInv PROVE FaultDetected
  <2> SUFFICES ASSUME CampaignDone
               PROVE  /\ position = Len(records)
                      /\ counts.accepted + counts.duplicate + counts.invalid = Len(records)
                      /\ DetectedCodes = ExpectedCodes[scenario]
                      /\ phase = "sealed" =>
                            sealed = [events |-> log, as_of |-> as_of, boundary |-> boundary]
    BY DEF FaultDetected
  <2>1. position = Len(records)
    BY <1>1 DEF CampaignDone, CampaignInv, OfferedInv, PhaseInv
  <2>2. counts.accepted + counts.duplicate + counts.invalid = position
    BY <1>1 DEF CampaignInv, OfferedInv, CountsInv
  <2>3. phase = "sealed" =>
            sealed = [events |-> log, as_of |-> as_of, boundary |-> boundary]
    BY <1>1 DEF CampaignInv, OfferedInv, PhaseInv
  <2>4. DetectedCodes = ExpectedCodes[scenario]
    BY <1>1, ScenarioDetected DEF CampaignInv
  <2> QED
    BY <2>1, <2>2, <2>3, <2>4
<1> QED
  BY <1>1, CampaignInvariant, PTL

=============================================================================
