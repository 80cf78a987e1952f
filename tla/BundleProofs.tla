---------------------------- MODULE BundleProofs ----------------------------
(***************************************************************************)
(* Proofs about EvidenceBundle, for any number of builders, any histories  *)
(* and any number of alterations: what is published is whole and sealed,   *)
(* is never replaced, and is genuine whenever verify_bundle accepts it.    *)
(***************************************************************************)
EXTENDS EvidenceBundle, FiniteSetTheorems, SequenceTheorems, TLAPS

-----------------------------------------------------------------------------
(* The inductive invariant.                                                *)

(* The bundle of builder b, had it written every file: what it read, what  *)
(* it projected and the findings q it derived determine all nine files.    *)
Payload(b, r, s, q) ==
    [name \in PayloadFiles |->
        CASE name = "ledger_events.jsonl" -> r
          [] name = "quality_findings.jsonl" -> q
          [] name = "run.json" -> RunDocument(b, r, s, q)
          [] name = "state.json" -> s
          [] OTHER -> b]

Whole(b, r, s, q) ==
    LET payload == Payload(b, r, s, q)
        sealed == [name \in SealedFiles |->
                      IF name = "manifest.json" THEN Manifest(b, payload)
                                                ELSE payload[name]]
    IN  [name \in ExpectedFiles |->
            IF name = "checksums.sha256" THEN Checksums(sealed) ELSE sealed[name]]

FirstFiles(n) == {WriteOrder[i] : i \in 1 .. n}

(* A temporary directory holds the first files of such a bundle.           *)
WrittenInOrder ==
    \A b \in Builders : pc[b] = "writing" =>
        \E q \in SUBSET ToSet(rows[b]) : \E n \in 0 .. Len(WriteOrder) :
            /\ DOMAIN temporary[b] = FirstFiles(n)
            /\ Cardinality(FirstFiles(n)) = n
            /\ IsFiniteSet(FirstFiles(n))
            /\ \A name \in FirstFiles(n) :
                temporary[b][name] = Whole(b, rows[b], state[b], q)[name]

(* Both reads returned committed prefixes, though not always the same one. *)
ReadsArePrefixes ==
    \A b \in Builders :
        /\ \E k \in 0 .. Len(history) : rows[b] = SubSeq(history, 1, k)
        /\ \E m \in 0 .. Len(history) : state[b] = StateOf(SubSeq(history, 1, m))

(* The target stems from the one builder that returned; what is left of    *)
(* its files is as they were written, or garbled.                          *)
StemsFrom(b, dir, q) ==
    /\ \A name \in DOMAIN dir \intersect ExpectedFiles :
        dir[name] \in {Whole(b, rows[b], state[b], q)[name], Garbled}
    /\ alterations = 0 =>
        /\ DOMAIN dir = ExpectedFiles
        /\ \A name \in ExpectedFiles :
            dir[name] = Whole(b, rows[b], state[b], q)[name]

OnePublisher ==
    /\ target = Absent => \A b \in Builders : pc[b] # "returned"
    /\ target # Absent =>
        \E b \in Builders :
            /\ pc[b] = "returned"
            /\ \A c \in Builders : pc[c] = "returned" => c = b
            /\ \E q \in SUBSET ToSet(rows[b]) : StemsFrom(b, target, q)

(* A temporary directory belongs to a builder that writes, removes it, or  *)
(* was killed.                                                             *)
TemporaryInUse ==
    \A b \in Builders :
        pc[b] \notin {"writing", "unwinding", "crashed"} => temporary[b] = Absent

(* Nobody gives up before something is published.                          *)
RefusedHasReason ==
    \A b \in Builders : pc[b] = "refused" => target # Absent

OfEachBuilder ==
    DOMAIN rows = Builders /\ DOMAIN state = Builders /\ DOMAIN temporary = Builders

IInv ==
    /\ TypeOK /\ OfEachBuilder
    /\ WrittenInOrder /\ ReadsArePrefixes /\ OnePublisher
    /\ TemporaryInUse /\ RefusedHasReason

-----------------------------------------------------------------------------
(* Files and directories.                                                  *)

(* The file names a bundle can hold, and that they are different.          *)
LEMMA Names ==
    /\ PayloadFiles = {"boundary_findings.jsonl", "ledger_events.jsonl", "policy.json",
                       "quality_findings.jsonl", "report.md", "run.json", "state.json"}
    /\ PayloadFiles \subseteq SealedFiles
    /\ SealedFiles \subseteq ExpectedFiles
    /\ "manifest.json" \in SealedFiles \ PayloadFiles
    /\ "checksums.sha256" \in ExpectedFiles \ SealedFiles
<1>1. PayloadFiles = {PayloadOrder[i] : i \in 1 .. 7}
  BY DEF PayloadFiles, ToSet, PayloadOrder
<1>2. 1 .. 7 = {1, 2, 3, 4, 5, 6, 7}
  OBVIOUS
<1>3. PayloadFiles = {"boundary_findings.jsonl", "ledger_events.jsonl", "policy.json",
                      "quality_findings.jsonl", "report.md", "run.json", "state.json"}
  BY <1>1, <1>2 DEF PayloadOrder
<1> QED
  BY <1>3 DEF SealedFiles, ExpectedFiles

(* The files are written in this order.                                    *)
LEMMA Order ==
    /\ Len(WriteOrder) = 9
    /\ WriteOrder[1] = "boundary_findings.jsonl"
    /\ WriteOrder[2] = "ledger_events.jsonl"
    /\ WriteOrder[3] = "policy.json"
    /\ WriteOrder[4] = "quality_findings.jsonl"
    /\ WriteOrder[5] = "report.md"
    /\ WriteOrder[6] = "run.json"
    /\ WriteOrder[7] = "state.json"
    /\ WriteOrder[8] = "manifest.json"
    /\ WriteOrder[9] = "checksums.sha256"
<1>1. PayloadOrder \in Seq(PayloadFiles) /\ Len(PayloadOrder) = 7
  BY Names DEF PayloadOrder
<1>2. <<"manifest.json", "checksums.sha256">> \in Seq(ExpectedFiles)
  BY Names
<1>3. PayloadOrder \in Seq(ExpectedFiles)
  BY <1>1, Names, SeqMonotonic
<1> QED
  BY <1>1, <1>2, <1>3, ConcatProperties DEF WriteOrder, PayloadOrder

(* What has been written after n files, said file by file.                 *)
LEMMA WrittenSoFar ==
    ASSUME NEW n \in 0 .. 9
    PROVE  /\ FirstFiles(n) \subseteq ExpectedFiles
           /\ n = 0 => FirstFiles(n) = {}
           /\ n < 9 => /\ WriteOrder[n + 1] \in ExpectedFiles \ FirstFiles(n)
                       /\ FirstFiles(n + 1) = FirstFiles(n) \union {WriteOrder[n + 1]}
           /\ "quality_findings.jsonl" \in FirstFiles(n) <=> n >= 4
           /\ "run.json" \in FirstFiles(n) <=> n >= 6
           /\ PayloadFiles \subseteq FirstFiles(n) <=> n >= 7
           /\ SealedFiles \subseteq FirstFiles(n) <=> n >= 8
           /\ FirstFiles(n) = ExpectedFiles <=> n = 9
BY Names, Order DEF FirstFiles, SealedFiles, ExpectedFiles

(* The files of a whole bundle, and that it is linked and sealed.          *)
LEMMA WholeFiles ==
    ASSUME NEW b, NEW r, NEW s, NEW q
    PROVE  LET dir == Whole(b, r, s, q)
           IN  /\ DOMAIN dir = ExpectedFiles
               /\ dir["boundary_findings.jsonl"] = b
               /\ dir["ledger_events.jsonl"] = r
               /\ dir["policy.json"] = b
               /\ dir["quality_findings.jsonl"] = q
               /\ dir["report.md"] = b
               /\ dir["run.json"] = RunDocument(b, r, s, q)
               /\ dir["state.json"] = s
               /\ dir["manifest.json"] = Manifest(b, dir)
               /\ dir["checksums.sha256"] = Checksums(dir)
<1> DEFINE payload == Payload(b, r, s, q)
           sealed == [name \in SealedFiles |->
                         IF name = "manifest.json" THEN Manifest(b, payload)
                                                   ELSE payload[name]]
           dir == Whole(b, r, s, q)
<1>1. DOMAIN dir = ExpectedFiles /\ DOMAIN sealed = SealedFiles
  BY DEF Whole
<1>2. \A name \in SealedFiles : dir[name] = sealed[name]
  BY Names DEF Whole
<1>3. \A name \in PayloadFiles : dir[name] = payload[name]
  BY <1>2, Names
<1>4. dir["manifest.json"] = Manifest(b, payload)
  BY <1>2, Names
<1>5. dir["checksums.sha256"] = Checksums(sealed)
  BY Names DEF Whole
<1>6. Manifest(b, payload) = Manifest(b, dir)
  BY <1>3 DEF Manifest, Digests
<1>7. Checksums(sealed) = Checksums(dir)
  BY <1>2 DEF Checksums, Digests
<1>8. /\ payload["boundary_findings.jsonl"] = b
      /\ payload["ledger_events.jsonl"] = r
      /\ payload["policy.json"] = b
      /\ payload["quality_findings.jsonl"] = q
      /\ payload["report.md"] = b
      /\ payload["run.json"] = RunDocument(b, r, s, q)
      /\ payload["state.json"] = s
  BY Names DEF Payload
<1> HIDE DEF dir, payload, sealed
<1>9. /\ dir["boundary_findings.jsonl"] = b
      /\ dir["ledger_events.jsonl"] = r
      /\ dir["policy.json"] = b
      /\ dir["quality_findings.jsonl"] = q
      /\ dir["report.md"] = b
      /\ dir["run.json"] = RunDocument(b, r, s, q)
      /\ dir["state.json"] = s
  BY <1>3, <1>8, Names
<1>10. /\ dir["manifest.json"] = Manifest(b, dir)
       /\ dir["checksums.sha256"] = Checksums(dir)
  BY <1>4, <1>5, <1>6, <1>7
<1> QED
  BY <1>1, <1>9, <1>10 DEF dir

(* Before the findings are written, nothing depends on them.               *)
LEMMA FindingsOpen ==
    ASSUME NEW b, NEW r, NEW s, NEW q, NEW p, NEW n \in 0 .. 3,
           NEW name \in FirstFiles(n)
    PROVE  Whole(b, r, s, q)[name] = Whole(b, r, s, p)[name]
<1>1. name \in {"boundary_findings.jsonl", "ledger_events.jsonl", "policy.json"}
  BY Order DEF FirstFiles
<1> QED
  BY <1>1, WholeFiles

(* Whatever file comes next, what is written is that file of a bundle that *)
(* the files before it are of, too.                                        *)
LEMMA NextFits ==
    ASSUME NEW b \in Builders, NEW n \in 0 .. 8,
           NEW q \in SUBSET ToSet(rows[b]),
           DOMAIN temporary[b] = FirstFiles(n),
           \A name \in FirstFiles(n) :
               temporary[b][name] = Whole(b, rows[b], state[b], q)[name],
           NEW content \in ContentsOf(b, temporary[b], WriteOrder[n + 1])
    PROVE  \E p \in SUBSET ToSet(rows[b]) :
               /\ \A name \in FirstFiles(n) :
                   temporary[b][name] = Whole(b, rows[b], state[b], p)[name]
               /\ content = Whole(b, rows[b], state[b], p)[WriteOrder[n + 1]]
<1> DEFINE W(p) == Whole(b, rows[b], state[b], p)
<1>1. CASE n = 3
  <2>1. content \in SUBSET ToSet(rows[b])
    BY <1>1, Order DEF ContentsOf
  <2>2. content = W(content)[WriteOrder[n + 1]]
    BY <1>1, Order, WholeFiles
  <2>3. \A name \in FirstFiles(n) : temporary[b][name] = W(content)[name]
    BY <1>1, FindingsOpen
  <2> QED
    BY <2>1, <2>2, <2>3
<1>2. CASE n \in {0, 1, 2, 4, 6}
  <2>1. content = W(q)[WriteOrder[n + 1]]
    BY <1>2, Order, WholeFiles DEF ContentsOf
  <2> QED
    BY <2>1
<1>3. CASE n = 5
  <2>1. temporary[b]["quality_findings.jsonl"] = q
    BY <1>3, WrittenSoFar, WholeFiles
  <2>2. content = RunDocument(b, rows[b], state[b], q)
    BY <1>3, <2>1, Order DEF ContentsOf
  <2> QED
    BY <1>3, <2>2, Order, WholeFiles
<1>4. CASE n = 7
  <2>1. \A name \in PayloadFiles : temporary[b][name] = W(q)[name]
    BY <1>4, WrittenSoFar
  <2>2. Manifest(b, temporary[b]) = Manifest(b, W(q))
    BY <2>1 DEF Manifest, Digests
  <2>3. content = Manifest(b, temporary[b])
    BY <1>4, Order DEF ContentsOf
  <2> QED
    BY <1>4, <2>2, <2>3, Order, WholeFiles
<1>5. CASE n = 8
  <2>1. \A name \in SealedFiles : temporary[b][name] = W(q)[name]
    BY <1>5, WrittenSoFar
  <2>2. Checksums(temporary[b]) = Checksums(W(q))
    BY <2>1 DEF Checksums, Digests
  <2>3. content = Checksums(temporary[b])
    BY <1>5, Order DEF ContentsOf
  <2> QED
    BY <1>5, <2>2, <2>3, Order, WholeFiles
<1> QED
  BY <1>1, <1>2, <1>3, <1>4, <1>5

(* No directory is Absent.                                                 *)
LEMMA DirectoryExists ==
    ASSUME NEW dir, Directory(dir) PROVE dir # Absent
<1>1. "no such directory" \in DOMAIN Absent
  BY DEF Absent
<1>2. "no such directory" \notin DOMAIN dir
  BY Names DEF Directory, SealedFiles, ExpectedFiles
<1> QED
  BY <1>1, <1>2

-----------------------------------------------------------------------------
(* The steps.                                                              *)

(* What a read returns: the first rows of a history, and their number.     *)
LEMMA ReadFacts ==
    ASSUME history \in Histories, NEW k \in 0 .. Len(history)
    PROVE  /\ history \in Seq(Row)
           /\ SubSeq(history, 1, k) \in Seq(Row)
           /\ Len(SubSeq(history, 1, k)) = k
           /\ StateOf(SubSeq(history, 1, k)).event_count = k
<1>1. history \in Seq(Row) /\ k \in Nat
  BY BundleAssumption
<1>2. \A i \in 1 .. k : history[i] \in Row
  BY <1>1
<1>3. SubSeq(history, 1, k) \in Seq(Row) /\ Len(SubSeq(history, 1, k)) = k
  BY <1>1, <1>2, SubSeqProperties
<1> QED
  BY <1>1, <1>3 DEF StateOf

(* A step that leaves the target and whoever published it alone.           *)
LEMMA PublisherKept ==
    ASSUME OnePublisher, UNCHANGED <<target, alterations>>,
           \A c \in Builders :
               /\ pc'[c] = "returned" <=> pc[c] = "returned"
               /\ pc[c] = "returned" => rows'[c] = rows[c] /\ state'[c] = state[c]
    PROVE  OnePublisher'
<1>1. CASE target = Absent
  BY <1>1 DEF OnePublisher, Absent
<1>2. CASE target # Absent
  <2>0. PICK b \in Builders :
            /\ pc[b] = "returned"
            /\ \A c \in Builders : pc[c] = "returned" => c = b
            /\ \E q \in SUBSET ToSet(rows[b]) : StemsFrom(b, target, q)
    BY <1>2 DEF OnePublisher
  <2>1. PICK q \in SUBSET ToSet(rows[b]) : StemsFrom(b, target, q)
    BY <2>0
  <2>2. rows'[b] = rows[b] /\ state'[b] = state[b]
    BY <2>0
  <2>3. StemsFrom(b, target, q)'
    BY <2>1, <2>2 DEF StemsFrom
  <2>4. q \in SUBSET ToSet(rows'[b])
    BY <2>2
  <2>5. target' # Absent'
    BY <1>2 DEF Absent
  <2> QED
    BY <2>0, <2>3, <2>4, <2>5 DEF OnePublisher
<1> QED
  BY <1>1, <1>2

(* A step of a builder that is not writing, as far as the others care.     *)
LEMMA WrittenKept ==
    ASSUME WrittenInOrder,
           \A c \in Builders : pc'[c] = "writing" =>
               /\ pc[c] = "writing"
               /\ rows'[c] = rows[c] /\ state'[c] = state[c]
               /\ temporary'[c] = temporary[c]
    PROVE  WrittenInOrder'
<1> SUFFICES ASSUME NEW c \in Builders, pc'[c] = "writing"
             PROVE  \E q \in SUBSET ToSet(rows'[c]) : \E n \in 0 .. Len(WriteOrder) :
                        /\ DOMAIN temporary'[c] = FirstFiles(n)
                        /\ Cardinality(FirstFiles(n)) = n
                        /\ IsFiniteSet(FirstFiles(n))
                        /\ \A name \in FirstFiles(n) :
                            temporary'[c][name] = Whole(c, rows'[c], state'[c], q)[name]
  BY DEF WrittenInOrder
<1>1. /\ pc[c] = "writing"
      /\ rows'[c] = rows[c] /\ state'[c] = state[c]
      /\ temporary'[c] = temporary[c]
  OBVIOUS
<1>2. PICK q \in SUBSET ToSet(rows[c]) : \E n \in 0 .. Len(WriteOrder) :
          /\ DOMAIN temporary[c] = FirstFiles(n)
          /\ Cardinality(FirstFiles(n)) = n
          /\ IsFiniteSet(FirstFiles(n))
          /\ \A name \in FirstFiles(n) :
              temporary[c][name] = Whole(c, rows[c], state[c], q)[name]
  BY <1>1 DEF WrittenInOrder
<1> QED
  BY <1>1, <1>2

(* Before any builder has started nothing is on disk.                      *)
LEMMA InitInv == ASSUME Init PROVE IInv
<1>1. history \in Seq(Row) /\ Len(history) \in Nat
  BY BundleAssumption DEF Init
<1>2. SubSeq(history, 1, 0) = <<>>
  BY SubSeqEmpty
<1>3. NoState.event_count = 0 /\ <<>> \in Seq(Row)
  BY DEF NoState, StateOf
<1>4. TypeOK
  <2>1. history \in Histories /\ committed \in 0 .. Len(history)
        /\ alterations \in 0 .. MaxAlterations
    BY BundleAssumption DEF Init
  <2>2. pc \in [Builders -> {"called", "checked", "read", "projected", "writing",
                            "unwinding"} \union Ended]
    BY DEF Init
  <2>3. ASSUME NEW b \in Builders
        PROVE  /\ rows[b] \in Seq(Row) /\ state[b].event_count \in Nat
               /\ temporary[b] = Absent /\ pc[b] = "called"
    BY <1>3 DEF Init
  <2> QED
    BY <2>1, <2>2, <2>3 DEF TypeOK, Init
<1>5. OfEachBuilder /\ WrittenInOrder /\ OnePublisher
      /\ TemporaryInUse /\ RefusedHasReason
  BY DEF Init, OfEachBuilder, WrittenInOrder, OnePublisher, TemporaryInUse,
         RefusedHasReason
<1>6. ReadsArePrefixes
  <2>1. 0 \in 0 .. Len(history)
    BY <1>1
  <2>2. ASSUME NEW b \in Builders
        PROVE  /\ rows[b] = SubSeq(history, 1, 0)
               /\ state[b] = StateOf(SubSeq(history, 1, 0))
    BY <1>2 DEF Init, NoState
  <2> QED
    BY <2>1, <2>2 DEF ReadsArePrefixes
<1> QED
  BY <1>4, <1>5, <1>6 DEF IInv

(* A builder that moves on and changes nothing else but, perhaps, what it  *)
(* read or its temporary directory.                                        *)
LEMMA PcStep ==
    ASSUME TypeOK, NEW b \in Builders, NEW label, Goto(b, label),
           label \in {"called", "checked", "read", "projected", "writing",
                       "unwinding"} \union Ended
    PROVE  /\ pc' \in [Builders -> {"called", "checked", "read", "projected",
                                    "writing", "unwinding"} \union Ended]
           /\ pc'[b] = label
           /\ \A c \in Builders \ {b} : pc'[c] = pc[c]
BY DEF TypeOK, Goto

(* Events committed while a bundle is built: the files keep what they      *)
(* hold.                                                                   *)
LEMMA GrowsStep == ASSUME IInv, LedgerGrows PROVE IInv'
<1>1. TypeOK'
  <2>1. committed' \in 0 .. Len(history)
    BY BundleAssumption DEF IInv, TypeOK, LedgerGrows
  <2> QED
    BY <2>1 DEF IInv, TypeOK, LedgerGrows, Directory, Absent
<1>2. WrittenInOrder'
  BY WrittenKept DEF IInv, LedgerGrows
<1>3. OnePublisher'
  BY PublisherKept DEF IInv, LedgerGrows
<1>4. OfEachBuilder' /\ ReadsArePrefixes' /\ TemporaryInUse' /\ RefusedHasReason'
  BY DEF IInv, LedgerGrows, OfEachBuilder, ReadsArePrefixes, TemporaryInUse,
         RefusedHasReason, Absent
<1> QED
  BY <1>1, <1>2, <1>3, <1>4 DEF IInv

(* _validate_target: the builder learns what stands at its target now.     *)
LEMMA CheckStep == ASSUME IInv, NEW b \in Builders, CheckTarget(b) PROVE IInv'
<1> DEFINE label == IF Exists THEN "refused" ELSE "checked"
<1>1. /\ pc' \in [Builders -> {"called", "checked", "read", "projected", "writing",
                               "unwinding"} \union Ended]
      /\ pc'[b] = label
      /\ \A c \in Builders \ {b} : pc'[c] = pc[c]
  BY PcStep DEF IInv, CheckTarget, Ended
<1>2. TypeOK'
  BY <1>1 DEF IInv, TypeOK, CheckTarget, Directory, Absent
<1>3. WrittenInOrder'
  BY <1>1, WrittenKept DEF IInv, CheckTarget
<1>4. OnePublisher'
  BY <1>1, PublisherKept DEF IInv, CheckTarget
<1>5. RefusedHasReason'
  BY <1>1 DEF IInv, RefusedHasReason, CheckTarget, Exists, Absent
<1>6. OfEachBuilder' /\ ReadsArePrefixes' /\ TemporaryInUse'
  BY <1>1 DEF IInv, OfEachBuilder, ReadsArePrefixes, TemporaryInUse, CheckTarget, Absent
<1> QED
  BY <1>2, <1>3, <1>4, <1>5, <1>6 DEF IInv

(* The first read of the ledger.                                           *)
LEMMA ReadRowsStep == ASSUME IInv, NEW b \in Builders, ReadRows(b) PROVE IInv'
<1>1. /\ pc' \in [Builders -> {"called", "checked", "read", "projected", "writing",
                               "unwinding"} \union Ended]
      /\ pc'[b] = "read"
      /\ \A c \in Builders \ {b} : pc'[c] = pc[c]
  BY PcStep DEF IInv, ReadRows, Ended
<1>2. /\ Rows \in Seq(Row)
      /\ \E k \in 0 .. Len(history) : Rows = SubSeq(history, 1, k)
  BY ReadFacts DEF IInv, TypeOK, Rows
<1>3. /\ rows'[b] = Rows
      /\ \A c \in Builders \ {b} : rows'[c] = rows[c]
      /\ DOMAIN rows' = Builders
  BY DEF IInv, OfEachBuilder, ReadRows
<1>4. TypeOK'
  <2>1. /\ temporary' = temporary /\ state' = state /\ target' = target
        /\ history' = history /\ committed' = committed /\ alterations' = alterations
    BY DEF ReadRows
  <2>2. ASSUME NEW c \in Builders PROVE rows'[c] \in Seq(Row)
    BY <1>2, <1>3 DEF IInv, TypeOK
  <2>3. ASSUME NEW c \in Builders
        PROVE  /\ state[c].event_count \in Nat
               /\ temporary[c] # Absent => Directory(temporary[c])
               /\ pc'[c] \in {"writing", "unwinding"} => temporary[c] # Absent
    BY <1>1 DEF IInv, TypeOK
  <2> QED
    BY <1>1, <2>1, <2>2, <2>3 DEF IInv, TypeOK, Directory, Absent
<1>5. WrittenInOrder'
  BY <1>1, <1>3, WrittenKept DEF IInv, ReadRows
<1>6. OnePublisher'
  BY <1>1, <1>3, PublisherKept DEF IInv, ReadRows
<1>7. ReadsArePrefixes'
  <2> SUFFICES ASSUME NEW c \in Builders
               PROVE  /\ \E k \in 0 .. Len(history) : rows'[c] = SubSeq(history, 1, k)
                      /\ \E m \in 0 .. Len(history) :
                             state[c] = StateOf(SubSeq(history, 1, m))
    BY DEF ReadsArePrefixes, ReadRows
  <2> QED
    BY <1>2, <1>3 DEF IInv, ReadsArePrefixes
<1>8. OfEachBuilder' /\ TemporaryInUse' /\ RefusedHasReason'
  BY <1>1, <1>3 DEF IInv, OfEachBuilder, TemporaryInUse, RefusedHasReason, ReadRows, Absent
<1> QED
  BY <1>4, <1>5, <1>6, <1>7, <1>8 DEF IInv

(* replay(ledger), the second read: it may see more rows than the first.   *)
LEMMA ReplayStep == ASSUME IInv, NEW b \in Builders, Replay(b) PROVE IInv'
<1>1. /\ pc' \in [Builders -> {"called", "checked", "read", "projected", "writing",
                               "unwinding"} \union Ended]
      /\ pc'[b] = "projected"
      /\ \A c \in Builders \ {b} : pc'[c] = pc[c]
  BY PcStep DEF IInv, Replay, Ended
<1>2. /\ StateOf(Rows).event_count \in Nat
      /\ \E m \in 0 .. Len(history) : StateOf(Rows) = StateOf(SubSeq(history, 1, m))
  BY ReadFacts DEF IInv, TypeOK, Rows
<1>3. /\ state'[b] = StateOf(Rows)
      /\ \A c \in Builders \ {b} : state'[c] = state[c]
      /\ DOMAIN state' = Builders
  BY DEF IInv, OfEachBuilder, Replay
<1>4. TypeOK'
  <2>1. /\ temporary' = temporary /\ rows' = rows /\ target' = target
        /\ history' = history /\ committed' = committed /\ alterations' = alterations
    BY DEF Replay
  <2>2. ASSUME NEW c \in Builders PROVE state'[c].event_count \in Nat
    <3>1. CASE c = b
      BY <1>2, <1>3, <3>1
    <3>2. CASE c # b
      BY <1>3, <3>2 DEF IInv, TypeOK
    <3> QED
      BY <3>1, <3>2
  <2>3. ASSUME NEW c \in Builders
        PROVE  /\ rows[c] \in Seq(Row)
               /\ temporary[c] # Absent => Directory(temporary[c])
               /\ pc'[c] \in {"writing", "unwinding"} => temporary[c] # Absent
    BY <1>1 DEF IInv, TypeOK
  <2> QED
    BY <1>1, <2>1, <2>2, <2>3 DEF IInv, TypeOK, Directory, Absent
<1>5. WrittenInOrder'
  BY <1>1, <1>3, WrittenKept DEF IInv, Replay
<1>6. OnePublisher'
  BY <1>1, <1>3, PublisherKept DEF IInv, Replay
<1>7. ReadsArePrefixes'
  <2> SUFFICES ASSUME NEW c \in Builders
               PROVE  /\ \E k \in 0 .. Len(history) : rows[c] = SubSeq(history, 1, k)
                      /\ \E m \in 0 .. Len(history) :
                             state'[c] = StateOf(SubSeq(history, 1, m))
    BY DEF ReadsArePrefixes, Replay
  <2> QED
    BY <1>2, <1>3 DEF IInv, ReadsArePrefixes
<1>8. OfEachBuilder' /\ TemporaryInUse' /\ RefusedHasReason'
  BY <1>1, <1>3 DEF IInv, OfEachBuilder, TemporaryInUse, RefusedHasReason, Replay, Absent
<1> QED
  BY <1>4, <1>5, <1>6, <1>7, <1>8 DEF IInv

(* mkdtemp: a new, empty directory of the builder's own.                   *)
LEMMA MakeStep == ASSUME IInv, NEW b \in Builders, MakeTemporary(b) PROVE IInv'
<1>1. /\ pc' \in [Builders -> {"called", "checked", "read", "projected", "writing",
                               "unwinding"} \union Ended]
      /\ pc'[b] = "writing"
      /\ \A c \in Builders \ {b} : pc'[c] = pc[c]
  BY PcStep DEF IInv, MakeTemporary, Ended
<1>2. /\ temporary'[b] = EmptyDirectory
      /\ \A c \in Builders \ {b} : temporary'[c] = temporary[c]
      /\ DOMAIN temporary' = Builders
  BY DEF IInv, OfEachBuilder, MakeTemporary
<1>3. DOMAIN EmptyDirectory = {} /\ Directory(EmptyDirectory)
  BY DEF EmptyDirectory, Directory
<1>4. TypeOK'
  <2>1. EmptyDirectory # Absent
    BY <1>3, DirectoryExists
  <2> QED
    BY <1>1, <1>2, <1>3, <2>1 DEF IInv, TypeOK, MakeTemporary, Directory, Absent
<1>5. WrittenInOrder'
  <2> SUFFICES ASSUME NEW c \in Builders, pc'[c] = "writing"
               PROVE  \E q \in SUBSET ToSet(rows'[c]) : \E n \in 0 .. Len(WriteOrder) :
                          /\ DOMAIN temporary'[c] = FirstFiles(n)
                          /\ Cardinality(FirstFiles(n)) = n
                          /\ IsFiniteSet(FirstFiles(n))
                          /\ \A name \in FirstFiles(n) :
                              temporary'[c][name] = Whole(c, rows'[c], state'[c], q)[name]
    BY DEF WrittenInOrder
  <2>0. rows' = rows /\ state' = state
    BY DEF MakeTemporary
  <2>1. CASE c = b
    <3>1. 0 \in 0 .. 9 /\ 0 \in 0 .. Len(WriteOrder)
      BY Order
    <3>2. FirstFiles(0) = {}
      BY <3>1, WrittenSoFar
    <3>3. Cardinality(FirstFiles(0)) = 0 /\ IsFiniteSet(FirstFiles(0))
      BY <3>2, FS_EmptySet
    <3>4. {} \in SUBSET ToSet(rows'[c])
      OBVIOUS
    <3> QED
      BY <2>1, <3>1, <3>2, <3>3, <3>4, <1>2, <1>3
  <2>2. CASE c # b
    BY <2>0, <2>2, <1>1, <1>2 DEF IInv, WrittenInOrder
  <2> QED
    BY <2>1, <2>2
<1>6. OnePublisher'
  BY <1>1, PublisherKept DEF IInv, MakeTemporary
<1>7. OfEachBuilder' /\ ReadsArePrefixes' /\ TemporaryInUse' /\ RefusedHasReason'
  BY <1>1, <1>2 DEF IInv, OfEachBuilder, ReadsArePrefixes, TemporaryInUse,
         RefusedHasReason, MakeTemporary, Absent
<1> QED
  BY <1>4, <1>5, <1>6, <1>7 DEF IInv

(* Adding or overwriting a file leaves a directory a directory.            *)
LEMMA PutDirectory ==
    ASSUME NEW dir, Directory(dir),
           NEW name \in ExpectedFiles \union {"unexpected", "subdirectory"},
           NEW content,
           name = "ledger_events.jsonl" => content = Garbled \/ content \in Seq(Row)
    PROVE  Directory(Put(dir, name, content))
<1> DEFINE d == Put(dir, name, content)
<1>1. /\ DOMAIN d = DOMAIN dir \union {name}
      /\ d[name] = content
      /\ \A other \in DOMAIN dir \ {name} : d[other] = dir[other]
  BY DEF Put
<1> HIDE DEF d
<1>2. DOMAIN d \subseteq ExpectedFiles \union {"unexpected", "subdirectory"}
  BY <1>1 DEF Directory
<1>3. "ledger_events.jsonl" \in DOMAIN d =>
          d["ledger_events.jsonl"] = Garbled \/ d["ledger_events.jsonl"] \in Seq(Row)
  BY <1>1 DEF Directory
<1>4. Directory(d)
  BY <1>2, <1>3 DEF Directory
<1> QED
  BY <1>4 DEF d

(* The files are written in one order, the next one is not there yet.      *)
LEMMA NextFileFacts ==
    ASSUME IInv, NEW b \in Builders, pc[b] = "writing",
           DOMAIN temporary[b] # ExpectedFiles
    PROVE  \E q \in SUBSET ToSet(rows[b]) : \E n \in 0 .. 8 :
               /\ DOMAIN temporary[b] = FirstFiles(n)
               /\ Cardinality(FirstFiles(n)) = n
               /\ IsFiniteSet(FirstFiles(n))
               /\ \A name \in FirstFiles(n) :
                   temporary[b][name] = Whole(b, rows[b], state[b], q)[name]
               /\ NextFile(b) = WriteOrder[n + 1]
               /\ NextFile(b) \in ExpectedFiles \ FirstFiles(n)
               /\ FirstFiles(n + 1) = FirstFiles(n) \union {NextFile(b)}
<1>1. PICK q \in SUBSET ToSet(rows[b]), n \in 0 .. Len(WriteOrder) :
          /\ DOMAIN temporary[b] = FirstFiles(n)
          /\ Cardinality(FirstFiles(n)) = n
          /\ IsFiniteSet(FirstFiles(n))
          /\ \A name \in FirstFiles(n) :
              temporary[b][name] = Whole(b, rows[b], state[b], q)[name]
  BY DEF IInv, WrittenInOrder
<1>2. n \in 0 .. 8
  BY <1>1, Order, WrittenSoFar
<1>3. NextFile(b) = WriteOrder[n + 1]
  BY <1>1 DEF NextFile
<1>4. /\ NextFile(b) \in ExpectedFiles \ FirstFiles(n)
      /\ FirstFiles(n + 1) = FirstFiles(n) \union {NextFile(b)}
  <2>1. n \in 0 .. 9 /\ n < 9
    BY <1>2
  <2> QED
    BY <2>1, <1>3, WrittenSoFar
<1> QED
  BY <1>1, <1>2, <1>3, <1>4

(* One more file, written from the rows this builder read.                 *)
LEMMA WriteStep == ASSUME IInv, NEW b \in Builders, Write(b) PROVE IInv'
<1>1. PICK content \in ContentsOf(b, temporary[b], NextFile(b)) :
          temporary' = [temporary EXCEPT ![b] = Put(@, NextFile(b), content)]
  BY DEF Write
<1>2. PICK q \in SUBSET ToSet(rows[b]), n \in 0 .. 8 :
          /\ DOMAIN temporary[b] = FirstFiles(n)
          /\ Cardinality(FirstFiles(n)) = n
          /\ IsFiniteSet(FirstFiles(n))
          /\ \A name \in FirstFiles(n) :
              temporary[b][name] = Whole(b, rows[b], state[b], q)[name]
          /\ NextFile(b) = WriteOrder[n + 1]
          /\ NextFile(b) \in ExpectedFiles \ FirstFiles(n)
          /\ FirstFiles(n + 1) = FirstFiles(n) \union {NextFile(b)}
  BY NextFileFacts DEF Write
<1>3. PICK p \in SUBSET ToSet(rows[b]) :
          /\ \A name \in FirstFiles(n) :
              temporary[b][name] = Whole(b, rows[b], state[b], p)[name]
          /\ content = Whole(b, rows[b], state[b], p)[NextFile(b)]
  <2>1. content \in ContentsOf(b, temporary[b], WriteOrder[n + 1])
    BY <1>2
  <2>2. /\ DOMAIN temporary[b] = FirstFiles(n)
        /\ \A name \in FirstFiles(n) :
               temporary[b][name] = Whole(b, rows[b], state[b], q)[name]
    BY <1>2
  <2>3. \E p \in SUBSET ToSet(rows[b]) :
               /\ \A name \in FirstFiles(n) :
                   temporary[b][name] = Whole(b, rows[b], state[b], p)[name]
               /\ content = Whole(b, rows[b], state[b], p)[WriteOrder[n + 1]]
    BY <2>1, <2>2, NextFits, ZenonT(30)
  <2> QED
    BY <2>3, <1>2
<1> DEFINE new == Put(temporary[b], NextFile(b), content)
<1>4. /\ temporary'[b] = new
      /\ \A c \in Builders \ {b} : temporary'[c] = temporary[c]
      /\ DOMAIN temporary' = Builders
  BY <1>1 DEF IInv, OfEachBuilder
<1>5. Directory(new)
  <2>1. Directory(temporary[b])
    BY DEF IInv, TypeOK, Write
  <2>2. NextFile(b) = "ledger_events.jsonl" => content \in Seq(Row)
    BY <1>3, WholeFiles DEF IInv, TypeOK
  <2> QED
    BY <1>2, <2>1, <2>2, PutDirectory
<1>10. /\ DOMAIN new = DOMAIN temporary[b] \union {NextFile(b)}
       /\ new[NextFile(b)] = content
       /\ \A other \in DOMAIN temporary[b] \ {NextFile(b)} :
           new[other] = temporary[b][other]
  BY DEF Put
<1> HIDE DEF new
<1>6. TypeOK'
  <2>1. new # Absent
    BY <1>5, DirectoryExists
  <2>2. ASSUME NEW c \in Builders
        PROVE  /\ rows'[c] \in Seq(Row) /\ state'[c].event_count \in Nat
               /\ temporary'[c] # Absent' => Directory(temporary[c])'
               /\ pc'[c] \in {"writing", "unwinding"} => temporary'[c] # Absent'
    BY <1>4, <1>5, <2>1 DEF IInv, TypeOK, Write, Directory, Absent
  <2> QED
    BY <2>2 DEF IInv, TypeOK, Write, Directory, Absent
<1>7. WrittenInOrder'
  <2> SUFFICES ASSUME NEW c \in Builders, pc'[c] = "writing"
               PROVE  \E r \in SUBSET ToSet(rows'[c]) : \E m \in 0 .. Len(WriteOrder) :
                          /\ DOMAIN temporary'[c] = FirstFiles(m)
                          /\ Cardinality(FirstFiles(m)) = m
                          /\ IsFiniteSet(FirstFiles(m))
                          /\ \A name \in FirstFiles(m) :
                              temporary'[c][name] = Whole(c, rows'[c], state'[c], r)[name]
    BY DEF WrittenInOrder
  <2>0. rows' = rows /\ state' = state /\ pc' = pc
    BY DEF Write
  <2>1. CASE c = b
    <3>1. n + 1 \in 0 .. Len(WriteOrder)
      BY <1>2, Order
    <3>2. DOMAIN new = FirstFiles(n + 1)
      BY <1>2, <1>10
    <3>3. Cardinality(FirstFiles(n + 1)) = n + 1 /\ IsFiniteSet(FirstFiles(n + 1))
      <4>1. FirstFiles(n + 1) = FirstFiles(n) \union {NextFile(b)}
        BY <1>2
      <4>2. IsFiniteSet(FirstFiles(n)) /\ NextFile(b) \notin FirstFiles(n)
        BY <1>2
      <4>3. Cardinality(FirstFiles(n)) = n
        BY <1>2
      <4> QED
        BY <4>1, <4>2, <4>3, FS_AddElement
    <3>4. \A name \in FirstFiles(n + 1) : new[name] = Whole(b, rows[b], state[b], p)[name]
      BY <1>2, <1>3, <1>10
    <3> QED
      BY <2>0, <2>1, <3>1, <3>2, <3>3, <3>4, <1>4
  <2>2. CASE c # b
    <3>1. /\ rows'[c] = rows[c] /\ state'[c] = state[c]
          /\ temporary'[c] = temporary[c] /\ pc[c] = "writing"
      BY <2>0, <2>2, <1>4
    <3>2. PICK r \in SUBSET ToSet(rows[c]) : \E m \in 0 .. Len(WriteOrder) :
              /\ DOMAIN temporary[c] = FirstFiles(m)
              /\ Cardinality(FirstFiles(m)) = m
              /\ IsFiniteSet(FirstFiles(m))
              /\ \A name \in FirstFiles(m) :
                  temporary[c][name] = Whole(c, rows[c], state[c], r)[name]
      BY <3>1 DEF IInv, WrittenInOrder
    <3> QED
      BY <3>1, <3>2
  <2> QED
    BY <2>1, <2>2
<1>8. OnePublisher'
  BY PublisherKept DEF IInv, Write
<1>9. OfEachBuilder' /\ ReadsArePrefixes' /\ TemporaryInUse' /\ RefusedHasReason'
  BY <1>4 DEF IInv, OfEachBuilder, ReadsArePrefixes, TemporaryInUse,
         RefusedHasReason, Write, Absent
<1> QED
  BY <1>6, <1>7, <1>8, <1>9 DEF IInv

(* A failing write tears a file of an unpublished directory.               *)
LEMMA WriteFailsStep == ASSUME IInv, NEW b \in Builders, WriteFails(b) PROVE IInv'
<1>1. /\ pc' \in [Builders -> {"called", "checked", "read", "projected", "writing",
                               "unwinding"} \union Ended]
      /\ pc'[b] = "unwinding"
      /\ \A c \in Builders \ {b} : pc'[c] = pc[c]
  BY PcStep DEF IInv, WriteFails, Ended
<1>2. /\ Directory(temporary'[b])
      /\ \A c \in Builders \ {b} : temporary'[c] = temporary[c]
      /\ DOMAIN temporary' = Builders
  <2>1. Directory(temporary[b])
    BY DEF IInv, TypeOK, WriteFails
  <2>2. CASE UNCHANGED temporary
    BY <2>1, <2>2 DEF IInv, OfEachBuilder
  <2>3. CASE temporary' = [temporary EXCEPT ![b] = Put(@, NextFile(b), Garbled)]
    <3>1. NextFile(b) \in ExpectedFiles
      BY NextFileFacts DEF WriteFails
    <3>2. Directory(Put(temporary[b], NextFile(b), Garbled))
      BY <2>1, <3>1, PutDirectory
    <3> QED
      BY <2>3, <3>2 DEF IInv, OfEachBuilder
  <2> QED
    BY <2>2, <2>3 DEF WriteFails
<1>3. TypeOK'
  <2>1. temporary'[b] # Absent
    BY <1>2, DirectoryExists
  <2>2. ASSUME NEW c \in Builders
        PROVE  /\ rows'[c] \in Seq(Row) /\ state'[c].event_count \in Nat
               /\ temporary'[c] # Absent' => Directory(temporary[c])'
               /\ pc'[c] \in {"writing", "unwinding"} => temporary'[c] # Absent'
    BY <1>1, <1>2, <2>1 DEF IInv, TypeOK, WriteFails, Directory, Absent
  <2> QED
    BY <1>1, <2>2 DEF IInv, TypeOK, WriteFails, Directory, Absent
<1>4. WrittenInOrder'
  BY <1>1, <1>2, WrittenKept DEF IInv, WriteFails
<1>5. OnePublisher'
  BY <1>1, PublisherKept DEF IInv, WriteFails
<1>6. OfEachBuilder' /\ ReadsArePrefixes' /\ TemporaryInUse' /\ RefusedHasReason'
  BY <1>1, <1>2 DEF IInv, OfEachBuilder, ReadsArePrefixes, TemporaryInUse,
         RefusedHasReason, WriteFails, Absent
<1> QED
  BY <1>3, <1>4, <1>5, <1>6 DEF IInv

(* os.rename: what is published is complete and takes a free name.         *)
LEMMA RenameStep == ASSUME IInv, NEW b \in Builders, Rename(b) PROVE IInv'
<1>1. /\ pc' \in [Builders -> {"called", "checked", "read", "projected", "writing",
                               "unwinding"} \union Ended]
      /\ pc'[b] = "returned"
      /\ \A c \in Builders \ {b} : pc'[c] = pc[c]
  BY PcStep DEF IInv, Rename, Ended
<1>2. /\ temporary'[b] = Absent
      /\ \A c \in Builders \ {b} : temporary'[c] = temporary[c]
      /\ DOMAIN temporary' = Builders
  BY DEF IInv, OfEachBuilder, Rename
<1>3. target' = temporary[b] /\ Directory(target') /\ target = Absent
  BY DEF IInv, TypeOK, Rename, Free
<1>4. target' # Absent
  BY <1>3, DirectoryExists
<1>5. TypeOK'
  <2>1. ASSUME NEW c \in Builders
        PROVE  /\ rows'[c] \in Seq(Row) /\ state'[c].event_count \in Nat
               /\ temporary'[c] # Absent' => Directory(temporary[c])'
               /\ pc'[c] \in {"writing", "unwinding"} => temporary'[c] # Absent'
    BY <1>1, <1>2 DEF IInv, TypeOK, Rename, Directory, Absent
  <2> QED
    BY <1>1, <1>3, <2>1 DEF IInv, TypeOK, Rename, Directory, Absent
<1>6. WrittenInOrder'
  BY <1>1, <1>2, WrittenKept DEF IInv, Rename
<1>7. OnePublisher'
  <2>1. PICK q \in SUBSET ToSet(rows[b]), n \in 0 .. Len(WriteOrder) :
            /\ DOMAIN temporary[b] = FirstFiles(n)
            /\ \A name \in FirstFiles(n) :
                temporary[b][name] = Whole(b, rows[b], state[b], q)[name]
    BY DEF IInv, WrittenInOrder, Rename
  <2>2. DOMAIN target' = ExpectedFiles
    BY <1>3 DEF Rename, Ready
  <2>3. \A name \in ExpectedFiles :
            target'[name] = Whole(b, rows'[b], state'[b], q)[name]
    BY <1>3, <2>1, <2>2 DEF Rename
  <2>4. StemsFrom(b, target, q)'
    BY <2>2, <2>3 DEF StemsFrom
  <2>5. \A c \in Builders : pc'[c] = "returned" => c = b
    BY <1>1, <1>3 DEF IInv, OnePublisher
  <2>6. q \in SUBSET ToSet(rows'[b])
    BY DEF Rename
  <2>7. target' # Absent'
    BY <1>4 DEF Absent
  <2> QED
    BY <1>1, <2>4, <2>5, <2>6, <2>7 DEF OnePublisher
<1>8. OfEachBuilder' /\ ReadsArePrefixes'
  BY <1>2 DEF IInv, OfEachBuilder, ReadsArePrefixes, Rename
<1>9. TemporaryInUse'
  <2> SUFFICES ASSUME NEW c \in Builders,
                      pc'[c] \notin {"writing", "unwinding", "crashed"}
               PROVE  temporary'[c] = Absent
    BY DEF TemporaryInUse, Absent
  <2>1. CASE c = b
    BY <1>2, <2>1
  <2>2. CASE c # b
    <3>1. pc'[c] = pc[c] /\ temporary'[c] = temporary[c]
      BY <1>1, <1>2, <2>2
    <3> QED
      BY <3>1 DEF IInv, TemporaryInUse
  <2> QED
    BY <2>1, <2>2
<1>10. RefusedHasReason'
  BY <1>4 DEF RefusedHasReason, Absent
<1> QED
  BY <1>5, <1>6, <1>7, <1>8, <1>9, <1>10 DEF IInv

(* The rename that finds another directory leaves both as they are.        *)
LEMMA RenameFailsStep == ASSUME IInv, NEW b \in Builders, RenameFails(b) PROVE IInv'
<1>1. /\ pc' \in [Builders -> {"called", "checked", "read", "projected", "writing",
                               "unwinding"} \union Ended]
      /\ pc'[b] = "unwinding"
      /\ \A c \in Builders \ {b} : pc'[c] = pc[c]
  BY PcStep DEF IInv, RenameFails, Ended, AfterOSError
<1>2. TypeOK'
  BY <1>1 DEF IInv, TypeOK, RenameFails, Directory, Absent
<1>3. WrittenInOrder'
  BY <1>1, WrittenKept DEF IInv, RenameFails
<1>4. OnePublisher'
  BY <1>1, PublisherKept DEF IInv, RenameFails
<1>5. OfEachBuilder' /\ ReadsArePrefixes' /\ TemporaryInUse' /\ RefusedHasReason'
  BY <1>1 DEF IInv, OfEachBuilder, ReadsArePrefixes, TemporaryInUse,
         RefusedHasReason, RenameFails, Absent
<1> QED
  BY <1>2, <1>3, <1>4, <1>5 DEF IInv

(* shutil.rmtree removes the builder's own temporary directory only.       *)
LEMMA CleanUpStep == ASSUME IInv, NEW b \in Builders, CleanUp(b) PROVE IInv'
<1>1. /\ pc' \in [Builders -> {"called", "checked", "read", "projected", "writing",
                               "unwinding"} \union Ended]
      /\ pc'[b] = "failed"
      /\ \A c \in Builders \ {b} : pc'[c] = pc[c]
  BY PcStep DEF IInv, CleanUp, Ended, AfterCleanUp
<1>2. /\ temporary'[b] = Absent
      /\ \A c \in Builders \ {b} : temporary'[c] = temporary[c]
      /\ DOMAIN temporary' = Builders
  BY DEF IInv, OfEachBuilder, CleanUp
<1>3. TypeOK'
  BY <1>1, <1>2 DEF IInv, TypeOK, CleanUp, Directory, Absent
<1>4. WrittenInOrder'
  BY <1>1, <1>2, WrittenKept DEF IInv, CleanUp
<1>5. OnePublisher'
  BY <1>1, PublisherKept DEF IInv, CleanUp
<1>6. OfEachBuilder' /\ ReadsArePrefixes' /\ TemporaryInUse' /\ RefusedHasReason'
  BY <1>1, <1>2 DEF IInv, OfEachBuilder, ReadsArePrefixes, TemporaryInUse,
         RefusedHasReason, CleanUp, Absent
<1> QED
  BY <1>3, <1>4, <1>5, <1>6 DEF IInv

(* A crash leaves the temporary directory behind, and nothing else.        *)
LEMMA CrashStep == ASSUME IInv, NEW b \in Builders, Crash(b) PROVE IInv'
<1>1. /\ pc' \in [Builders -> {"called", "checked", "read", "projected", "writing",
                               "unwinding"} \union Ended]
      /\ pc'[b] = "crashed"
      /\ \A c \in Builders \ {b} : pc'[c] = pc[c]
  BY PcStep DEF IInv, Crash, Ended
<1>2. TypeOK'
  BY <1>1 DEF IInv, TypeOK, Crash, Directory, Absent
<1>3. WrittenInOrder'
  BY <1>1, WrittenKept DEF IInv, Crash
<1>4. OnePublisher'
  BY <1>1, PublisherKept DEF IInv, Crash, Ended
<1>5. OfEachBuilder' /\ ReadsArePrefixes' /\ TemporaryInUse' /\ RefusedHasReason'
  BY <1>1 DEF IInv, OfEachBuilder, ReadsArePrefixes, TemporaryInUse,
         RefusedHasReason, Crash, Absent
<1> QED
  BY <1>2, <1>3, <1>4, <1>5 DEF IInv

(* An altered target keeps its files as written, or garbled.               *)
LEMMA AlterStep == ASSUME IInv, Alter PROVE IInv'
<1>1. alterations' \in 0 .. MaxAlterations /\ alterations' # 0
  BY BundleAssumption DEF IInv, TypeOK, Alter
<1>2. /\ Directory(target')
      /\ \A name \in DOMAIN target' \intersect ExpectedFiles :
          \/ target'[name] = Garbled
          \/ name \in DOMAIN target /\ target'[name] = target[name]
  <2>1. Directory(target)
    BY DEF IInv, TypeOK, Alter
  <2>2. ASSUME NEW name \in DOMAIN target,
               target' = [target EXCEPT ![name] = Garbled]
        PROVE  <1>2
    <3>1. DOMAIN target' = DOMAIN target
      BY <2>2
    <3>2. \A n \in DOMAIN target :
              target'[n] = IF n = name THEN Garbled ELSE target[n]
      BY <2>2
    <3>3. \A n \in DOMAIN target' :
              target'[n] = Garbled \/ (n \in DOMAIN target /\ target'[n] = target[n])
      BY <3>1, <3>2
    <3>4. Directory(target')
      BY <2>1, <3>1, <3>3 DEF Directory
    <3> QED
      BY <3>3, <3>4
  <2>3. ASSUME NEW name \in DOMAIN target,
               target' = [n \in DOMAIN target \ {name} |-> target[n]]
        PROVE  <1>2
    BY <2>1, <2>3 DEF Directory
  <2>4. ASSUME NEW name \in {"unexpected", "subdirectory"},
               target' = Put(target, name, Garbled)
        PROVE  <1>2
    <3>1. Directory(target')
      BY <2>1, <2>4, PutDirectory
    <3>2. /\ DOMAIN target' = DOMAIN target \union {name}
          /\ \A n \in DOMAIN target \union {name} :
              target'[n] = IF n = name THEN Garbled ELSE target[n]
      BY <2>4 DEF Put
    <3>3. \A n \in DOMAIN target' :
              target'[n] = Garbled \/ (n \in DOMAIN target /\ target'[n] = target[n])
      BY <3>2
    <3> QED
      BY <3>1, <3>3
  <2> QED
    BY <2>2, <2>3, <2>4 DEF Alter
<1>3. target' # Absent /\ target' # Absent'
  BY <1>2, DirectoryExists DEF Absent
<1>4. TypeOK'
  BY <1>1, <1>2 DEF IInv, TypeOK, Alter, Directory, Absent
<1>5. WrittenInOrder'
  BY WrittenKept DEF IInv, Alter
<1>6. OnePublisher'
  <2>1. PICK b \in Builders :
            /\ pc[b] = "returned"
            /\ \A c \in Builders : pc[c] = "returned" => c = b
            /\ \E q \in SUBSET ToSet(rows[b]) : StemsFrom(b, target, q)
    BY DEF IInv, OnePublisher, Alter
  <2>2. PICK q \in SUBSET ToSet(rows[b]) : StemsFrom(b, target, q)
    BY <2>1
  <2>3. rows' = rows /\ state' = state /\ pc' = pc
    BY DEF Alter
  <2>4. \A name \in DOMAIN target' \intersect ExpectedFiles :
            target'[name] \in {Whole(b, rows[b], state[b], q)[name], Garbled}
    BY <1>2, <2>2 DEF StemsFrom
  <2>5. StemsFrom(b, target, q)'
    BY <1>1, <2>3, <2>4 DEF StemsFrom
  <2> QED
    BY <1>3, <2>1, <2>2, <2>3, <2>5 DEF OnePublisher
<1>7. OfEachBuilder' /\ ReadsArePrefixes' /\ TemporaryInUse' /\ RefusedHasReason'
  BY <1>3 DEF IInv, OfEachBuilder, ReadsArePrefixes, TemporaryInUse,
         RefusedHasReason, Alter, Absent
<1> QED
  BY <1>4, <1>5, <1>6, <1>7 DEF IInv

-----------------------------------------------------------------------------
(* The theorems.                                                           *)

(* Every step of every builder, and of the ledger, keeps the invariant.    *)
LEMMA NextInv == ASSUME IInv, [Next]_vars PROVE IInv'
<1>1. CASE LedgerGrows
  BY <1>1, GrowsStep
<1>2. ASSUME NEW b \in Builders, Build(b) \/ WriteFails(b) \/ Crash(b) PROVE IInv'
  BY <1>2, CheckStep, ReadRowsStep, ReplayStep, MakeStep, WriteStep, RenameStep,
     RenameFailsStep, CleanUpStep, WriteFailsStep, CrashStep DEF Build
<1>3. CASE Alter
  BY <1>3, AlterStep
<1>4. CASE UNCHANGED vars
  <2>1. WrittenInOrder'
    BY <1>4, WrittenKept DEF IInv, vars
  <2>2. OnePublisher'
    BY <1>4, PublisherKept DEF IInv, vars
  <2>3. TypeOK' /\ OfEachBuilder' /\ ReadsArePrefixes' /\ TemporaryInUse'
        /\ RefusedHasReason'
    BY <1>4 DEF IInv, vars, TypeOK, OfEachBuilder, ReadsArePrefixes, TemporaryInUse,
           RefusedHasReason, Directory, Absent
  <2> QED
    BY <2>1, <2>2, <2>3 DEF IInv
<1> QED
  BY <1>1, <1>2, <1>3, <1>4 DEF Next

(* The invariant holds throughout (bundle.py:184-288).                     *)
THEOREM Invariance == Spec => []IInv
BY InitInv, NextInv, PTL DEF Spec

(* Every variable keeps its type.                                          *)
THEOREM TypeCorrect == Spec => []TypeOK
<1>1. IInv => TypeOK
  BY DEF IInv
<1> QED
  BY <1>1, Invariance, PTL

(* What the target holds before anything alters it.                        *)
LEMMA PublishedWhole ==
    ASSUME IInv, target # Absent, alterations = 0
    PROVE  \E b \in Builders :
               /\ pc[b] = "returned"
               /\ \A c \in Builders : pc[c] = "returned" => c = b
               /\ DOMAIN target = ExpectedFiles
               /\ \E q \in SUBSET ToSet(rows[b]) : \A name \in ExpectedFiles :
                      target[name] = Whole(b, rows[b], state[b], q)[name]
BY DEF IInv, OnePublisher, StemsFrom

(* A published bundle is complete and sealed, whatever the builders were   *)
(* doing and wherever they died (bundle.py:255-282).                       *)
THEOREM Sealed == Spec => []PublishedIsSealed
<1>1. ASSUME IInv PROVE PublishedIsSealed
  <2> SUFFICES ASSUME target # Absent, alterations = 0
               PROVE  Complete(target) /\ ChecksumsMatch(target) /\ ManifestMatches(target)
    BY DEF PublishedIsSealed
  <2>1. PICK b \in Builders :
            /\ DOMAIN target = ExpectedFiles
            /\ \E q \in SUBSET ToSet(rows[b]) : \A name \in ExpectedFiles :
                   target[name] = Whole(b, rows[b], state[b], q)[name]
    BY <1>1, PublishedWhole
  <2>2. PICK q : \A name \in ExpectedFiles :
                     target[name] = Whole(b, rows[b], state[b], q)[name]
    BY <2>1
  <2> DEFINE W == Whole(b, rows[b], state[b], q)
  <2>3. W["manifest.json"] = Manifest(b, W) /\ W["checksums.sha256"] = Checksums(W)
    BY WholeFiles
  <2>4. \A name \in ExpectedFiles : target[name] = W[name]
    BY <2>2
  <2> HIDE DEF W
  <2>5. Manifest(b, target) = Manifest(b, W) /\ Checksums(target) = Checksums(W)
    BY <2>4, Names DEF Manifest, Checksums, Digests
  <2>6. ChecksumsMatch(target) /\ ManifestMatches(target)
    BY <2>3, <2>4, <2>5, Names DEF ChecksumsMatch, ManifestMatches
  <2>7. Complete(target)
    BY <2>1, Names DEF Complete, FilesOf, ExpectedFiles, SealedFiles
  <2> QED
    BY <2>6, <2>7
<1> QED
  BY <1>1, Invariance, PTL

(* A builder that reports success has published its own bundle, so no two  *)
(* of them report success (bundle.py:279-288).                             *)
THEOREM SuccessIsPublication == Spec => []ResultIsPublished
<1>1. ASSUME IInv PROVE ResultIsPublished
  <2> SUFFICES ASSUME NEW b \in Builders, pc[b] = "returned", alterations = 0
               PROVE  target # Absent /\ target["run.json"].bundle_id = b
    BY DEF ResultIsPublished
  <2>1. target # Absent
    BY <1>1 DEF IInv, OnePublisher
  <2>2. PICK q : target["run.json"] = Whole(b, rows[b], state[b], q)["run.json"]
    BY <1>1, <2>1, PublishedWhole, Names
  <2>3. target["run.json"] = RunDocument(b, rows[b], state[b], q)
    BY <2>2, WholeFiles
  <2> QED
    BY <2>1, <2>3 DEF RunDocument
<1> QED
  BY <1>1, Invariance, PTL

(* Of a target that verifies, nothing has been altered: were the manifest  *)
(* and the checksums both garbled they would have to be equal, and either  *)
(* of them vouches for every other file.                                   *)
LEMMA ValidUnaltered ==
    ASSUME IInv, target # Absent, Valid(target), NEW b \in Builders, NEW q,
           StemsFrom(b, target, q), NEW name \in ExpectedFiles
    PROVE  target[name] = Whole(b, rows[b], state[b], q)[name]
<1> DEFINE W == Whole(b, rows[b], state[b], q)
<1>1. \A n \in ExpectedFiles : target[n] \in {W[n], Garbled}
  BY DEF Valid, Complete, FilesOf, StemsFrom
<1>2. W["manifest.json"] = Manifest(b, W) /\ W["checksums.sha256"] = Checksums(W)
  BY WholeFiles
<1> HIDE DEF W
<1>3. PICK a \in Builders : target["manifest.json"] = Manifest(a, target)
  BY DEF Valid, ManifestMatches
<1>4. target["checksums.sha256"] = Checksums(target)
  BY DEF Valid, ChecksumsMatch
<1>5. ASSUME \A n \in SealedFiles : target[n] = W[n]
      PROVE  \A n \in ExpectedFiles : target[n] = W[n]
  <2>1. Checksums(target) = Checksums(W)
    BY <1>5 DEF Checksums, Digests
  <2> QED
    BY <1>2, <1>4, <1>5, <2>1 DEF ExpectedFiles
<1>6. CASE target["checksums.sha256"] = W["checksums.sha256"]
  <2>1. Digests(target, SealedFiles) = Digests(W, SealedFiles)
    BY <1>2, <1>4, <1>6 DEF Checksums
  <2>2. ASSUME NEW n \in SealedFiles PROVE target[n] = W[n]
    <3>1. Digest(target[n]) = Digest(W[n])
      BY <2>1 DEF Digests
    <3> QED
      BY <3>1 DEF Digest
  <2> QED
    BY <1>5, <2>2 DEF W
<1>7. CASE target["manifest.json"] = W["manifest.json"]
  <2>1. Digests(target, PayloadFiles) = Digests(W, PayloadFiles)
    BY <1>2, <1>3, <1>7 DEF Manifest
  <2>2. ASSUME NEW n \in PayloadFiles PROVE target[n] = W[n]
    <3>1. Digest(target[n]) = Digest(W[n])
      BY <2>1 DEF Digests
    <3> QED
      BY <3>1 DEF Digest
  <2> QED
    BY <1>5, <1>7, <2>2 DEF W, SealedFiles
<1>8. CASE target["manifest.json"] = Garbled /\ target["checksums.sha256"] = Garbled
  <2>1. Manifest(a, target) = Checksums(target)
    BY <1>3, <1>4, <1>8
  <2>2. "bundle_id" \in DOMAIN Manifest(a, target)
    BY DEF Manifest
  <2>3. "bundle_id" \notin DOMAIN Checksums(target)
    BY Names DEF Checksums, Digests, SealedFiles
  <2> QED
    BY <2>1, <2>2, <2>3
<1> QED
  BY <1>1, <1>6, <1>7, <1>8, Names

(* A bundle that verifies is as one builder wrote it, its state is the     *)
(* projection of exactly the rows beside it, and those the ledger held     *)
(* (bundle.py:393-540).                                                    *)
THEOREM Genuine == Spec => []ValidIsGenuine
<1>1. ASSUME IInv PROVE ValidIsGenuine
  <2> SUFFICES ASSUME target # Absent, Valid(target)
               PROVE  /\ \E b \in Builders :
                          /\ pc[b] = "returned"
                          /\ \A name \in ExpectedFiles :
                              target[name] \in ContentsOf(b, target, name)
                      /\ target["state.json"] = StateOf(target["ledger_events.jsonl"])
                      /\ IsPrefix(target["ledger_events.jsonl"], history)
    BY DEF ValidIsGenuine
  <2>1. PICK b \in Builders :
            /\ pc[b] = "returned"
            /\ \E q \in SUBSET ToSet(rows[b]) : StemsFrom(b, target, q)
    BY <1>1 DEF IInv, OnePublisher
  <2>2. PICK q \in SUBSET ToSet(rows[b]) : StemsFrom(b, target, q)
    BY <2>1
  <2> DEFINE W == Whole(b, rows[b], state[b], q)
  <2>3. \A name \in ExpectedFiles : target[name] = W[name]
    BY <1>1, <2>2, ValidUnaltered
  <2>4. /\ W["boundary_findings.jsonl"] = b
        /\ W["ledger_events.jsonl"] = rows[b]
        /\ W["policy.json"] = b
        /\ W["quality_findings.jsonl"] = q
        /\ W["report.md"] = b
        /\ W["run.json"] = RunDocument(b, rows[b], state[b], q)
        /\ W["state.json"] = state[b]
        /\ W["manifest.json"] = Manifest(b, W)
        /\ W["checksums.sha256"] = Checksums(W)
    BY WholeFiles
  <2> HIDE DEF W
  <2>5. Manifest(b, target) = Manifest(b, W) /\ Checksums(target) = Checksums(W)
    BY <2>3, Names DEF Manifest, Checksums, Digests
  <2>6. ASSUME NEW name \in ExpectedFiles
        PROVE  target[name] \in ContentsOf(b, target, name)
    BY <2>2, <2>3, <2>4, <2>5, Names DEF ContentsOf, SealedFiles, ExpectedFiles
  <2>7. target["ledger_events.jsonl"] = rows[b] /\ target["state.json"] = state[b]
    BY <2>3, <2>4, Names
  <2>8. PICK k \in 0 .. Len(history) : rows[b] = SubSeq(history, 1, k)
    BY <1>1 DEF IInv, ReadsArePrefixes
  <2>9. PICK m \in 0 .. Len(history) : state[b] = StateOf(SubSeq(history, 1, m))
    BY <1>1 DEF IInv, ReadsArePrefixes
  <2>10. /\ history \in Seq(Row) /\ rows[b] \in Seq(Row) /\ Len(rows[b]) = k
         /\ state[b].event_count = m
    BY <1>1, <2>8, <2>9, ReadFacts DEF IInv, TypeOK
  <2>11. m = k
    BY <2>7, <2>10 DEF Valid, StateLinked
  <2>12. IsPrefix(rows[b], history)
    BY <2>8, <2>10, SubSeqFull DEF IsPrefix
  <2> QED
    BY <2>1, <2>6, <2>7, <2>8, <2>9, <2>11, <2>12
<1> QED
  BY <1>1, Invariance, PTL

(* Only a crash leaves a temporary directory behind (bundle.py:280-282).   *)
THEOREM NoLeftovers == Spec => []LeftoverOnlyByCrash
<1>1. IInv => LeftoverOnlyByCrash
  BY DEF IInv, TemporaryInUse, LeftoverOnlyByCrash, Ended
<1> QED
  BY <1>1, Invariance, PTL

(* Where nothing was published nobody was turned away or told it was       *)
(* (bundle.py:198).                                                        *)
THEOREM OwnFailuresOnly == Spec => []NobodyGivesWay
<1>1. IInv => NobodyGivesWay
  BY DEF IInv, OnePublisher, RefusedHasReason, NobodyGivesWay, Ended
<1> QED
  BY <1>1, Invariance, PTL

(* A published bundle is not replaced or touched by any builder            *)
(* (bundle.py:198, 279).                                                   *)
THEOREM NeverReplaced == Spec => WriteOnce
<1>1. ASSUME IInv, [Next]_vars
      PROVE  [target # Absent => target' = target \/ alterations' # alterations]_vars
  <2>1. CASE Alter
    BY <1>1, <2>1 DEF Alter, IInv, TypeOK
  <2>2. CASE ~Alter
    BY <1>1, <2>2 DEF Next, LedgerGrows, Build, CheckTarget, ReadRows, Replay,
       MakeTemporary, Write, WriteFails, Rename, Free, RenameFails, CleanUp, Crash, vars
  <2> QED
    BY <2>1, <2>2
<1> QED
  BY <1>1, Invariance, PTL DEF Spec, WriteOnce
=============================================================================
