--------------------------- MODULE EvidenceBundle ---------------------------
(***************************************************************************)
(* build_bundle and verify_bundle: builders that each read a live ledger,  *)
(* write their artifacts into a temporary directory and rename it to one   *)
(* target; and the verifier, a predicate on the directory it finds there.  *)
(*                                                                         *)
(* The ledger appears as the prefix of its history that is committed;      *)
(* that it only grows, and that a read returns a committed prefix, is what *)
(* LedgerProofs proves of Ledger.                                          *)
(***************************************************************************)
EXTENDS ProjectedState

CONSTANTS
    Builders,       \* calls of build_bundle; each has a bundle_id of its own
    Histories,      \* what the ledger may come to hold
    Garbled,        \* content that is cut short, or not what was written
    MaxAlterations  \* how often a published file changes afterwards

ASSUME BundleAssumption ==
    /\ \A h \in Histories : h \in Seq(Row) /\ LedgerRows(h)
    /\ MaxAlterations \in Nat

VARIABLES
    history,        \* every row the ledger will hold
    committed,      \* how many of them are committed
    pc,             \* where each builder is
    rows,           \* what each builder's read_events returned
    state,          \* the projection each builder computed
    temporary,      \* each builder's temporary directory
    target,         \* the directory at the output path
    alterations

vars == <<history, committed, pc, rows, state, temporary, target, alterations>>

-----------------------------------------------------------------------------
(* Artifacts.  A directory is a function from file names to contents.      *)

PayloadOrder == <<"boundary_findings.jsonl", "ledger_events.jsonl", "policy.json",
                  "quality_findings.jsonl", "report.md", "run.json", "state.json">>

PayloadFiles == ToSet(PayloadOrder)
SealedFiles == PayloadFiles \union {"manifest.json"}
ExpectedFiles == SealedFiles \union {"checksums.sha256"}

(* _sha256: equal for equal bytes only.                                    *)
Digest(content) == <<"sha256", content>>

Digests(dir, names) == [name \in names |-> Digest(dir[name])]

(* run.json: what links the other artifacts to one another.                *)
RunDocument(b, read, projected, findings) ==
    [bundle_id             |-> b,
     event_count           |-> Len(read),
     quality_finding_count |-> Cardinality(findings),
     state_sha256          |-> Digest(projected)]

Manifest(b, dir) == [bundle_id |-> b, artifacts |-> Digests(dir, PayloadFiles)]
Checksums(dir) == Digests(dir, SealedFiles)

EmptyDirectory == [name \in {} |-> Garbled]

(* Nothing at a path: the listing of no directory, not even an empty one.  *)
Absent == [name \in {"no such directory"} |-> Garbled]

Put(dir, name, content) ==
    [n \in DOMAIN dir \union {name} |-> IF n = name THEN content ELSE dir[n]]

-----------------------------------------------------------------------------
(* verify_bundle.                                                          *)

(* Only entries that are regular files count (item.is_file()).             *)
FilesOf(dir) == DOMAIN dir \ {"subdirectory"}

Complete(dir) == FilesOf(dir) = ExpectedFiles

ChecksumsMatch(dir) == dir["checksums.sha256"] = Checksums(dir)

(* The manifest names a bundle and lists the artifacts that are there.     *)
ManifestMatches(dir) ==
    \E b \in Builders : dir["manifest.json"] = Manifest(b, dir)

Parsed(dir) ==
    \A name \in PayloadFiles \ {"report.md"} : dir[name] # Garbled

(* Ordinals increase and every finding refers to a row that is there.      *)
EvidenceLinked(dir) ==
    /\ Increasing(dir["ledger_events.jsonl"])
    /\ dir["quality_findings.jsonl"] \subseteq ToSet(dir["ledger_events.jsonl"])

StateLinkedByDigest(dir) ==     \* fault: only the digest in run.json is compared
    dir["run.json"].state_sha256 = Digest(dir["state.json"])

StateLinked(dir) ==
    /\ dir["run.json"].state_sha256 = Digest(dir["state.json"])
    /\ dir["state.json"].event_count = Len(dir["ledger_events.jsonl"])
    /\ dir["state.json"].last_ordinal = LastOrdinal(dir["ledger_events.jsonl"])

RunLinked(dir) ==
    LET run == dir["run.json"]
    IN  /\ run.bundle_id = dir["manifest.json"].bundle_id
        /\ run.event_count = Len(dir["ledger_events.jsonl"])
        /\ run.quality_finding_count = Cardinality(dir["quality_findings.jsonl"])

Valid(dir) ==
    /\ Complete(dir)
    /\ ChecksumsMatch(dir) /\ ManifestMatches(dir)
    /\ Parsed(dir)
    /\ EvidenceLinked(dir) /\ StateLinked(dir) /\ RunLinked(dir)

-----------------------------------------------------------------------------
(* build_bundle.                                                           *)

Rows == SubSeq(history, 1, committed)       \* what a read returns now

NoState == StateOf(<<>>)

Init ==
    /\ history \in Histories
    /\ committed \in 0 .. Len(history)
    /\ pc = [b \in Builders |-> "called"]
    /\ rows = [b \in Builders |-> <<>>]
    /\ state = [b \in Builders |-> NoState]
    /\ temporary = [b \in Builders |-> Absent]
    /\ target = Absent
    /\ alterations = 0

Goto(b, label) == pc' = [pc EXCEPT ![b] = label]

(* Somebody's ingest or ingest_many commits.                               *)
LedgerGrows ==
    /\ committed' \in committed + 1 .. Len(history)
    /\ UNCHANGED <<history, pc, rows, state, temporary, target, alterations>>

(* target.exists()                                                         *)
ExistsOrBegun ==        \* fault: another builder's temporary directory counts too
    target # Absent \/ \E b \in Builders : temporary[b] # Absent

Exists == target # Absent

CheckTarget(b) ==
    /\ pc[b] = "called"
    /\ Goto(b, IF Exists THEN "refused" ELSE "checked")
    /\ UNCHANGED <<history, committed, rows, state, temporary, target, alterations>>

(* rows = ledger.read_events()                                             *)
ReadRows(b) ==
    /\ pc[b] = "checked"
    /\ rows' = [rows EXCEPT ![b] = Rows]
    /\ Goto(b, "read")
    /\ UNCHANGED <<history, committed, state, temporary, target, alterations>>

(* projection = replay(ledger), which reads the ledger again.              *)
Replay(b) ==
    /\ pc[b] = "read"
    /\ state' = [state EXCEPT ![b] = StateOf(Rows)]
    /\ Goto(b, "projected")
    /\ UNCHANGED <<history, committed, rows, temporary, target, alterations>>

MakeTemporary(b) ==
    /\ pc[b] = "projected"
    /\ temporary' = [temporary EXCEPT ![b] = EmptyDirectory]
    /\ Goto(b, "writing")
    /\ UNCHANGED <<history, committed, rows, state, target, alterations>>

(* write_bytes of the next file.                                           *)
WriteOrder == PayloadOrder \o <<"manifest.json", "checksums.sha256">>

NextFile(b) == WriteOrder[Cardinality(DOMAIN temporary[b]) + 1]

(* The quality findings are left open: any of the rows that were read may  *)
(* give rise to one.  The boundary findings, the policy and the report are *)
(* the caller's, and differ from builder to builder.                       *)
ContentsOf(b, dir, name) ==
    CASE name = "ledger_events.jsonl" -> {rows[b]}
      [] name = "quality_findings.jsonl" -> SUBSET ToSet(rows[b])
      [] name = "run.json" ->
            {RunDocument(b, rows[b], state[b], dir["quality_findings.jsonl"])}
      [] name = "state.json" -> {state[b]}
      [] name = "manifest.json" -> {Manifest(b, dir)}
      [] name = "checksums.sha256" -> {Checksums(dir)}
      [] OTHER -> {b}

Write(b) ==
    /\ pc[b] = "writing" /\ DOMAIN temporary[b] # ExpectedFiles
    /\ \E content \in ContentsOf(b, temporary[b], NextFile(b)) :
        temporary' = [temporary EXCEPT ![b] = Put(@, NextFile(b), content)]
    /\ UNCHANGED <<history, committed, pc, rows, state, target, alterations>>

(* An OSError leaves the file missing or cut short; the finally runs.      *)
WriteFails(b) ==
    /\ pc[b] = "writing" /\ DOMAIN temporary[b] # ExpectedFiles
    /\ \/ UNCHANGED temporary
       \/ temporary' = [temporary EXCEPT ![b] = Put(@, NextFile(b), Garbled)]
    /\ Goto(b, "unwinding")
    /\ UNCHANGED <<history, committed, rows, state, target, alterations>>

(* os.rename: a directory that has files in it is not replaced.            *)
Free(dir) == dir = Absent

ReadyEarly(dir) == PayloadFiles \subseteq DOMAIN dir    \* fault: renamed before it is sealed

Ready(dir) == DOMAIN dir = ExpectedFiles

RenameOver(b) ==        \* fault: the target is removed before os.rename
    /\ pc[b] = "writing" /\ Ready(temporary[b])
    /\ target' = temporary[b]
    /\ temporary' = [temporary EXCEPT ![b] = Absent]
    /\ Goto(b, "returned")
    /\ UNCHANGED <<history, committed, rows, state, alterations>>

Rename(b) ==
    /\ pc[b] = "writing" /\ Ready(temporary[b])
    /\ Free(target)
    /\ target' = temporary[b]
    /\ temporary' = [temporary EXCEPT ![b] = Absent]
    /\ Goto(b, "returned")
    /\ UNCHANGED <<history, committed, rows, state, alterations>>

AfterOSErrorKept == "failed"                \* fault: no finally
AfterOSErrorHidden == "returned"            \* fault: the error is suppressed

AfterOSError == "unwinding"

RenameFails(b) ==
    /\ pc[b] = "writing" /\ Ready(temporary[b])
    /\ ~Free(target)
    /\ Goto(b, AfterOSError)
    /\ UNCHANGED <<history, committed, rows, state, temporary, target, alterations>>

(* finally: shutil.rmtree(temporary)                                       *)
AfterCleanUpAgain == "unwinding"            \* fault: the removal is run once more

AfterCleanUp == "failed"

CleanUp(b) ==
    /\ pc[b] = "unwinding"
    /\ temporary' = [temporary EXCEPT ![b] = Absent]
    /\ Goto(b, AfterCleanUp)
    /\ UNCHANGED <<history, committed, rows, state, target, alterations>>

Ended == {"refused", "returned", "failed", "crashed"}

(* The process dies: no finally runs.                                      *)
Crash(b) ==
    /\ pc[b] \notin Ended
    /\ Goto(b, "crashed")
    /\ UNCHANGED <<history, committed, rows, state, temporary, target, alterations>>

Build(b) ==
    \/ CheckTarget(b) \/ ReadRows(b) \/ Replay(b) \/ MakeTemporary(b)
    \/ Write(b) \/ Rename(b) \/ RenameFails(b) \/ CleanUp(b)

(* A published file changes, is lost or is added, without the digests      *)
(* being made to agree again.                                              *)
Alter ==
    /\ target # Absent /\ alterations < MaxAlterations
    /\ alterations' = alterations + 1
    /\ \/ \E name \in DOMAIN target :
            \/ target' = [target EXCEPT ![name] = Garbled]
            \/ target' = [n \in DOMAIN target \ {name} |-> target[n]]
       \/ \E name \in {"unexpected", "subdirectory"} :
            target' = Put(target, name, Garbled)
    /\ UNCHANGED <<history, committed, pc, rows, state, temporary>>

Next ==
    \/ LedgerGrows
    \/ \E b \in Builders : Build(b) \/ WriteFails(b) \/ Crash(b)
    \/ Alter

Spec == Init /\ [][Next]_vars

-----------------------------------------------------------------------------
(* Properties.                                                             *)

Directory(dir) ==
    /\ DOMAIN dir \subseteq ExpectedFiles \union {"unexpected", "subdirectory"}
    /\ \A name \in DOMAIN dir \intersect {"ledger_events.jsonl"} :
        dir[name] = Garbled \/ dir[name] \in Seq(Row)

TypeOK ==
    /\ history \in Histories
    /\ committed \in 0 .. Len(history)
    /\ pc \in [Builders -> {"called", "checked", "read", "projected", "writing",
                            "unwinding"} \union Ended]
    /\ \A b \in Builders :
        /\ rows[b] \in Seq(Row) /\ state[b].event_count \in Nat
        /\ temporary[b] # Absent => Directory(temporary[b])
        /\ pc[b] \in {"writing", "unwinding"} => temporary[b] # Absent
    /\ target # Absent => Directory(target)
    /\ alterations \in 0 .. MaxAlterations

(* Whoever looks at the target finds nothing or a whole, sealed bundle,    *)
(* whatever the builders were doing and wherever they died                 *)
(* (bundle.py:255-282).                                                    *)
PublishedIsSealed ==
    target # Absent /\ alterations = 0 =>
        Complete(target) /\ ChecksumsMatch(target) /\ ManifestMatches(target)

(* No builder replaces or touches a published bundle, although the target  *)
(* is checked long before it is written (bundle.py:198, 279).              *)
WriteOnce ==
    [][target # Absent => target' = target \/ alterations' # alterations]_vars

(* A builder that returns a result has published: what is at the target is *)
(* its bundle, so of several builders at most one reports success.         *)
ResultIsPublished ==
    \A b \in Builders :
        pc[b] = "returned" /\ alterations = 0 =>
            target # Absent /\ target["run.json"].bundle_id = b

(* In a bundle that verifies every artifact is as one builder that         *)
(* returned wrote it, and the state is the projection of exactly the rows  *)
(* beside it, rows the ledger held: nothing altered, and nothing torn by a *)
(* commit between the two reads, gets past verify_bundle.                  *)
ValidIsGenuine ==
    target # Absent /\ Valid(target) =>
        /\ \E b \in Builders :
            /\ pc[b] = "returned"
            /\ \A name \in ExpectedFiles :
                target[name] \in ContentsOf(b, target, name)
        /\ target["state.json"] = StateOf(target["ledger_events.jsonl"])
        /\ IsPrefix(target["ledger_events.jsonl"], history)

(* Only a crash leaves a temporary directory behind.                       *)
LeftoverOnlyByCrash ==
    \A b \in Builders :
        pc[b] \in Ended \ {"crashed"} => temporary[b] = Absent

(* Builders do not give way to one another: when all have ended and        *)
(* nothing is published, each of them was killed or met an OSError of its  *)
(* own; what another one left behind makes nobody stop (bundle.py:198).    *)
NobodyGivesWay ==
    (\A b \in Builders : pc[b] \in Ended) /\ target = Absent =>
        \A b \in Builders : pc[b] \in {"failed", "crashed"}

(* tests/test_bundle.py:67: a new bundle passes independent verification.  *)
NewBundleVerifies ==
    target # Absent /\ alterations = 0 => Valid(target)
=============================================================================
