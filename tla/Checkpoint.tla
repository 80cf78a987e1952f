----------------------------- MODULE Checkpoint -----------------------------
(***************************************************************************)
(* write_checkpoint and load_checkpoint around a running projection.       *)
(* Writers checkpoint what the loop has computed so far: the replay of a   *)
(* ledger that holds those rows.  They share one path, and die, fail or    *)
(* lose power at any step.  A digest is the state it was computed from.    *)
(***************************************************************************)
EXTENDS Projection

CONSTANTS
    Writers,
    MaxWrites       \* bound on the calls of write_checkpoint

VARIABLES
    target,         \* the file at the path: what readers see
    durable,        \* the file a power loss may bring back
    temporary,      \* the temporary file of each writer
    wpc,            \* "idle", "write", "sync", "replace", "clean"
    writes          \* calls so far

checkpointVars == <<target, durable, temporary, wpc, writes>>

(* What no checkpoint and no state is: records of another shape.           *)
Other(what) == [other |-> what]

NoFile == Other("nothing is there")
Torn == Other("not JSON: empty, partly written, garbled")
Reshaped == Other("JSON with other fields than a checkpoint's")
NotObject == Other("a state that is not a mapping")
NoDigest == Other("64 characters that are the digest of no state in play")

(* A file remembers the state its writer was given, and whether it was     *)
(* damaged since.                                                          *)
Nothing == [doc |-> NoFile, synced |-> TRUE, given |-> EmptyState, damaged |-> FALSE]
EmptyFile(st) == [doc |-> Torn, synced |-> FALSE, given |-> st, damaged |-> FALSE]

CheckpointInit ==
    /\ Init
    /\ target = Nothing /\ durable = Nothing
    /\ temporary = [w \in Writers |-> Nothing]
    /\ wpc = [w \in Writers |-> "idle"]
    /\ writes = 0

(* result.state carries the projector's version.                           *)
Stamped(st) == [projector_version |-> "1.0", body |-> st]

CheckpointMapping(st) ==
    [checkpoint_version |-> "1.0", projector_version |-> "1.0",
     last_ordinal |-> st.last_ordinal, state |-> Stamped(st),
     state_sha256 |-> Stamped(st)]

Fields == DOMAIN CheckpointMapping(EmptyState)

DigestUnchecked(doc) == TRUE        \* fault: the digest is not recomputed

DigestMatches(doc) == doc.state_sha256 = doc.state

(* load_checkpoint: the code of the CheckpointError, or "none".            *)
LoadError(doc) ==
    CASE doc \in {NoFile, Torn}          -> "unreadable_checkpoint"
      [] doc = Reshaped                  -> "invalid_checkpoint_structure"
      [] OTHER ->
    CASE doc.checkpoint_version # "1.0"  -> "unsupported_checkpoint_version"
      [] doc.checkpoint_version = "1.0" /\ doc.projector_version # "1.0" ->
            "unsupported_projector_version"
      [] OTHER ->
    CASE doc.state = NotObject           -> "invalid_state"
      [] doc.state # NotObject /\ doc.state.projector_version # "1.0" ->
            "projector_version_mismatch"
      [] OTHER ->
    CASE doc.state.body.last_ordinal # doc.last_ordinal -> "ordinal_mismatch"
      [] doc.state.body.last_ordinal = doc.last_ordinal /\ ~DigestMatches(doc) ->
            "state_digest_mismatch"
      [] OTHER -> "none"

Goto(w, pc) == wpc' = [wpc EXCEPT ![w] = pc]

(* replay reads the rows of a ledger; mkstemp makes an empty file.         *)
BeginWrite(w) ==
    /\ wpc[w] = "idle" /\ LedgerRows(rows) /\ writes < MaxWrites
    /\ writes' = writes + 1
    /\ temporary' = [temporary EXCEPT ![w] = EmptyFile(state)]
    /\ Goto(w, "write")
    /\ UNCHANGED <<target, durable>>

WriteContent(w) ==
    /\ wpc[w] = "write"
    /\ temporary' = [temporary EXCEPT ![w].doc = CheckpointMapping(temporary[w].given)]
    /\ Goto(w, "sync")
    /\ UNCHANGED <<target, durable, writes>>

SyncForgotten(w) ==     \* fault: os.fsync is left out
    /\ wpc[w] = "sync"
    /\ Goto(w, "replace")
    /\ UNCHANGED <<target, durable, temporary, writes>>

Sync(w) ==
    /\ wpc[w] = "sync"
    /\ temporary' = [temporary EXCEPT ![w].synced = TRUE]
    /\ Goto(w, "replace")
    /\ UNCHANGED <<target, durable, writes>>

(* os.replace: readers see the new file at once.  The old entry may have   *)
(* reached the disk by now, or not.                                        *)
Replace(w) ==
    /\ wpc[w] = "replace"
    /\ target' = temporary[w]
    /\ durable' \in {durable, target}
    /\ temporary' = [temporary EXCEPT ![w] = Nothing]
    /\ Goto(w, "clean")
    /\ UNCHANGED writes

Fails(w) ==             \* OSError from writing, fsync or os.replace
    /\ wpc[w] \in {"write", "sync", "replace"}
    /\ Goto(w, "clean")
    /\ UNCHANGED <<target, durable, temporary, writes>>

CleanUp(w) ==
    /\ wpc[w] = "clean"
    /\ temporary' = [temporary EXCEPT ![w] = Nothing]
    /\ Goto(w, "idle")
    /\ UNCHANGED <<target, durable, writes>>

(* The process dies: its temporary file stays behind under a name nobody   *)
(* uses again.                                                             *)
Dies(w) ==
    /\ wpc[w] # "idle"
    /\ temporary' = [temporary EXCEPT ![w] = Nothing]
    /\ Goto(w, "idle")
    /\ UNCHANGED <<target, durable, writes>>

(* The power fails: the path names the present file or the durable one,    *)
(* and what was not synchronized is garbled.                               *)
PowerLoss ==
    /\ \E file \in {target, durable} :
        target' = IF file.synced THEN file ELSE [file EXCEPT !.doc = Torn]
    /\ durable' = target'
    /\ temporary' = [w \in Writers |-> Nothing]
    /\ wpc' = [w \in Writers |-> "idle"]
    /\ UNCHANGED writes

(* What an accident or another version of the program may put in a field.  *)
(* No accident produces the digest of another state.                       *)
Alterations(field, doc) ==
    CASE field \in {"checkpoint_version", "projector_version"} -> {"0.9"}
      [] field = "last_ordinal" -> {0}
      [] field = "state"        ->
            {NotObject, Stamped(EmptyState),
             [doc.state EXCEPT !.projector_version = "0.9"],
             [doc.state EXCEPT !.body.event_count = @ + 1]}
      [] field = "state_sha256" -> {NoDigest}

Damage(doc) ==
    /\ target' = [target EXCEPT !.doc = doc, !.damaged = TRUE]
    /\ UNCHANGED <<durable, temporary, wpc, writes>>

Alter ==
    /\ target.doc \notin {NoFile, Torn, Reshaped} /\ ~target.damaged
    /\ \/ Damage(Torn)
       \/ Damage(Reshaped)
       \/ \E field \in Fields : \E value \in Alterations(field, target.doc) :
            Damage([target.doc EXCEPT ![field] = value])

WriterNext(w) ==
    \/ BeginWrite(w) \/ WriteContent(w) \/ Sync(w) \/ Replace(w)
    \/ Fails(w) \/ CleanUp(w) \/ Dies(w)

CheckpointNext ==
    \/ Next /\ UNCHANGED checkpointVars
    \/ ((\E w \in Writers : WriterNext(w)) \/ PowerLoss \/ Alter) /\ UNCHANGED vars

CheckpointSpec ==
    CheckpointInit /\ [][CheckpointNext]_<<vars, checkpointVars>>

-----------------------------------------------------------------------------
(* Properties.                                                             *)

(* A checkpoint that loads gives the state its writer was given, and that  *)
(* is the state of some first rows of the ledger: no damage to a field, no *)
(* other version's file and no mixture of two writers is taken for a state *)
(* (checkpoint.py:71-94, docs/projector-contract-v1.md).                   *)
LoadedWasProjected ==
    LoadError(target.doc) = "none" =>
        /\ target.doc.state.body = target.given
        /\ \E n \in 0 .. Len(rows) : target.given = StateOf(SubSeq(rows, 1, n))

(* A checkpoint nobody damaged loads: at no moment, and after no crash or  *)
(* power loss, is the path left with a file that is refused                *)
(* (checkpoint.py:58-68).                                                  *)
CheckpointReadable ==
    ~target.damaged /\ target.doc # NoFile => LoadError(target.doc) = "none"
=============================================================================
