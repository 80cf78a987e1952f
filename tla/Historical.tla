----------------------------- MODULE Historical -----------------------------
(***************************************************************************)
(* The historical import: a JSONL file is qualified line by line, replayed *)
(* twice into fresh ledgers, and its events and report are written to two  *)
(* new files.  An HMAC pseudonym stands for the value it was made from.    *)
(***************************************************************************)
EXTENDS ProjectedState

CONSTANTS
    InputFiles,     \* sequences of Line
    ImportedAt,     \* config.imported_at
    NoId,           \* event_id missing, empty or not a string
    MaxImports      \* bound on the runs of the command

(* What a line is to the importer: "blank_line", "invalid_json",           *)
(* "non_object", "undecodable" (bytes or an identity UTF-8 cannot encode), *)
(* or an object, whose first flaw is named: "unsupported_record_shape",    *)
(* "invalid_source_stream", "unmappable" (a field, the record's digest or  *)
(* its event type), or "none".  A flawless one may still be refused by the *)
(* contract of the canonical event.                                        *)
Line == [flaw : STRING, event_id : EventIds \union {NoId}, stream : Sources,
         observed_at : Nat, payload : Payloads]

ASSUME ImportAssumption ==
    /\ InputFiles \subseteq Seq(Line)
    /\ ImportedAt \in Nat

VARIABLES
    lines,          \* the input file
    read,           \* how many lines the loop has consumed
    sequences, seen_event_ids, rejections, events,
    step,           \* "idle", "loop", "replay", "events", "report", "printed", "raised"
    outputs,        \* the two output files
    imports,        \* bound: runs so far
    occupied        \* an output existed before this command ran (history)

importVars == <<lines, read, sequences, seen_event_ids, rejections, events, step,
                outputs, imports, occupied>>

NoOutput == [exists |-> FALSE, whole |-> FALSE, content |-> <<>>]
Empty == [s \in {} |-> 0]

NothingRead ==
    /\ read = 0 /\ sequences = Empty /\ seen_event_ids = {}
    /\ rejections = 0 /\ events = <<>>
    /\ outputs = [f \in {"events", "report"} |-> NoOutput]
    /\ occupied = FALSE

ImportIdle == lines = <<>> /\ NothingRead /\ step = "idle" /\ imports = 0

ImportInit == lines \in InputFiles /\ NothingRead /\ step = "loop" /\ imports = 1

(* _map_record, for a record whose shape and stream are known.             *)
Mapped(line, sequence) ==
    [event_id        |-> line.event_id,
     source_id       |-> line.stream,
     source_sequence |-> sequence,
     observed_at     |-> line.observed_at,
     ingested_at     |-> ImportedAt,
     payload         |-> line.payload]

(* sequences[source_stream] of the defaultdict: reading makes an entry.    *)
Sequence(stream) == IF stream \in DOMAIN sequences THEN sequences[stream] ELSE 0
SetSequence(stream, n) ==
    [s \in DOMAIN sequences \union {stream} |-> IF s = stream THEN n ELSE sequences[s]]

RejectedEarly(line) ==      \* before the stream's sequence is read
    \/ line.flaw \in {"blank_line", "invalid_json", "non_object",
                      "unsupported_record_shape", "invalid_source_stream"}
    \/ line.event_id = NoId
    \/ line.event_id \in seen_event_ids

Mappable(line) == line.flaw # "unmappable" /\ Ordered(Mapped(line, 0))

Reject ==
    /\ step = "loop" /\ read < Len(lines)
    /\ lines[read + 1].flaw # "undecodable" /\ RejectedEarly(lines[read + 1])
    /\ rejections' = rejections + 1
    /\ read' = read + 1
    /\ UNCHANGED <<lines, sequences, seen_event_ids, events, step, outputs,
                   imports, occupied>>

SequenceAfterMapping(stream, accepted) ==   \* fault: counted before it is mapped
    Sequence(stream) + 1

SequenceAfter(stream, accepted) == Sequence(stream) + (IF accepted THEN 1 ELSE 0)

Map ==
    /\ step = "loop" /\ read < Len(lines)
    /\ LET line == lines[read + 1]
           accepted == Mappable(line)
       IN  /\ line.flaw # "undecodable" /\ ~RejectedEarly(line)
           /\ sequences' = SetSequence(line.stream, SequenceAfter(line.stream, accepted))
           /\ IF accepted
              THEN /\ seen_event_ids' = seen_event_ids \union {line.event_id}
                   /\ events' = Append(events, Mapped(line, Sequence(line.stream)))
                   /\ UNCHANGED rejections
              ELSE /\ rejections' = rejections + 1
                   /\ UNCHANGED <<seen_event_ids, events>>
    /\ read' = read + 1
    /\ UNCHANGED <<lines, step, outputs, imports, occupied>>

(* UnicodeError is neither a JSONDecodeError nor a HistoricalImportError:  *)
(* one such line ends the import.                                          *)
Undecodable ==
    /\ step = "loop" /\ read < Len(lines)
    /\ lines[read + 1].flaw = "undecodable"
    /\ step' = "raised"
    /\ UNCHANGED <<lines, read, sequences, seen_event_ids, rejections, events,
                   outputs, imports, occupied>>

EndLoop ==
    /\ step = "loop" /\ read = Len(lines)
    /\ step' = "replay"
    /\ UNCHANGED <<lines, read, sequences, seen_event_ids, rejections, events,
                   outputs, imports, occupied>>

(* _replay_digest, twice: ingest_many of all events into an empty ledger,  *)
(* which raises what conflicts, and the replay of its rows.                *)
ReplayState ==
    StateOf([n \in DOMAIN events |-> [ordinal |-> n, event |-> events[n]]])

Replay ==
    /\ step = "replay"
    /\ step' = IF Compatible(<<>>, events) THEN "events" ELSE "raised"
    /\ UNCHANGED <<lines, read, sequences, seen_event_ids, rejections, events,
                   outputs, imports, occupied>>

Report ==
    [event_count     |-> Len(events),
     rejection_count |-> rejections,
     source_count    |-> Cardinality(DOMAIN sequences),
     canonical_events_sha256 |-> events,
     state_sha256    |-> ReplayState]

(* The file main writes in this step, and what it writes into it.          *)
FirstOutputReport(s) == IF s = "events" THEN "report" ELSE "events" \* fault: swapped

OutputOf(s) == s

Content(f) == IF f = "events" THEN events ELSE Report

StepAfter(s) == IF s = "events" THEN "report" ELSE "printed"

(* open("xb") refuses an existing file.                                    *)
Available(f) == ~outputs[f].exists

WriteNew(whole) ==
    /\ step \in {"events", "report"}
    /\ LET f == OutputOf(step)
       IN  /\ Available(f)
           /\ outputs' = [outputs EXCEPT ![f] =
                [exists |-> TRUE, whole |-> whole,
                 content |-> IF whole THEN Content(f) ELSE <<>>]]
    /\ step' = IF whole THEN StepAfter(step) ELSE "raised"
    /\ UNCHANGED <<lines, read, sequences, seen_event_ids, rejections, events,
                   imports, occupied>>

(* The write fails or the process dies after the file was created.         *)
WriteTears == WriteNew(FALSE)

OutputExists ==
    /\ step \in {"events", "report"}
    /\ ~Available(OutputOf(step))
    /\ step' = "raised"
    /\ UNCHANGED <<lines, read, sequences, seen_event_ids, rejections, events,
                   outputs, imports, occupied>>

Dies ==
    /\ step \in {"events", "report"}
    /\ step' = "raised"
    /\ UNCHANGED <<lines, read, sequences, seen_event_ids, rejections, events,
                   outputs, imports, occupied>>

(* The operator runs the command again, on this file or another, with the  *)
(* same output paths, after removing any of the outputs or none.           *)
RunAgain ==
    /\ step \in {"printed", "raised"} /\ imports < MaxImports
    /\ \E kept \in SUBSET DOMAIN outputs :
        /\ outputs' = [f \in DOMAIN outputs |->
                           IF f \in kept THEN outputs[f] ELSE NoOutput]
        /\ occupied' = \E f \in kept : outputs[f].exists
    /\ lines' \in InputFiles
    /\ read' = 0 /\ sequences' = Empty /\ seen_event_ids' = {}
    /\ rejections' = 0 /\ events' = <<>>
    /\ step' = "loop" /\ imports' = imports + 1

ImportNext ==
    \/ Reject \/ Map \/ Undecodable \/ EndLoop \/ Replay
    \/ WriteNew(TRUE) \/ WriteTears \/ OutputExists \/ Dies \/ RunAgain

ImportSpec == ImportInit /\ [][ImportNext]_importVars

-----------------------------------------------------------------------------
(* Properties.                                                             *)

EventsOfStream(s) == {i \in DOMAIN events : events[i].source_id = s}

(* What has been qualified can be ingested, at every line: no identity and *)
(* no position twice, and the sequences of a stream count its accepted     *)
(* lines from 0 in input order, whatever was rejected in between           *)
(* (historical.py:180-218, docs/adr/0009).                                 *)
QualifiedIngestible ==
    /\ Compatible(<<>>, events)
    /\ \A i, j \in DOMAIN events : events[i].event_id = events[j].event_id => i = j
    /\ \A s \in Sources : \A i \in EventsOfStream(s) :
        events[i].source_sequence = Cardinality({j \in EventsOfStream(s) : j < i})
    /\ read = Len(events) + rejections

(* A command that ends well met neither output and has written both, and   *)
(* where it met neither, a whole report stands beside the events it        *)
(* describes; a failure between the two leaves events without a report     *)
(* (historical.py:264-306).  Nothing is claimed of the files once a        *)
(* command has met an output it did not write: if only the events file of  *)
(* an earlier import was removed, the new events end beside the old report *)
(* before the command raises.                                              *)
ReportDescribesEvents ==
    /\ step = "printed" => ~occupied /\ outputs["report"].whole
    /\ outputs["report"].whole /\ ~occupied =>
        /\ outputs["events"].whole
        /\ outputs["report"].content.canonical_events_sha256 =
               outputs["events"].content
=============================================================================
