------------------------------ MODULE Campaign ------------------------------
(***************************************************************************)
(* run_campaign: the records of a scenario are inspected at the boundary,  *)
(* ingested one by one into a fresh ledger, and the ledger's rows are      *)
(* evaluated.  The evaluation is the machine of Quality.  A demonstration  *)
(* bundle (build_campaign_bundle) runs the campaign and seals a ledger it  *)
(* fills for itself.                                                       *)
(***************************************************************************)
EXTENDS Quality, Stream, Simulator

CampaignCount == 8

ASSUME CampaignAssumption ==
    /\ Invalid \notin Event
    /\ \A n \in 1 .. CampaignCount : Baseline(CampaignCount)[n] \in Event

VARIABLES
    scenario,       \* CampaignScenario
    records,        \* campaign_records(scenario, seed)
    phase,          \* "idle", "inspect", "ingest", "evaluate", "sealed"
    position,       \* how many records have been offered to the ledger
    log,            \* the events of the ledger, in ordinal order
    boundary,       \* the findings of inspect_stream
    counts,         \* accepted, duplicates and invalid
    sealed          \* what build_bundle is given

campaignVars ==
    <<scenario, records, phase, position, log, boundary, counts, sealed>>

CampaignScenarios == {"baseline", "delayed", "duplicate", "reordered",
                      "malformed", "missing", "stale", "frozen"}

CampaignRecords(sc) ==
    LET plain == GenerateRecords(CampaignCount, "baseline")
        p == Pivot(CampaignCount)
    IN  CASE sc = "missing" -> RemoveAt(plain, p)
          [] sc = "frozen"  ->
                [i \in DOMAIN plain |->
                    IF i \in p - 1 .. p + 1
                    THEN [plain[i] EXCEPT !.payload = plain[p - 1].payload]
                    ELSE plain[i]]
          [] sc = "stale"   -> plain
          [] OTHER          -> GenerateRecords(CampaignCount, sc)

NotSealed == [events |-> <<>>, as_of |-> 0, boundary |-> {}]

NoCounts == [accepted |-> 0, duplicate |-> 0, invalid |-> 0]

CampaignIdle ==
    /\ scenario = "baseline" /\ records = <<>> /\ phase = "idle"
    /\ position = 0 /\ log = <<>> /\ boundary = {} /\ counts = NoCounts
    /\ sealed = NotSealed

CampaignInit ==
    /\ scenario \in CampaignScenarios
    /\ records = CampaignRecords(scenario)
    /\ phase = "inspect"
    /\ position = 0 /\ log = <<>> /\ boundary = {} /\ counts = NoCounts
    /\ sealed = NotSealed

Inspect ==
    /\ phase = "inspect"
    /\ boundary' = InspectStream(records, DelayThreshold)
    /\ phase' = "ingest"
    /\ UNCHANGED <<scenario, records, position, log, counts, sealed, qualityVars>>

Counted(c, key) == [c EXCEPT ![key] = @ + 1]

(* One record: refused by the contract, or ingested.                       *)
IngestRecord ==
    /\ phase = "ingest" /\ position < Len(records)
    /\ LET record == records[position + 1]
       IN  IF record = Invalid
           THEN counts' = Counted(counts, "invalid") /\ log' = log
           ELSE /\ Compatible(log, <<record>>)
                /\ counts' = Counted(counts, IF IsFresh(log, <<record>>, 1)
                                             THEN "accepted" ELSE "duplicate")
                /\ log' = log \o Fresh(log, <<record>>)
    /\ position' = position + 1
    /\ UNCHANGED <<scenario, records, phase, boundary, sealed, qualityVars>>

(* ledger.read_events() of a ledger that only this campaign writes         *)
RowsOfLog == [n \in DOMAIN log |-> [ordinal |-> n, event |-> log[n]]]

LatestObserved(l) ==
    IF l = <<>> THEN 0 ELSE Max({e.observed_at : e \in ToSet(l)})

ExtraAge == IF scenario = "stale" THEN 120 ELSE 1

StartEvaluation ==
    /\ phase = "ingest" /\ position = Len(records)
    /\ Evaluate(RowsOfLog, LatestObserved(log) + ExtraAge)
    /\ phase' = "evaluate"
    /\ UNCHANGED <<scenario, records, position, log, boundary, counts, sealed>>

SealedLog ==
    FoldLeft(LAMBDA l, record :
                 IF record = Invalid THEN l ELSE l \o Fresh(l, <<record>>),
             <<>>, records)

SealBundle ==
    /\ phase = "evaluate" /\ Evaluated
    /\ sealed' = [events   |-> SealedLog,
                  as_of    |-> LatestObserved(SealedLog) + ExtraAge,
                  boundary |-> boundary]
    /\ phase' = "sealed"
    /\ UNCHANGED <<scenario, records, position, log, boundary, counts, qualityVars>>

CampaignNext ==
    \/ Inspect \/ IngestRecord \/ StartEvaluation \/ SealBundle
    \/ QualityNext /\ UNCHANGED campaignVars

(* A campaign, or the evaluation of any ledger that a bundle builder asks  *)
(* for.                                                                    *)
CampaignSpec ==
    /\ \/ CampaignInit /\ QualityIdle
       \/ CampaignIdle /\ QualityInit
    /\ [][CampaignNext]_<<campaignVars, qualityVars>>

-----------------------------------------------------------------------------
(* Properties.                                                             *)

CampaignDone == phase \in {"evaluate", "sealed"} /\ Evaluated

BoundaryOf(code) == {f \in boundary : f.code = code}

(* sorted({item["code"] ...} | {item.code ...})                            *)
DetectedCodes == {f.code : f \in boundary} \union {f.code : f \in findings}

(* tests/test_campaign.py:9: what each fault must be detected as.  The     *)
(* malformed record leaves its position without evidence, and nothing else *)
(* is reported of any of them.                                             *)
ExpectedCodes ==
    [baseline  |-> {},
     delayed   |-> {"delayed_arrival"},
     duplicate |-> {"duplicate_event_id"},
     reordered |-> {"source_sequence_regression"},
     malformed |-> {"invalid_event", "source_sequence_gap"},
     missing   |-> {"source_sequence_gap"},
     stale     |-> {"stale_source"},
     frozen    |-> {"repeated_payload_run"}]

(* A campaign ends with every record counted once, and detects the fault   *)
(* of its scenario and no other; the bundle sealed for it holds the rows   *)
(* and the boundary findings that were evaluated, as of the same time      *)
(* (campaign.py:98-149, bundle.py:304-330).                                *)
FaultDetected ==
    CampaignDone =>
        /\ position = Len(records)
        /\ counts.accepted + counts.duplicate + counts.invalid = Len(records)
        /\ DetectedCodes = ExpectedCodes[scenario]
        /\ phase = "sealed" =>
            sealed = [events |-> log, as_of |-> as_of, boundary |-> boundary]

(* The boundary and the ledger classify the same stream in the same way,   *)
(* though each keeps its own state: what the boundary calls a duplicate or *)
(* invalid the ledger counts so, and on any stream the ledger accepts both *)
(* report the same regressions and delays (stream.py:31-53,                *)
(* quality.py:133-164).                                                    *)
ClassifiersAgree ==
    Evaluated =>
        LET found == InspectStream(EventsOf(stored), DelayThreshold)
            late(code) == {f.event : f \in {f \in found : f.code = code}}
            judgedAs(code) == {Last(f.support).event : f \in OfCode(code)}
        IN  /\ \A code \in {"delayed_arrival", "source_sequence_regression"} :
                  late(code) = judgedAs(code)
            /\ {f.code : f \in found} \subseteq
                  {"delayed_arrival", "source_sequence_regression"}
            /\ CampaignDone =>
                  /\ Cardinality(BoundaryOf("duplicate_event_id")) = counts.duplicate
                  /\ Cardinality(BoundaryOf("invalid_event")) = counts.invalid
=============================================================================
