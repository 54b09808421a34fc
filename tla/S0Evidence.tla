------------------------------ MODULE S0Evidence ------------------------------
(***************************************************************************)
(* From the collected files of an S0 run to its fusion result: the files   *)
(* are bound to the manifest, Sysmon records become events, events become  *)
(* Evidence, and the Evidence of the fixed replay window is replayed.      *)
(*                                                                         *)
(* A raw record is [eventId, recordId, time, host, image, command, dest]:  *)
(* image is the class of the executable's name, command what the option    *)
(* scan of the command line meets first, dest the class of the destination *)
(* address.  The metadata of a run is [run, target, start, end].           *)
(***************************************************************************)
EXTENDS HybridDecision

CONSTANT ReplayDuration      \* S0_REPLAY_DURATION

ASSUME ReplayDurationAssumption == ReplayDuration \in Nat \ {0}

-----------------------------------------------------------------------------
\* load_s0_pipeline_artifacts: the one JSONL item of the manifest, its parent
\* and its digest (the content, here).
ManifestItems(manifest, name) ==
    {i \in DOMAIN manifest.items : manifest.items[i].name = name}

RawSysmon(item) == item.layer = "raw_telemetry" /\ item.source = "sysmon"

ManifestItemValid(manifest, jsonl) ==
    LET mine == ManifestItems(manifest, "jsonl")
        item == manifest.items[CHOOSE i \in mine : TRUE]
        parents == {i \in ManifestItems(manifest, "evtx") :
                      manifest.items[i].path = item.derived}
    IN  /\ Cardinality(mine) = 1
        /\ RawSysmon(item)
        /\ item.raw # None
        /\ Cardinality(parents) = 1
        /\ \A i \in parents : RawSysmon(manifest.items[i])
        /\ item.sha = jsonl

ArtifactsValid(meta, manifest, jsonl) ==
    /\ manifest.run = meta.run
    /\ ManifestItemValid(manifest, jsonl)
    /\ jsonl # <<>>

-----------------------------------------------------------------------------
\* normalize_sysmon_and_extract_evidence: Event IDs 1 and 3 only; the id of an
\* event is a digest of run, file and record, and its time loses what is below
\* the millisecond.
EventTypeOf(eventId) == IF eventId = 1 THEN "process_create" ELSE "network_connection"

RecordValid(rec) == rec.eventId \in {1, 3} /\ rec.host # None

NormalizeRecord(run, raw, jsonl, n) ==
    [id |-> <<run, raw, n, jsonl[n].recordId>>, run |-> run,
     timestamp |-> MsTrunc(jsonl[n].time), host |-> jsonl[n].host,
     type |-> EventTypeOf(jsonl[n].eventId), image |-> jsonl[n].image,
     command |-> jsonl[n].command, dest |-> jsonl[n].dest]

RawLogId(manifest) ==
    manifest.items[CHOOSE i \in ManifestItems(manifest, "jsonl") : TRUE].raw

NormalizedEvents(meta, manifest, jsonl) ==
    [n \in 1..Len(jsonl) |-> NormalizeRecord(meta.run, RawLogId(manifest), jsonl, n)]

-----------------------------------------------------------------------------
\* extract_evidence: one rule per event type.
EncodedPowershell(e) ==
    e.type = "process_create" /\ e.image = "powershell" /\ e.command = "encoded"

\* A script host counts, an address that is not global does not.
ExternalConnection(e) ==
    /\ e.type = "network_connection"
    /\ e.image \in {"powershell", "script_host"}
    /\ e.dest = "global"

EvidenceType(e) ==
    IF EncodedPowershell(e) THEN "encoded_powershell_command"
    ELSE "script_interpreter_external_connection"

IsEvidence(e) == EncodedPowershell(e) \/ ExternalConnection(e)

Extracted(e) ==
    [id |-> <<e.id, EvidenceType(e)>>, run |-> e.run, entity |-> e.host,
     timestamp |-> e.timestamp, type |-> EvidenceType(e),
     group |-> "fusion_feature", event |-> e.id]

-----------------------------------------------------------------------------
\* s0_replay_window: the window is fixed from the start of the run; the end only
\* says whether it was observed.
ReplayEnd(meta) == meta.start + ReplayDuration

Covered(meta) == meta.end >= ReplayEnd(meta)

InReplayWindow(meta, e) == e.timestamp \in meta.start..ReplayEnd(meta)

EventBefore(a, b) ==
    a.timestamp < b.timestamp \/ (a.timestamp = b.timestamp /\ a.id[3] < b.id[3])

\* A filter that keeps the margin events after the window.
ReplayEventsUnbounded(meta, events) ==
    {e \in ToSet(events) : e.timestamp >= meta.start}

\* Margin events are left out.
ReplayEvents(meta, events) == {e \in ToSet(events) : InReplayWindow(meta, e)}

\* The rest is put in order of time and id; an event that shows nothing gives no
\* Evidence.
S0Evidences(meta, events) ==
    LET shown == InOrder({e \in ReplayEvents(meta, events) : IsEvidence(e)}, EventBefore)
    IN  [n \in DOMAIN shown |-> Extracted(shown[n])]

\* run_s0_runtime_fusion, and what makes it raise.
FusionAccepts(meta, events, c, entity) ==
    /\ ConfigValid(c)
    /\ ReplayDuration % c.step = 0
    /\ meta.end >= meta.start
    /\ \A n \in DOMAIN events : events[n].run = meta.run /\ events[n].host = entity
    /\ Covered(meta) =>
          RunAccepts(c, S0Evidences(meta, events), meta.start, meta.end, ReplayEnd(meta))

\* A window that was not observed is not a miss.
S0Fusion(meta, events, c, entity) ==
    LET replay == Replay(c, S0Evidences(meta, events), meta.start, meta.end, ReplayEnd(meta))
    IN  IF Covered(meta)
          THEN [valid  |-> replay.valid,
                fusion |-> NamedResult(FusionResult(replay), meta.run, entity, c),
                trace  |-> NamedTrace(replay.stopping.trace, meta.run, entity, c)]
          ELSE [valid  |-> TRUE,
                fusion |-> NamedResult(NotEvaluatedFusion, meta.run, entity, c),
                trace  |-> NamedTrace(<<>>, meta.run, entity, c)]

-----------------------------------------------------------------------------
\* What S0 fusion is meant to find, from the raw records: the records that show
\* one of the two behaviours inside the window.
ReferenceEvidence(meta, jsonl) ==
    LET shows(rec) == \/ rec.eventId = 1 /\ rec.image = "powershell" /\ rec.command = "encoded"
                      \/ rec.eventId = 3 /\ rec.image # "other" /\ rec.dest = "global"
        inside(rec) == MsTrunc(rec.time) \in meta.start..(meta.start + ReplayDuration)
    IN  [n \in 1..Len(jsonl) |->
            [timestamp |-> MsTrunc(jsonl[n].time), group |-> IF shows(jsonl[n]) /\ inside(jsonl[n])
                                                    THEN "fusion_feature" ELSE "none",
             type |-> IF jsonl[n].eventId = 1 THEN "encoded_powershell_command"
                      ELSE "script_interpreter_external_connection", id |-> n]]

ReferenceS0Time(meta, jsonl, c) ==
    ReferenceFusionTime(c, ReferenceEvidence(meta, jsonl), meta.start, meta.start + ReplayDuration)
=============================================================================
