---------------------------- MODULE HybridDecision ----------------------------
(***************************************************************************)
(* The contracts the two detection paths exchange and their combination.   *)
(*                                                                         *)
(* A detection is [run, entity, status, time, rule]; a fast result is      *)
(* [detection, hits, selected] (FastDetectionAdapterResult).  A fusion is  *)
(* the record FusionReplay builds with run, entity and version added.  A    *)
(* decision is the DecisionResult, without the text of its reason.         *)
(***************************************************************************)
EXTENDS FusionReplay

Statuses == {"detected", "miss", "not_evaluated"}

-----------------------------------------------------------------------------
\* DetectionResult: a time exactly for a detection, on the millisecond, and a
\* rule for it.
DetectionValid(d) ==
    /\ d.status \in Statuses
    /\ (d.status = "detected") <=> (d.time # None)
    /\ d.time # None => d.time % Ms = 0

\* FastDetectionAdapterResult: a selected hit exactly for a detection, kept
\* among the source hits.
FastResultValid(f) ==
    /\ \A i, j \in DOMAIN f.hits : i # j => f.hits[i] # f.hits[j]
    /\ f.detection.status = "detected" =>
          f.selected # None /\ f.selected \in ToSet(f.hits)
    /\ f.detection.status # "detected" => f.selected = None

NotEvaluatedFast(run, entity) ==
    [detection |-> [run |-> run, entity |-> entity, status |-> "not_evaluated",
                    time |-> None, rule |-> None],
     hits |-> <<>>, selected |-> None]

-----------------------------------------------------------------------------
\* combine_results: the truth table of the required parallel execution.
Earlier(a, b) == IF a < b THEN a ELSE b

\* A combiner that keeps the later of two detections.
LaterVerdict(fast, fusion) ==
    [te |-> IF fast.time < fusion.time THEN fusion.time ELSE fast.time,
     path |-> "fast_and_fusion",
     winning |-> IF fast.time < fusion.time THEN "fast"
                 ELSE IF fusion.time < fast.time THEN "fusion" ELSE "tie"]

BothDetected(fast, fusion) ==
    [te |-> Earlier(fast.time, fusion.time),
     path |-> "fast_and_fusion",
     winning |-> IF fast.time < fusion.time THEN "fast"
                 ELSE IF fusion.time < fast.time THEN "fusion" ELSE "tie"]

Verdict(fast, fusion) ==
    CASE "not_evaluated" \in {fast.status, fusion.status} ->
            [te |-> None, path |-> None, winning |-> None]
      [] fast.status = "detected" /\ fusion.status = "detected" ->
            BothDetected(fast, fusion)
      [] fast.status = "detected" /\ fusion.status = "miss" ->
            [te |-> fast.time, path |-> "fast", winning |-> "fast"]
      [] fast.status = "miss" /\ fusion.status = "detected" ->
            [te |-> fusion.time, path |-> "fusion", winning |-> "fusion"]
      [] fast.status = "miss" /\ fusion.status = "miss" ->
            [te |-> None, path |-> "none", winning |-> "none"]

\* The copies validated at the boundary went through JSON.
CombineAccepts(f, fusion) ==
    /\ DetectionValid(f.detection)
    /\ FusionResultValid(FusionJson(fusion))
    /\ f.detection.run = fusion.run /\ f.detection.entity = fusion.entity

Combine(f, fusion, id, config, supersedes) ==
    LET u == FusionJson(fusion)
        v == Verdict(f.detection, u)
    IN  [id |-> id, run |-> fusion.run, entity |-> fusion.entity,
         fast |-> f.detection.status, fusion |-> u.status,
         detectorTime |-> f.detection.time, fusionTime |-> u.time,
         te |-> v.te, path |-> v.path, winning |-> v.winning,
         config |-> config, evidence |-> u.evidence,
         hits |-> f.hits, selected |-> f.selected, supersedes |-> supersedes]

-----------------------------------------------------------------------------
\* DecisionResult validates what the combiner built.
StatusTimeValid(status, time) == (status = "detected") <=> (time # None)

PathsValid(d) ==
    /\ "not_evaluated" \in {d.fast, d.fusion} =>
          d.te = None /\ d.path = None /\ d.winning = None
    /\ d.fast = "detected" /\ d.fusion = "detected" =>
          /\ d.te = Earlier(d.detectorTime, d.fusionTime)
          /\ d.path = "fast_and_fusion"
          /\ d.winning = IF d.detectorTime < d.fusionTime THEN "fast"
                         ELSE IF d.fusionTime < d.detectorTime THEN "fusion" ELSE "tie"
    /\ d.fast = "detected" /\ d.fusion = "miss" =>
          d.te = d.detectorTime /\ d.path = "fast" /\ d.winning = "fast"
    /\ d.fast = "miss" /\ d.fusion = "detected" =>
          d.te = d.fusionTime /\ d.path = "fusion" /\ d.winning = "fusion"
    /\ d.fast = "miss" /\ d.fusion = "miss" =>
          d.te = None /\ d.path = "none" /\ d.winning = "none"

HitProvenanceValid(d) ==
    /\ d.selected # None => d.selected \in ToSet(d.hits) /\ d.fast = "detected"
    /\ \A i, j \in DOMAIN d.hits : i # j => d.hits[i] # d.hits[j]

DecisionValid(d) ==
    /\ StatusTimeValid(d.fast, d.detectorTime)
    /\ StatusTimeValid(d.fusion, d.fusionTime)
    /\ \A t \in {d.detectorTime, d.fusionTime, d.te} \ {None} : t % Ms = 0
    /\ PathsValid(d)
    /\ HitProvenanceValid(d)

-----------------------------------------------------------------------------
\* A runtime is what is saved beside a decision: [detection, fusion, trace,
\* config].  The snapshot contract relates them to each other, and
\* build_decision_runtime_snapshot relates them to the decision.
RuntimeValid(run, entity, r) ==
    /\ \A x \in {r.detection, r.fusion, r.trace, r.config} :
          x.run = run /\ x.entity = entity
    /\ r.trace.version = r.fusion.version
    /\ r.config.version = r.fusion.version
    /\ (r.fusion.status = "not_evaluated") <=> (r.trace.points = <<>>)

SnapshotValid(d, r) ==
    /\ d.fast = r.detection.status /\ d.detectorTime = r.detection.time
    /\ d.fusion = r.fusion.status /\ d.fusionTime = r.fusion.time
    /\ RuntimeValid(d.run, d.entity, r)

\* _validate_result_scope: every event and result belongs to the run and to its
\* target host.
ResultScopeValid(run, target, events, r, d) ==
    /\ \A e \in events : e.run = run /\ e.host = target
    /\ d.run = run /\ d.entity = target
    /\ RuntimeValid(run, target, r)
=============================================================================
