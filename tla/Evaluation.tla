------------------------------ MODULE Evaluation ------------------------------
(***************************************************************************)
(* Evaluation of what the paths found: episodes are cut out of a fast      *)
(* handoff, a snapshot of the store is bound to them and to the observed   *)
(* interval of fusion, and every path gets the first start that counts.    *)
(* The R1 results are checked against their sources before they count: the *)
(* offline replay by its provenance, a handoff by replaying it again.      *)
(*                                                                         *)
(* A plan is [type, reference, horizon, gap, bound]: the run_type and the  *)
(* reference_time of the run's metadata, which nobody else reads, the      *)
(* evaluation horizon, the inactivity gap of the episode policy, and       *)
(* whether the plan pins a fast binding.  There is one set of versions, so *)
(* the plan's version checks are left out.  A digest is the content.       *)
(***************************************************************************)
EXTENDS FirstCyclePipeline, R1FusionHandoff

CONSTANT Plans

Precise(t) == t % Ms = 0

-----------------------------------------------------------------------------
\* build_development_episodes: per alert key, a hit joins the episode of the
\* hit before it unless the gap between the two is reached.
NoGroups == [groups |-> <<>>, active |-> <<>>]

\* A session that is still open when the gap is reached.
OpensAfterGap(acc, hit, gap) ==
    hit.alert \notin DOMAIN acc.active \/ hit.time - acc.active[hit.alert].time > gap

OpensEpisode(acc, hit, gap) ==
    hit.alert \notin DOMAIN acc.active \/ hit.time - acc.active[hit.alert].time >= gap

Grouped(acc, hit, gap) ==
    LET opens == OpensEpisode(acc, hit, gap)
        n == IF opens THEN Len(acc.groups) + 1 ELSE acc.active[hit.alert].group
    IN  [groups |-> IF opens
                      THEN Append(acc.groups, [start |-> hit.time, alert |-> hit.alert,
                                               hits |-> <<hit.id>>])
                      ELSE [acc.groups EXCEPT ![n].hits = Append(@, hit.id)],
         active |-> [a \in DOMAIN acc.active \cup {hit.alert} |->
                       IF a = hit.alert THEN [time |-> hit.time, group |-> n]
                       ELSE acc.active[a]]]

EpisodeRecords(fs, policy, entity) == SetToSortSeq(Owned(fs, policy, entity), Before)

EpisodesBuildable(fs, policy, meta) ==
    /\ Precise(meta.start) /\ Precise(meta.end) /\ meta.start < meta.end
    /\ SelectAccepts(fs, policy, meta.run, meta.target)
    /\ \A h \in Owned(fs, policy, meta.target) : h.time \in meta.start..meta.end

FastEpisodes(fs, policy, meta, gap) ==
    LET groups == FoldLeft(LAMBDA acc, h : Grouped(acc, h, gap), NoGroups,
                           EpisodeRecords(fs, policy, meta.target)).groups
    IN  [run |-> meta.run, entity |-> meta.target, start |-> meta.start, end |-> meta.end,
         starts |-> [n \in DOMAIN groups |-> groups[n].start]]

-----------------------------------------------------------------------------
\* validate_fast_binding: the selection is made again from the handoff, and the
\* stored detection and the provenance of the decision must be its adaptation.
BindingValid(fs, policy, meta, detection, d) ==
    /\ SelectAccepts(fs, policy, meta.run, meta.target)
    /\ fs.selection = Select(fs, policy, meta.target)
    /\ AdaptAccepts(fs, meta.target, fs.selection, policy.map)
    /\ LET f == Adapt(fs, meta.target, fs.selection)
       IN  /\ f.detection = detection
           /\ d.hits = f.hits /\ d.selected = f.selected

-----------------------------------------------------------------------------
\* read_stored_snapshot: the rows of one run in one repeatable-read transaction.
\* The detection and the fusion are the latest rows of the scope, whichever
\* decision the plan names.
StoredBundle(id, run, entity, episodes, observation, handoff) ==
    [meta |-> runs[run], decision |-> decisions[id].decision,
     detection |-> latest[<<run, entity>>].detection,
     fusion |-> latest[<<run, entity>>].fusion,
     episodes |-> episodes, observation |-> observation, handoff |-> handoff]

\* _validate_bundle.  What must be equal between the decision and the paths.
Compared == {"fast", "fusion", "detectorTime", "fusionTime", "te", "path", "winning", "evidence"}

PathsAgree(b) ==
    LET f == [detection |-> b.detection, hits |-> b.decision.hits,
              selected |-> b.decision.selected]
        expected == Combine(f, b.fusion, b.decision.id, b.decision.config, None)
    IN  /\ CombineAccepts(f, b.fusion)
        /\ \A name \in Compared : b.decision[name] = expected[name]

ReferenceTimeValid(plan, meta) ==
    /\ plan.reference # None => Precise(plan.reference)
    /\ plan.type = "attack" => /\ plan.reference # None
                               /\ plan.reference \in meta.start..meta.end

BindingAccepted(plan, b) ==
    IF b.detection.status = "not_evaluated" THEN b.handoff = None
    ELSE plan.bound \/ b.handoff # None =>
            /\ plan.bound /\ b.handoff # None
            /\ BindingValid(b.handoff.files, b.handoff.policy, b.meta, b.detection, b.decision)

BundleValid(plan, b) ==
    /\ b.meta.end # None /\ Precise(b.meta.start) /\ Precise(b.meta.end)
    /\ ReferenceTimeValid(plan, b.meta)
    /\ \A x \in {b.detection, b.fusion, b.decision} :
          x.run = b.meta.run /\ x.entity = b.meta.target
    /\ BindingAccepted(plan, b)
    /\ PathsAgree(b)
    /\ \A t \in {b.detection.time, b.fusion.time} \ {None} : t \in b.meta.start..b.meta.end

-----------------------------------------------------------------------------
\* _fast_starts and _fusion_starts: the complete history of each path.
FastStartsValid(b) ==
    IF b.detection.status = "not_evaluated" THEN b.episodes = None
    ELSE /\ b.episodes # None
         /\ b.episodes.run = b.meta.run /\ b.episodes.entity = b.meta.target
         /\ b.episodes.start = b.meta.start /\ b.episodes.end = b.meta.end
         /\ \A t \in ToSet(b.episodes.starts) : Precise(t) /\ t \in b.meta.start..b.meta.end
         /\ b.detection.status = "miss" => b.episodes.starts = <<>>
         /\ b.detection.status = "detected" =>
               b.episodes.starts # <<>> /\ Min(ToSet(b.episodes.starts)) = b.detection.time

RequiredEnd(plan, meta) ==
    IF plan.type = "attack" THEN Min({plan.reference + plan.horizon, meta.end}) ELSE meta.end

FusionStartsValid(plan, b) ==
    IF b.fusion.status = "not_evaluated" THEN b.observation = None
    ELSE /\ b.observation # None
         /\ Precise(b.observation.start) /\ Precise(b.observation.end)
         /\ b.observation.start = b.meta.start
         /\ b.observation.end \in RequiredEnd(plan, b.meta)..b.meta.end
         /\ \A i \in DOMAIN b.fusion.episodes :
               LET e == b.fusion.episodes[i]
               IN  /\ Precise(e.start) /\ e.end # None /\ Precise(e.end)
                   /\ b.meta.start <= e.start /\ e.start <= e.end
                   /\ e.end <= b.observation.end
         /\ \A i \in 2..Len(b.fusion.episodes) :
               b.fusion.episodes[i].start >= b.fusion.episodes[i - 1].end

SnapshotAccepted(plan, b) ==
    BundleValid(plan, b) /\ FastStartsValid(b) /\ FusionStartsValid(plan, b)

-----------------------------------------------------------------------------
\* build_evaluation_inputs: the first start of each path in the interval that
\* counts; a path that was not evaluated has no row.
Lower(plan, meta) == IF plan.type = "attack" THEN plan.reference ELSE meta.start

FirstOf(S) == IF S = {} THEN None ELSE Min(S)

EligibleTime(plan, meta, starts) ==
    FirstOf({t \in starts : t \in Lower(plan, meta)..RequiredEnd(plan, meta)})

Starts(b) ==
    [fast |-> IF b.episodes = None THEN {} ELSE ToSet(b.episodes.starts),
     fusion |-> {b.fusion.episodes[i].start : i \in DOMAIN b.fusion.episodes}]

InputRows(plan, b) ==
    LET fast == EligibleTime(plan, b.meta, Starts(b).fast)
        fused == EligibleTime(plan, b.meta, Starts(b).fusion)
        known == {fast, fused} \ {None}
        rows == [fast |-> fast, fusion |-> fused,
                 hybrid |-> IF known = {} THEN None ELSE Min(known)]
        out == {m \in {"fast", "fusion"} : b[IF m = "fast" THEN "detection" ELSE "fusion"].status
                                              = "not_evaluated"}
    IN  [m \in DOMAIN rows \ (out \cup (IF out = {} THEN {} ELSE {"hybrid"})) |-> rows[m]]

\* evaluate: one method over an inventory of runs, a set of [run, type,
\* reference, end, timestamp].
Metrics(horizon, inventory) ==
    LET attacks == {r \in inventory : r.type = "attack"}
        normals == inventory \ attacks
        hits == {r \in attacks : /\ r.timestamp # None
                                 /\ r.timestamp >= r.reference
                                 /\ r.timestamp <= Min({r.reference + horizon, r.end})}
        alarms == {r \in normals : r.timestamp # None}
        runsOf(S) == {r.run : r \in S}
    IN  [attacks |-> Cardinality(runsOf(attacks)), detected |-> Cardinality(runsOf(hits)),
         ttsd |-> [x \in runsOf(hits) |->
                     Min({r.timestamp - r.reference : r \in {y \in hits : y.run = x}})],
         normals |-> Cardinality(runsOf(normals)), alarms |-> Cardinality(runsOf(alarms))]

Inventory(plan, b, rows, method) ==
    IF method \in DOMAIN rows
      THEN {[run |-> b.meta.run, type |-> plan.type, reference |-> plan.reference,
             end |-> b.meta.end, timestamp |-> rows[method]]}
      ELSE {}

\* compare_paired_timing, for an attack run.
PairedOutcome(rows) ==
    IF {"fast", "fusion"} \ DOMAIN rows # {} THEN "not_evaluated"
    ELSE IF rows.fast # None /\ rows.fusion # None THEN "both_detected"
    ELSE IF rows.fast # None THEN "fast_only"
    ELSE IF rows.fusion # None THEN "fusion_only" ELSE "both_miss"

EarlierPath(rows) ==
    IF PairedOutcome(rows) # "both_detected" THEN None
    ELSE IF rows.fast < rows.fusion THEN "fast"
    ELSE IF rows.fusion < rows.fast THEN "fusion" ELSE "tie"

\* evaluate_normal_alert_burden counts the episodes of a normal run.
AlertBurden(b) ==
    [fast |-> IF b.episodes = None THEN 0 ELSE Len(b.episodes.starts),
     fusion |-> Len(b.fusion.episodes)]

-----------------------------------------------------------------------------
\* validate_causal_replay: p is the provenance, e the envelope, fusion and trace
\* the two results, c the configuration the provenance carries.
CausalIdentity(p, e, trace, fusion, meta) ==
    /\ \A x \in {e, trace, fusion} : x.run = meta.run /\ x.entity = meta.target
    /\ e.start = meta.start /\ e.end = meta.end
    /\ p.start = e.start /\ p.end = e.end
    /\ fusion = p.result /\ trace = p.stopping
    /\ p.status = fusion.status /\ p.time = fusion.time

\* No score before there is Evidence that is available and in the window.
ScoresAvailable(e, trace, c) ==
    \A i \in DOMAIN trace.points :
        LET t == trace.points[i].timestamp
        IN  trace.points[i].score # 0 =>
               \E j \in DOMAIN e.items : /\ e.items[j].available <= t
                                         /\ e.items[j].timestamp \in (t - c.window)..t

CausalEpisodes(e, trace, fusion, c) ==
    \A i \in DOMAIN fusion.episodes :
        LET ep == fusion.episodes[i]
        IN  /\ \E k \in DOMAIN trace.points : trace.points[k].timestamp = ep.end
            /\ \E k \in DOMAIN trace.points :
                  /\ trace.points[k].timestamp = ep.start
                  /\ trace.points[k].state = "on" /\ trace.points[k].score = ep.score
            /\ \A id \in ep.evidence : \E j \in DOMAIN e.items :
                  /\ e.items[j].id = id /\ e.items[j].available <= ep.start
                  /\ e.items[j].timestamp \in (ep.start - c.window)..ep.start

CausalProofValid(p, e, trace, fusion, meta, c) ==
    /\ CausalIdentity(p, e, trace, fusion, meta)
    /\ c.version = fusion.version /\ trace.version = c.version
    /\ [i \in DOMAIN trace.points |-> trace.points[i].timestamp] = p.points
    /\ ScoresAvailable(e, trace, c)
    /\ CausalEpisodes(e, trace, fusion, c)

-----------------------------------------------------------------------------
\* validate_incremental_execution_input: the stored set is validated again, with
\* the availability its first validation recorded.
ContextValid(pub, meta) ==
    /\ meta.end > meta.start
    /\ \A i \in DOMAIN pub.evidences :
          /\ pub.evidences[i].run = meta.run /\ pub.evidences[i].entity = meta.target
          /\ pub.evidences[i].timestamp \in meta.start..meta.end
          /\ pub.evidences[i].events \subseteq {x.id : x \in pub.events}

ExecutionInputValid(pub, meta, at) ==
    at # None /\ ContextValid(pub, meta) /\ PublishedValid(pub, meta)

\* build_incremental_fusion_input: the results of a directory must be the ones a
\* replay of the validated input gives.
IncrementalAccepts(plan, d, c, pub, meta, at) ==
    LET s == Scheduled(pub.restored, at)
        out == CausalOutput(c, s, meta)
    IN  /\ ReferenceTimeValid(plan, meta)
        /\ plan.type # "attack" => plan.reference = None
        /\ ExecutionInputValid(pub, meta, at)
        /\ CausalAccepts(s, meta.start, meta.end)
        /\ d.result = out.fusion /\ d.stopping = out.trace

IncrementalEligible(plan, d, meta) ==
    EligibleTime(plan, meta, {d.result.episodes[i].start : i \in DOMAIN d.result.episodes})

-----------------------------------------------------------------------------
(***************************************************************************)
(* What evaluation is meant to find, from the rows of the export, the raw  *)
(* records and the published Evidence alone.                               *)
(***************************************************************************)
\* A hit starts an episode when no earlier hit of its alert key is closer than
\* the gap.
ReferenceFastStarts(csv, config, map, entity, gap) ==
    LET owned == {n \in 1..Len(csv) : /\ csv[n].rule \in config.qualifying
                                      /\ Mapped(map, csv[n].host) = entity}
        at(n) == MsTrunc(csv[n].time)
    IN  {<<config.alerts[csv[n].rule], at(n)>> : n \in {x \in owned : \A y \in owned :
            config.alerts[csv[y].rule] = config.alerts[csv[x].rule] /\ at(y) < at(x)
                => at(x) - at(y) >= gap}}

\* A point starts an episode when k points up to it are at or above threshold_on
\* and the score fell below threshold_off after every earlier such point.
ReferenceStarts(c, times, scores) ==
    LET confirmed == {i \in c.k..Len(times) :
                        \A j \in (i - c.k + 1)..i : AtLeast(c, scores[j], c.on)}
    IN  {times[i] : i \in {x \in confirmed : \A y \in confirmed :
            y < x => \E r \in (y + 1)..x : ~AtLeast(c, scores[r], c.off)}}

ReferenceScore(c, items, t) ==
    Cardinality({e.type : e \in {x \in ReferenceActive(c, items, t) : IsScoring(c, x)}})

S0ReferenceStarts(meta, jsonl, c) ==
    LET times == Grid(c, meta.start, meta.start + ReplayDuration)
        items == ReferenceEvidence(meta, jsonl)
    IN  IF Covered(meta)
          THEN ReferenceStarts(c, times, [i \in DOMAIN times |-> ReferenceScore(c, items, times[i])])
          ELSE {}

R1ReferenceStarts(meta, items, c, at) ==
    LET times == CausalPoints(c, meta.start, meta.end)
    IN  ReferenceStarts(c, times, [i \in DOMAIN times |->
            IF times[i] >= at THEN ReferenceScore(c, items, times[i]) ELSE 0])
-----------------------------------------------------------------------------
\* What the plan gives the two kinds of run to read: the episodes that can be
\* built from the directory, and the interval that was replayed.
S0Bundle(plan, i) ==
    LET meta == runs[world.meta.run]
    IN  StoredBundle(i, meta.run, meta.target,
                     IF EpisodesBuildable(files, world.policy, meta)
                       THEN FastEpisodes(files, world.policy, meta, plan.gap) ELSE None,
                     IF Covered(meta) THEN [start |-> meta.start, end |-> ReplayEnd(meta)] ELSE None,
                     IF plan.bound THEN [files |-> files, policy |-> world.policy] ELSE None)

R1Bundle(i) ==
    LET meta == runs[episode.meta.run]
        found == decisions[i].basis.fast.detection
    IN  StoredBundle(i, meta.run, meta.target,
                     IF found.status = "not_evaluated" THEN None
                       ELSE [run |-> meta.run, entity |-> meta.target, start |-> meta.start,
                             end |-> meta.end, starts |-> <<found.time>>],
                     [start |-> meta.start, end |-> meta.end], None)

\* The rows and the figures made from them are those of the reference.
ReferenceEligible(plan, meta, starts) ==
    LET from == IF plan.type = "attack" THEN plan.reference ELSE meta.start
        to == IF plan.type = "attack" /\ plan.reference + plan.horizon < meta.end
                THEN plan.reference + plan.horizon ELSE meta.end
    IN  FirstOf({t \in starts : from <= t /\ t <= to})

FiguresAgree(plan, b, rows) ==
    /\ \A m \in DOMAIN rows :
          LET x == Metrics(plan.horizon, Inventory(plan, b, rows, m))
              one == IF rows[m] = None THEN 0 ELSE 1
          IN  IF plan.type = "attack"
                THEN x.detected = one /\ x.alarms = 0
                     /\ (one = 1 => x.ttsd[b.meta.run] = rows[m] - plan.reference)
                ELSE x.detected = 0 /\ x.alarms = one
    /\ plan.type = "normal" /\ "hybrid" \in DOMAIN rows => rows.hybrid = b.decision.te
    /\ PairedOutcome(rows) = "both_detected" /\ rows.fast = b.decision.detectorTime
          /\ rows.fusion = b.decision.fusionTime => EarlierPath(rows) = b.decision.winning

RowsAgree(plan, b, fast, fused, rows) ==
    /\ "fast" \in DOMAIN rows =>
          /\ rows.fast = ReferenceEligible(plan, b.meta, {x[2] : x \in fast})
          /\ AlertBurden(b).fast = Cardinality(fast)
    /\ "fusion" \in DOMAIN rows =>
          /\ rows.fusion = ReferenceEligible(plan, b.meta, fused)
          /\ AlertBurden(b).fusion = Cardinality(fused)
    /\ FiguresAgree(plan, b, rows)

Evaluated(plan, b, fast, fused) ==
    SnapshotAccepted(plan, b) => RowsAgree(plan, b, fast, fused, InputRows(plan, b))

\* When nothing speaks against it, a snapshot is not refused.
PlanFits(plan, meta, observed) ==
    /\ Precise(meta.start) /\ Precise(meta.end) /\ meta.start < meta.end
    /\ ReferenceTimeValid(plan, meta)
    /\ observed # None => RequiredEnd(plan, meta) <= observed

S0Evaluable(plan, i, meta, fast) ==
    /\ ~world.hand /\ files.csv = decisions[i].basis.csv
    /\ \A x \in fast : x[2] \in meta.start..meta.end
    /\ PlanFits(plan, meta, IF Covered(meta) THEN ReplayEnd(meta) ELSE None)

S0Evaluated(plan, i, b, fast) ==
    /\ S0Evaluable(plan, i, b.meta, fast) /\ i \in Heads(decisions[i].scope)
          => SnapshotAccepted(plan, b)
    /\ Evaluated(plan, b, fast, S0ReferenceStarts(b.meta, world.jsonl, world.fusionConfig))

R1Evaluated(plan, i, b) ==
    LET d == b.decision
        fast == IF d.detectorTime = None THEN {} ELSE {<<None, d.detectorTime>>}
    IN  /\ /\ PlanFits(plan, b.meta, b.meta.end) /\ i \in Heads(decisions[i].scope)
           /\ plan.bound => d.fast = "not_evaluated"
           => SnapshotAccepted(plan, b)
        /\ Evaluated(plan, b, fast,
                     R1ReferenceStarts(b.meta, episode.pub.restored, decisions[i].basis.config,
                                       decisions[i].basis.at))

\* A recorded handoff passes its own second replay.
HandoffEvaluated(plan, d, r) ==
    r.stage = "decision_recorded" =>
        \A cmd \in {x \in episode.commands : x.config.version = r.result.version} :
            /\ PlanFits(plan, episode.meta, None) /\ (plan.type = "normal" => plan.reference = None)
                  => IncrementalAccepts(plan, dir[d], cmd.config, episode.pub, episode.meta,
                                        validation)
            /\ IncrementalAccepts(plan, dir[d], cmd.config, episode.pub, episode.meta, validation)
                  => IncrementalEligible(plan, dir[d], episode.meta)
                       = ReferenceEligible(plan, episode.meta,
                             R1ReferenceStarts(episode.meta, episode.pub.restored, cmd.config,
                                               validation))

\* A complete offline replay is a valid causal proof of the reference.
ReplayEvaluated(e) ==
    /\ CausalProofValid(replayed.provenance, e, replayed.stopping, replayed.result,
                        episode.meta, episode.replayConfig)
    /\ {replayed.result.episodes[i].start : i \in DOMAIN replayed.result.episodes}
          = R1ReferenceStarts(episode.meta, episode.artifact.evidences, episode.replayConfig,
                              episode.meta.end)

\* Whatever a plan asks, evaluation gives every path the time a reference finds
\* in the rows of the export, the raw records and the published Evidence: the
\* first episode in the interval, with the starts of all episodes known, over
\* decisions that were superseded, exports that were rewritten and handoffs that
\* were repeated, and a snapshot of the current decision, a recorded handoff and
\* a complete offline replay are never refused without a reason in their inputs.
EvaluationIsReference ==
    /\ \A plan \in Plans : \A i \in DOMAIN decisions : decisions[i] # None =>
          IF decisions[i].basis.path = "s0"
            THEN S0Evaluated(plan, i, S0Bundle(plan, i),
                     ReferenceFastStarts(files.csv, files.config, world.policy.map,
                                         world.meta.target, plan.gap))
            ELSE R1Evaluated(plan, i, R1Bundle(i))
    /\ \A plan \in Plans, d \in Directories : \A n \in DOMAIN dir[d].trace :
          HandoffEvaluated(plan, d, dir[d].trace[n])
    /\ replayed.provenance # None =>
          ReplayEvaluated(Envelope(episode.built, episode.meta, episode.selector,
                                   episode.approved))
=============================================================================
