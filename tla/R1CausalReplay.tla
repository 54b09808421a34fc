---------------------------- MODULE R1CausalReplay ----------------------------
(***************************************************************************)
(* The inputs of R1 causal fusion and its offline replay.                  *)
(*                                                                         *)
(* Whole episode: an Evidence artifact and an availability envelope, in    *)
(* which everything becomes available at the end of the run, are joined by *)
(* Evidence id, replayed, and published as two results and a provenance    *)
(* file that is linked last.  Incremental: the published set of a verified *)
(* close is validated once, and everything becomes available at the time   *)
(* of that validation.                                                     *)
(*                                                                         *)
(* An artifact is [run, status, diagnostics, extractor, evidences,         *)
(* selector, lineage]; selector is [status, policy] or None, lineage a     *)
(* sequence of [policy, context]; an approved policy is [id, families].    *)
(* An item of Evidence is [id, run, entity, timestamp, type, group,        *)
(* events].  A digest is the content it digests.                           *)
(***************************************************************************)
EXTENDS HybridDecision

-----------------------------------------------------------------------------
\* build_r1_causal_availability_envelope.
FamilyBound(meta, approved) == meta.family # None /\ meta.family \in approved.families

EnvelopeBuildable(a, meta, selector, approved) ==
    /\ meta.end # None
    /\ FamilyBound(meta, approved)
    /\ a.run = meta.run /\ ~a.diagnostics
    /\ a.selector # None /\ a.selector.status = "selected" /\ a.selector.policy = selector
    /\ Len(a.lineage) = 1 /\ a.lineage[1].policy = approved.id
    /\ a.status = "completed"
    /\ \A i \in DOMAIN a.evidences :
          /\ a.evidences[i].run = meta.run /\ a.evidences[i].entity = meta.target
          /\ a.evidences[i].timestamp \in meta.start..meta.end

AvailableBefore(a, b) ==
    \/ a.available < b.available
    \/ a.available = b.available /\ a.timestamp < b.timestamp
    \/ a.available = b.available /\ a.timestamp = b.timestamp /\ a.id < b.id

Envelope(a, meta, selector, approved) ==
    LET item(e) == [id |-> e.id, timestamp |-> e.timestamp, available |-> meta.end,
                    events |-> e.events, context |-> a.lineage[1].context]
    IN  [run |-> meta.run, entity |-> meta.target, start |-> meta.start, end |-> meta.end,
         watermark |-> meta.end, selector |-> selector, approved |-> approved.id,
         extractor |-> a.extractor, evidences |-> a.evidences, summary |-> a,
         items |-> SortSeq([i \in DOMAIN a.evidences |-> item(a.evidences[i])], AvailableBefore)]

EnvelopeValid(e) ==
    /\ e.end >= e.start /\ e.watermark = e.end
    /\ Len(e.items) = Len(e.evidences)
    /\ e.items = SortSeq(e.items, AvailableBefore)
    /\ \A i, j \in DOMAIN e.items : i # j => e.items[i].id # e.items[j].id
    /\ \A i \in DOMAIN e.items : /\ e.items[i].timestamp \in e.start..e.end
                                 /\ e.items[i].available = e.end

\* prepare_r1_causal_replay_input: the artifact as it is now, against the
\* envelope that was built over it.
IdsOf(s) == {s[i].id : i \in DOMAIN s}

SameRun(e, meta, approved) ==
    /\ meta.end # None
    /\ e.run = meta.run /\ e.entity = meta.target
    /\ e.start = meta.start /\ e.end = meta.end
    /\ FamilyBound(meta, approved)

SourcesMatch(a, e, approved) ==
    /\ a.status = "completed" /\ a.run = e.run /\ ~a.diagnostics
    /\ a.extractor = e.extractor
    /\ a.evidences = e.evidences /\ a = e.summary
    /\ a.selector # None /\ a.selector.status = "selected" /\ a.selector.policy = e.selector
    /\ Len(a.lineage) = 1 /\ a.lineage[1].policy = e.approved
    /\ e.approved = approved.id

JoinAccepts(a, e, meta, approved) ==
    /\ EnvelopeValid(e)
    /\ SameRun(e, meta, approved)
    /\ SourcesMatch(a, e, approved)
    /\ \A i, j \in DOMAIN a.evidences : i # j => a.evidences[i].id # a.evidences[j].id
    /\ \A i \in DOMAIN a.evidences : /\ a.evidences[i].run = e.run
                                     /\ a.evidences[i].entity = e.entity
    /\ IdsOf(a.evidences) = IdsOf(e.items)
    /\ \A i \in DOMAIN a.evidences : \A j \in DOMAIN e.items :
          a.evidences[i].id = e.items[j].id =>
             /\ e.items[j].timestamp = a.evidences[i].timestamp
             /\ e.items[j].events = a.evidences[i].events
             /\ e.items[j].context = a.lineage[1].context
             /\ e.items[j].available >= e.items[j].timestamp

ScheduledBefore(a, b) ==
    \/ a.available < b.available
    \/ /\ a.available = b.available
       /\ \/ a.evidence.timestamp < b.evidence.timestamp
          \/ a.evidence.timestamp = b.evidence.timestamp /\ a.evidence.id < b.evidence.id

Scheduled(evidences, available) ==
    InOrder({[evidence |-> e, available |-> available] : e \in ToSet(evidences)}, ScheduledBefore)

-----------------------------------------------------------------------------
\* What causal fusion returns for a run, a configuration and a schedule.
CausalOutput(c, scheduled, meta) ==
    LET replay == CausalReplay(c, scheduled, meta.start, meta.end)
    IN  [valid  |-> replay.valid /\ StoppingTraceValid(replay.stopping.trace),
         fusion |-> NamedResult(FusionResult(replay), meta.run, meta.target, c),
         trace  |-> NamedTrace(replay.stopping.trace, meta.run, meta.target, c),
         points |-> [i \in DOMAIN replay.points |-> replay.points[i].timestamp]]

\* R1CausalReplayProvenance: what the marker says about the two results.
Provenance(c, out, meta) ==
    [result |-> FusionJson(out.fusion), stopping |-> out.trace, points |-> out.points,
     partial |-> (meta.end - meta.start) % c.step # 0, status |-> out.fusion.status,
     time |-> out.fusion.time, start |-> meta.start, end |-> meta.end]

ProvenanceAccepted(c, v) ==
    /\ v.points[1] = v.start /\ Last(v.points) = v.end
    /\ \A i \in 2..Len(v.points) : v.points[i] > v.points[i - 1]
    /\ \A i \in 2..(Len(v.points) - 1) : v.points[i] - v.points[i - 1] = c.step
    /\ Len(v.points) > 1 =>
          LET gap == Last(v.points) - v.points[Len(v.points) - 1]
          IN  IF v.partial THEN gap \in 1..(c.step - 1) ELSE gap = c.step
    /\ v.time # None => v.time \in ToSet(v.points)
    /\ (v.status = "detected") <=> (v.time # None)

-----------------------------------------------------------------------------
VARIABLES episode,    \* what the commands are given and nobody writes
          replay,     \* the replay command: [at, out], at the next file to link
          replayed    \* its directory: [result, stopping, provenance]

replayVars == <<replay, replayed>>

ReplayIdle == [at |-> 0, out |-> None]

NothingReplayed == [result |-> None, stopping |-> None, provenance |-> None]

\* run_and_write_r1_causal_replay: nothing is written unless the join and the
\* contracts accept, and never over an existing file.
RunReplay ==
    LET e   == Envelope(episode.built, episode.meta, episode.selector, episode.approved)
        s   == Scheduled(episode.artifact.evidences, e.end)
        out == CausalOutput(episode.replayConfig, s, episode.meta)
        v   == Provenance(episode.replayConfig, out, episode.meta)
    IN  /\ replay.at = 0
        /\ replayed = NothingReplayed
        /\ EnvelopeBuildable(episode.built, episode.meta, episode.selector, episode.approved)
        /\ JoinAccepts(episode.artifact, e, episode.meta, episode.approved)
        /\ CausalAccepts(s, episode.meta.start, episode.meta.end)
        /\ out.valid /\ FusionResultValid(out.fusion)
        /\ ProvenanceAccepted(episode.replayConfig, v)
        /\ replay' = [at |-> 1, out |-> v]
        /\ UNCHANGED replayed

\* A publication that links the completion marker first.
MarkerFirst == <<"provenance", "result", "stopping">>

PublishOrder == <<"result", "stopping", "provenance">>

\* _publish_files links one file after the other.
LinkReplayFile ==
    /\ replay.at > 0
    /\ LET f == PublishOrder[replay.at]
       IN  replayed' = [replayed EXCEPT ![f] = IF f = "provenance" THEN replay.out
                                               ELSE replay.out[f]]
    /\ replay' = IF replay.at < 3 THEN [replay EXCEPT !.at = @ + 1] ELSE ReplayIdle

\* An error takes back what was linked; the end of the process leaves it.
ReplayRollback ==
    /\ replay.at > 1
    /\ replayed' = NothingReplayed
    /\ replay' = ReplayIdle

ReplayCrash ==
    /\ replay.at > 0
    /\ replay' = ReplayIdle
    /\ UNCHANGED replayed

\* load_r1_causal_replay_artifacts: the marker must name the two files that are
\* there.
ReplayLoads ==
    /\ \A f \in {"result", "stopping", "provenance"} : replayed[f] # None
    /\ replayed.provenance.result = replayed.result
    /\ replayed.provenance.stopping = replayed.stopping
=============================================================================
