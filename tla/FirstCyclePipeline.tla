-------------------------- MODULE FirstCyclePipeline --------------------------
(***************************************************************************)
(* An S0 run from its collected files to a stored decision: the fast       *)
(* runner publishes its handoff in a directory, a selection is made over   *)
(* it, and invocations of run_first_cycle_pipeline evaluate the run and    *)
(* persist what they find.                                                 *)
(*                                                                         *)
(* world is what the invocations are given and nobody writes:              *)
(*   [meta, manifest, jsonl, fusionConfig, policy, export, hand, inputs,   *)
(*    limit]                                                               *)
(* export is a second CSV that a repeated scan may put over the first one, *)
(* hand says that the selection was written by hand, an input of an        *)
(* invocation is [id, entity, config], and limit bounds the invocations of *)
(* a process.                                                              *)
(***************************************************************************)
EXTENDS FastDetection, S0Evidence, DecisionStore

VARIABLES world,    \* the inputs of the run
          files,    \* the fast directory: [csv, config, hits, trace, selection]
          runner,   \* the fast runner: [phase, rows, trace]
          inv       \* process -> its invocation: [phase, input, fusion, fast,
                    \* basis, count]

pipelineVars == <<files, runner, inv>>

-----------------------------------------------------------------------------
\* run_fast_handoff: refuses to start over an existing output, reads the rows,
\* then hashes the file again for the trace.
RunnerIdle == [phase |-> "idle", rows |-> <<>>, trace |-> None]

FastRead ==
    /\ runner.phase = "idle"
    /\ files.hits = None /\ files.trace = None
    /\ RunnerConfigValid(files.config)
    /\ runner' = [phase |-> "read", rows |-> files.csv, trace |-> None]
    /\ UNCHANGED <<files, inv>>

FastStage ==
    /\ runner.phase = "read"
    /\ runner' = [phase |-> "staged", rows |-> runner.rows,
                  trace |-> FastTrace(world.meta.run, runner.rows, files.config,
                                      files.csv, files.config)]
    /\ UNCHANGED <<files, inv>>

\* A publication that links the completion marker first.
LinkTraceFirst ==
    /\ runner.phase = "staged"
    /\ files' = [files EXCEPT !.trace = runner.trace]
    /\ runner' = [runner EXCEPT !.phase = "linked"]
    /\ UNCHANGED inv

\* _publish_handoff links the hits, then the trace as the completion marker.
LinkHits ==
    /\ runner.phase = "staged"
    /\ files' = [files EXCEPT !.hits = runner.trace.output]
    /\ runner' = [runner EXCEPT !.phase = "linked"]
    /\ UNCHANGED inv

LinkTrace ==
    /\ runner.phase = "linked"
    /\ files' = [files EXCEPT !.trace = runner.trace]
    /\ runner' = RunnerIdle
    /\ UNCHANGED inv

\* An error takes back what this call linked; the end of the process does not.
FastRollback ==
    /\ runner.phase = "linked"
    /\ files' = [files EXCEPT !.hits = None]
    /\ runner' = RunnerIdle
    /\ UNCHANGED inv

FastCrash ==
    /\ runner.phase # "idle"
    /\ runner' = RunnerIdle
    /\ UNCHANGED <<files, inv>>

\* A second scan writes its export over the first.
RewriteCsv ==
    /\ files.csv # world.export
    /\ files' = [files EXCEPT !.csv = world.export]
    /\ UNCHANGED <<runner, inv>>

\* fast_selection's main: the output directory must be new.
FastSelect(entity) ==
    /\ files.selection = None
    /\ SelectAccepts(files, world.policy, world.meta.run, entity)
    /\ files' = [files EXCEPT !.selection = Select(files, world.policy, entity)]
    /\ UNCHANGED <<runner, inv>>

-----------------------------------------------------------------------------
\* run_first_cycle_pipeline up to the fusion stage.
NoInvocation ==
    [phase |-> "idle", input |-> None, fusion |-> None, fast |-> None, basis |-> None,
     count |-> 0]

Gone(p) == [NoInvocation EXCEPT !.count = inv[p].count]

S0Events == NormalizedEvents(world.meta, world.manifest, world.jsonl)

FusionStageOK(entity) ==
    /\ ArtifactsValid(world.meta, world.manifest, world.jsonl)
    /\ \A n \in DOMAIN world.jsonl : RecordValid(world.jsonl[n])
    /\ FusionAccepts(world.meta, S0Events, world.fusionConfig, entity)

FusionOutput(entity) == S0Fusion(world.meta, S0Events, world.fusionConfig, entity)

Invoke(p, input) ==
    /\ inv[p].phase = "idle" /\ inv[p].count < world.limit[p]
    /\ tx[p].phase \in {"idle", "committed", "failed"}
    /\ LET out == FusionOutput(input.entity)
           ok  == FusionStageOK(input.entity)
       IN  inv' = [inv EXCEPT ![p] =
                     IF ok /\ (ok => out.valid /\ StoppingTraceValid(out.trace.points))
                       THEN [phase |-> "fused", input |-> input, fusion |-> out,
                             fast |-> None, basis |-> None, count |-> inv[p].count + 1]
                       ELSE [NoInvocation EXCEPT !.count = inv[p].count + 1]]
    /\ UNCHANGED <<files, runner>>

\* direct_host_entity_mapper: a host is its own entity.
DirectMap(hits) == [h \in {hits[i].host : i \in DOMAIN hits} \ {None} |-> h]

FastStageOK(entity) ==
    /\ files.selection # None
    /\ HandoffValid(files, world.meta.run)
    /\ AdaptAccepts(files, entity, files.selection, DirectMap(files.hits))
    /\ FastResultValid(Adapt(files, entity, files.selection))

LoadFast(p) ==
    /\ inv[p].phase = "fused"
    /\ inv' = [inv EXCEPT ![p] =
                 IF FastStageOK(inv[p].input.entity)
                   THEN [@ EXCEPT !.phase = "ready",
                                  !.fast = Adapt(files, inv[p].input.entity, files.selection),
                                  !.basis = [path |-> "s0", csv |-> files.csv]]
                   ELSE Gone(p)]
    /\ UNCHANGED <<files, runner>>

-----------------------------------------------------------------------------
\* The hybrid stage reads the head the decision is to supersede, the persistence
\* stage checks the scope and begins the transaction.
RuntimeOf(fast, fusion, trace, c, run, entity) ==
    [detection |-> fast.detection, fusion |-> fusion, trace |-> trace,
     config |-> [run |-> run, entity |-> entity, version |-> c.version]]

StoredEvents(evs) == {[id |-> evs[n].id, run |-> evs[n].run, host |-> evs[n].host] : n \in DOMAIN evs}

S0Decision(i) ==
    Combine(i.fast, i.fusion.fusion, i.input.id, i.input.config,
            ExpectedSupersedes(i.input.id, <<world.meta.run, i.input.entity>>))

S0Runtime(i) ==
    RuntimeOf(i.fast, i.fusion.fusion, i.fusion.trace, world.fusionConfig,
              world.meta.run, i.input.entity)

S0Submission(i) ==
    [id |-> i.input.id, scope |-> <<world.meta.run, i.input.entity>>,
     supersedes |-> S0Decision(i).supersedes, decision |-> S0Decision(i),
     runtime |-> S0Runtime(i), run |-> world.meta.run, meta |-> world.meta, saveRun |-> TRUE,
     events |-> StoredEvents(S0Events), coherent |-> SnapshotValid(S0Decision(i), S0Runtime(i)),
     basis |-> i.basis]

HybridStageOK(i) ==
    /\ Resolvable(i.input.id, <<world.meta.run, i.input.entity>>)
    /\ CombineAccepts(i.fast, i.fusion.fusion)
    /\ DecisionValid(S0Decision(i))

Persist(p) ==
    /\ inv[p].phase = "ready"
    /\ IF /\ HybridStageOK(inv[p])
          /\ ResultScopeValid(world.meta.run, world.meta.target, StoredEvents(S0Events),
                              S0Runtime(inv[p]), S0Decision(inv[p]))
         THEN Submit(p, S0Submission(inv[p]))
         ELSE UNCHANGED storeVars
    /\ inv' = [inv EXCEPT ![p] = Gone(p)]
    /\ UNCHANGED <<files, runner>>

-----------------------------------------------------------------------------
PipelineInit ==
    /\ runner = RunnerIdle
    /\ inv = [p \in Procs |-> NoInvocation]

-----------------------------------------------------------------------------
\* The decision a run is meant to have, computed from the raw records and the
\* rows of the export alone.  A selection written by hand may name any hit.
S0Expected(d, csv) ==
    LET direct == [h \in {csv[n].host : n \in DOMAIN csv} |-> h]
        times  == ReferenceFastTimes(csv, files.config, direct, d.entity)
        fused  == ReferenceS0Time(world.meta, world.jsonl, world.fusionConfig)
        known  == {d.detectorTime, d.fusionTime} \ {None}
    IN  /\ ~world.hand =>
              /\ d.fast = IF times = {} THEN "miss" ELSE "detected"
              /\ d.detectorTime = IF times = {} THEN None ELSE Min(times)
        /\ d.fusion = IF ~Covered(world.meta) THEN "not_evaluated"
                      ELSE IF fused = None THEN "miss" ELSE "detected"
        /\ d.fusionTime = IF Covered(world.meta) THEN fused ELSE None
        /\ d.te = IF known = {} \/ d.fusion = "not_evaluated" THEN None ELSE Min(known)
=============================================================================
