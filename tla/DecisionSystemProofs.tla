------------------------- MODULE DecisionSystemProofs -------------------------
(***************************************************************************)
(* Proofs about the commands around the decision store, for every set of   *)
(* scenarios that satisfies the assumptions of the modules: what each      *)
(* command reads, locks, writes and submits, that the store is sound with  *)
(* them as its callers, that its decisions are those the references find,  *)
(* and that the Evidence of a Run is, too.                                 *)
(***************************************************************************)
EXTENDS DecisionSystem, DecisionStoreProofs, AlgorithmProofs

LEMMA RecordThere ==
    ASSUME NullIsNoFunction, NEW r, r = [x \in DOMAIN r |-> r[x]]
    PROVE  r # None
BY Zenon DEF NullIsNoFunction

-----------------------------------------------------------------------------
(***************************************************************************)
(* The commands around the store: what each of them relies on              *)
(***************************************************************************)

\* What the scenario gives stays true: nobody writes it.
GivenSound ==
    /\ cast.procs \subseteq Procs /\ cast.readers \subseteq Readers
    /\ world # None =>
          /\ episode = None
          /\ \A input \in world.inputs :
                input.id \in Ids /\ <<world.meta.run, input.entity>> \in Scopes
    /\ episode # None =>
          /\ Scope \in Scopes
          /\ \A cmd \in episode.commands : cmd.dir \in Directories
          /\ \A cmd \in episode.commands, at \in episode.clock :
                <<"R1", at, cmd.config.version, cmd.fast.detection.status>> \in Ids

InvocationRecord(i) ==
    [phase |-> i.phase, input |-> i.input, fusion |-> i.fusion, fast |-> i.fast,
     basis |-> i.basis, count |-> i.count]

\* An invocation past its fusion serves one of the inputs of the run.
InvocationsSound ==
    /\ DOMAIN inv = Procs
    /\ \A p \in Procs :
          /\ inv[p] = InvocationRecord(inv[p])
          /\ inv[p].phase \in {"fused", "ready"} => inv[p].input \in world.inputs

RunnerRecord(r) == [phase |-> r.phase, rows |-> r.rows, trace |-> r.trace]

\* The fast runner links its trace only over the hits it names.
FastSound ==
    world # None =>
        /\ DOMAIN files = {"csv", "config", "hits", "trace", "selection"}
        /\ files.trace # None => files.hits = files.trace.output
        /\ runner = RunnerRecord(runner)
        /\ runner.phase # "idle" => files.trace = None
        /\ runner.phase = "linked" => files.hits = runner.trace.output

-----------------------------------------------------------------------------
ReplayRecord(c) == [at |-> c.at, out |-> c.out]

ReplayedRecord(f) ==
    [result |-> f.result, stopping |-> f.stopping, provenance |-> f.provenance]

\* The replay links its three files in their order, and nobody writes in between.
ReplaySound ==
    /\ replay = ReplayRecord(replay) /\ replay.at \in 0..3
    /\ replayed = ReplayedRecord(replayed)
    /\ replay.at > 0 => /\ replay.out.result # None /\ replay.out.stopping # None
                        /\ replayed.provenance = None
    /\ replay.at > 1 => replayed.result = replay.out.result
    /\ replay.at > 2 => replayed.stopping = replay.out.stopping
    /\ replayed.provenance # None => ReplayLoads

-----------------------------------------------------------------------------
\* How far a handoff is, by what is there already.
FilesMade     == {"persist", "persisting", "record"}
DecisionMade  == FilesMade \cup {"decision"}
StoppingThere == DecisionMade \cup {"completed", "decide"}
ResultThere   == StoppingThere \cup {"stopping"}
Fused         == ResultThere \cup {"result"}

CommandRecord(h) ==
    [phase |-> h.phase, cmd |-> h.cmd, at |-> h.at, out |-> h.out,
     decision |-> h.decision, prior |-> h.prior, count |-> h.count]

DirectoryRecord(d) ==
    [trace |-> d.trace, torn |-> d.torn, result |-> d.result, stopping |-> d.stopping,
     decision |-> d.decision]

EntryRecord(r) ==
    [stage |-> r.stage, identity |-> r.identity, result |-> r.result,
     stopping |-> r.stopping, decision |-> r.decision, persisted |-> r.persisted]

\* The table holds this very decision.
InTable(table, decision) ==
    table[decision.id] # None /\ table[decision.id].decision = decision

\* A record of a decision names the files of its directory, and they are final;
\* one that says persisted names what the store holds.
EntrySound(r, files3, table) ==
    /\ r = EntryRecord(r)
    /\ r.result # None /\ r.result = files3.result
    /\ r.stopping # None /\ r.stopping = files3.stopping
    /\ r.decision # None /\ r.decision = files3.decision
    /\ r.decision.id \in Ids
    /\ r.persisted => InTable(table, r.decision)

IsTrace(s) == s \in Seq({s[i] : i \in DOMAIN s})

DirectorySound(d, table) ==
    /\ d = DirectoryRecord(d) /\ IsTrace(d.trace)
    /\ \A i \in DOMAIN d.trace :
          d.trace[i].stage = "decision_recorded" => EntrySound(d.trace[i], d, table)

\* The files a handoff has published are the ones of its results.
OutputSound(h, d) ==
    /\ h.phase \in Fused => FusionJson(h.out.fusion) # None /\ h.out.trace # None
    /\ h.phase \in ResultThere => d.result = FusionJson(h.out.fusion)
    /\ h.phase \in StoppingThere => d.stopping = h.out.trace
    /\ h.phase \in FilesMade => d.decision = h.decision

\* A handoff that found its directory complete repeats what was recorded there.
PriorSound(h, d) ==
    /\ h.phase \in FilesMade
    /\ h.decision = h.prior.decision
    /\ h.prior.stage = "decision_recorded"
    /\ \E i \in DOMAIN d.trace : d.trace[i] = h.prior

\* A command holds the lock of its directory; what it submits is its decision,
\* and it records as persisted only what the store has.
CommandSound(p, h, d, lock, table, t) ==
    /\ h.cmd \in episode.commands
    /\ lock[h.cmd.dir] = p
    /\ h.phase \notin {"input", "reject"} => h.at \in episode.clock
    /\ IF h.prior = None THEN OutputSound(h, d) ELSE PriorSound(h, d)
    /\ h.phase \in DecisionMade => h.decision # None /\ h.decision.id \in Ids
    /\ h.phase = "persisting" => t.sub.id = h.decision.id /\ t.sub.decision = h.decision
    /\ h.phase = "record" /\ (h.cmd.connected \/ h.prior # None) => InTable(table, h.decision)

HandoffShape ==
    /\ DOMAIN ho = Procs /\ \A p \in Procs : ho[p] = CommandRecord(ho[p])
    /\ DOMAIN dir = Directories /\ DOMAIN dirLock = Directories
    /\ validation # None => validation \in episode.clock
    /\ episode = None => \A p \in Procs : ho[p].phase = "idle"

HandoffSound ==
    /\ HandoffShape
    /\ \A d \in Directories : DirectorySound(dir[d], decisions)
    /\ \A p \in Procs : ho[p].phase # "idle" =>
          CommandSound(p, ho[p], dir[ho[p].cmd.dir], dirLock, decisions, tx[p])

CommandsInv ==
    /\ GivenSound /\ InvocationsSound /\ FastSound /\ ReplaySound /\ HandoffSound
    /\ StoreInv /\ ReadsAreOfOneHead /\ AnswersHold

-----------------------------------------------------------------------------
\* Nobody writes what the scenario gives.
LEMMA NextKeepsGiven ==
    ASSUME [Next]_vars
    PROVE  UNCHANGED given
<1>1. CASE UNCHANGED vars
  BY <1>1 DEF vars
<1>2. CASE Fast
  BY <1>2 DEF Fast, FastOnly
<1>3. CASE Replaying
  BY <1>3 DEF Replaying, ReplayOnly
<1>4. CASE Store
  BY <1>4 DEF Store, StoreOnly
<1>5. CASE Feeding
  BY <1>5 DEF Feeding, FeedOnly
<1>6. ASSUME NEW p \in cast.procs, Pipeline(p)
      PROVE  UNCHANGED given
  BY <1>6 DEF Pipeline, FastOnly, PipelineOnly
<1>7. ASSUME NEW p \in cast.procs, Handoff(p)
      PROVE  UNCHANGED given
  BY <1>7 DEF Handoff, HandoffOnly
<1>8. ASSUME NEW e \in cast.executions, Telemetry(e)
      PROVE  UNCHANGED given
  BY <1>8 DEF Telemetry, TelemetryOnly
<1> QED  BY <1>1, <1>2, <1>3, <1>4, <1>5, <1>6, <1>7, <1>8 DEF Next

LEMMA GivenStays ==
    ASSUME GivenSound, UNCHANGED given
    PROVE  GivenSound'
BY DEF GivenSound, given, Scope

LEMMA GivenInitially ==
    ASSUME Init
    PROVE  GivenSound
<1>1. PICK s \in Scenarios :
          /\ world = s.world /\ episode = s.episode
          /\ cast = [readers |-> s.readers, procs |-> s.procs,
                     executions |-> IF s.watch = None THEN {} ELSE DOMAIN s.watch.attempts]
  BY DEF Init
<1>2. cast.procs = s.procs /\ cast.readers = s.readers
  BY <1>1
<1> QED  BY <1>1, <1>2, ScenarioAssumption DEF GivenSound, Scope

-----------------------------------------------------------------------------
\* The invocations of the pipeline.
LEMMA InvocationsInitially ==
    ASSUME Init
    PROVE  InvocationsSound
BY DEF Init, PipelineInit, InvocationsSound, InvocationRecord, NoInvocation

LEMMA InvocationsFrame ==
    ASSUME InvocationsSound, inv' = inv, UNCHANGED given
    PROVE  InvocationsSound'
BY DEF InvocationsSound, given

LEMMA InvocationOfOne ==
    ASSUME InvocationsSound, UNCHANGED given, NEW p \in Procs, NEW i,
           inv' = [inv EXCEPT ![p] = i], i = InvocationRecord(i),
           i.phase \in {"fused", "ready"} => i.input \in world.inputs
    PROVE  InvocationsSound'
<1>1. world' = world
  BY DEF given
<1>2. DOMAIN inv' = Procs
  BY DEF InvocationsSound
<1>3. ASSUME NEW q \in Procs
      PROVE  /\ inv'[q] = InvocationRecord(inv'[q])
             /\ inv'[q].phase \in {"fused", "ready"} => inv'[q].input \in world.inputs
  <2>1. CASE q = p
    <3>1. inv'[q] = i
      BY <2>1 DEF InvocationsSound
    <3> QED  BY <3>1
  <2>2. CASE q # p
    <3>1. inv'[q] = inv[q]
      BY <2>2 DEF InvocationsSound
    <3> QED  BY <3>1 DEF InvocationsSound
  <2> QED  BY <2>1, <2>2
<1> QED  BY <1>1, <1>2, <1>3 DEF InvocationsSound

LEMMA InvocationStep ==
    ASSUME InvocationsSound, UNCHANGED given, NEW p \in Procs, Pipeline(p)
    PROVE  InvocationsSound'
<1>0. DEFINE gone(n) == [phase |-> "idle", input |-> None, fusion |-> None, fast |-> None,
                         basis |-> None, count |-> n]
<1>e. ASSUME NEW n, inv' = [inv EXCEPT ![p] = gone(n)]
      PROVE  InvocationsSound'
  <2>1. gone(n).phase = "idle" /\ gone(n) = InvocationRecord(gone(n))
    BY DEF InvocationRecord
  <2> HIDE DEF gone
  <2> QED  BY <1>e, <2>1, InvocationOfOne
<1>1. CASE \E input \in world.inputs : Invoke(p, input)
  <2>1. PICK input \in world.inputs : Invoke(p, input)
    BY <1>1
  <2>2. CASE inv' = [inv EXCEPT ![p] = [NoInvocation EXCEPT !.count = inv[p].count + 1]]
    <3>1. [NoInvocation EXCEPT !.count = inv[p].count + 1] = gone(inv[p].count + 1)
      BY DEF NoInvocation
    <3> QED  BY <2>2, <3>1, <1>e
  <2>3. CASE inv' = [inv EXCEPT ![p] =
                       [phase |-> "fused", input |-> input, fusion |-> FusionOutput(input.entity),
                        fast |-> None, basis |-> None, count |-> inv[p].count + 1]]
    <3> DEFINE i == [phase |-> "fused", input |-> input, fusion |-> FusionOutput(input.entity),
                     fast |-> None, basis |-> None, count |-> inv[p].count + 1]
    <3>1. i.input = input /\ i = InvocationRecord(i)
      BY DEF InvocationRecord
    <3>2. inv' = [inv EXCEPT ![p] = i]
      BY <2>3
    <3> HIDE DEF i
    <3> QED  BY <3>1, <3>2, InvocationOfOne
  <2> QED  BY <2>1, <2>2, <2>3 DEF Invoke
<1>2. CASE LoadFast(p)
  <2>1. CASE inv' = [inv EXCEPT ![p] = Gone(p)]
    <3>1. Gone(p) = gone(inv[p].count)
      BY DEF Gone, NoInvocation
    <3> QED  BY <2>1, <3>1, <1>e
  <2>2. CASE \E fast, basis :
               inv' = [inv EXCEPT ![p] = [inv[p] EXCEPT !.phase = "ready", !.fast = fast,
                                                         !.basis = basis]]
    <3>1. PICK fast, basis :
               inv' = [inv EXCEPT ![p] = [inv[p] EXCEPT !.phase = "ready", !.fast = fast,
                                                         !.basis = basis]]
      BY <2>2, Zenon
    <3> DEFINE i == [inv[p] EXCEPT !.phase = "ready", !.fast = fast, !.basis = basis]
    <3>2. inv[p] = InvocationRecord(inv[p]) /\ inv[p].phase = "fused"
      BY <1>2 DEF InvocationsSound, LoadFast
    <3>3. i = [InvocationRecord(inv[p]) EXCEPT !.phase = "ready", !.fast = fast, !.basis = basis]
      BY <3>2, Zenon
    <3> HIDE DEF i
    <3>4. i = InvocationRecord(i) /\ i.input = inv[p].input
      BY <3>3 DEF InvocationRecord
    <3>5. i.input \in world.inputs
      BY <3>2, <3>4 DEF InvocationsSound
    <3>6. inv' = [inv EXCEPT ![p] = i]
      BY <3>1, Zenon DEF i
    <3> QED  BY <3>4, <3>5, <3>6, InvocationOfOne
  <2>3. CASE FastStageOK(inv[p].input.entity)
    <3> HIDE DEF Adapt, FastStageOK
    <3>1. inv' = [inv EXCEPT ![p] =
                    [inv[p] EXCEPT !.phase = "ready",
                                   !.fast = Adapt(files, inv[p].input.entity, files.selection),
                                   !.basis = [path |-> "s0", csv |-> files.csv]]]
      BY <1>2, <2>3, Zenon DEF LoadFast
    <3> QED  BY <3>1, <2>2, Zenon
  <2>4. CASE ~FastStageOK(inv[p].input.entity)
    BY <1>2, <2>1, <2>4 DEF LoadFast
  <2> QED  BY <2>3, <2>4
<1>3. CASE Persist(p)
  <2>1. inv' = [inv EXCEPT ![p] = Gone(p)]
    BY <1>3 DEF Persist
  <2>2. Gone(p) = gone(inv[p].count)
    BY DEF Gone, NoInvocation
  <2> QED  BY <2>1, <2>2, <1>e
<1> QED  BY <1>1, <1>2, <1>3 DEF Pipeline

-----------------------------------------------------------------------------
\* The fast runner.
FastFields == {"csv", "config", "hits", "trace", "selection"}

LEMMA FileChange ==
    ASSUME NEW f, DOMAIN f = FastFields, NEW x \in FastFields, NEW v, NEW g, g = [f EXCEPT ![x] = v]
    PROVE  DOMAIN g = FastFields /\ g[x] = v /\ \A y \in FastFields \ {x} : g[y] = f[y]
OBVIOUS

LEMMA FastInitially ==
    ASSUME Init
    PROVE  FastSound
<1> SUFFICES ASSUME world # None
             PROVE  /\ DOMAIN files = {"csv", "config", "hits", "trace", "selection"}
                    /\ files.trace # None => files.hits = files.trace.output
                    /\ runner = RunnerRecord(runner)
                    /\ runner.phase # "idle" => files.trace = None
                    /\ runner.phase = "linked" => files.hits = runner.trace.output
  BY DEF FastSound
<1>1. PICK s \in Scenarios : world = s.world /\ files = s.files
  BY DEF Init
<1>2. runner = [phase |-> "idle", rows |-> <<>>, trace |-> None]
  BY DEF Init, PipelineInit, RunnerIdle
<1>3. runner = RunnerRecord(runner) /\ runner.phase = "idle"
  BY <1>2 DEF RunnerRecord
<1> QED  BY <1>1, <1>3, ScenarioAssumption

LEMMA FastFrame ==
    ASSUME FastSound, UNCHANGED <<files, runner, given>>
    PROVE  FastSound'
BY DEF FastSound, given

LEMMA FastStep ==
    ASSUME FastSound, UNCHANGED given, Fast
    PROVE  FastSound'
<1>0. /\ world # None /\ world' = world
      /\ DOMAIN files = FastFields
      /\ files.trace # None => files.hits = files.trace.output
      /\ runner = RunnerRecord(runner)
      /\ runner.phase # "idle" => files.trace = None
      /\ runner.phase = "linked" => files.hits = runner.trace.output
  BY DEF Fast, FastOnly, FastSound, given, FastFields
<1> DEFINE Good == /\ DOMAIN files' = FastFields
                   /\ files'.trace # None => files'.hits = files'.trace.output
                   /\ runner' = RunnerRecord(runner')
                   /\ runner'.phase # "idle" => files'.trace = None
                   /\ runner'.phase = "linked" => files'.hits = runner'.trace.output
<1> SUFFICES Good
  BY <1>0 DEF FastSound, FastFields
<1>f. "hits" \in FastFields /\ "trace" \in FastFields /\ "csv" \in FastFields
      /\ "selection" \in FastFields
  BY DEF FastFields
<1>r. RunnerIdle = RunnerRecord(RunnerIdle) /\ RunnerIdle.phase = "idle"
  BY DEF RunnerIdle, RunnerRecord
<1>1. CASE FastRead
  <2>1. /\ files' = files /\ files.trace = None
        /\ runner' = [phase |-> "read", rows |-> files.csv, trace |-> None]
    BY <1>1 DEF FastRead
  <2>2. runner' = RunnerRecord(runner') /\ runner'.phase = "read"
    BY <2>1 DEF RunnerRecord
  <2> QED  BY <1>0, <2>1, <2>2
<1>2. CASE FastStage
  <2>1. /\ files' = files /\ runner.phase = "read"
        /\ \E t : runner' = [phase |-> "staged", rows |-> runner.rows, trace |-> t]
    BY <1>2 DEF FastStage
  <2>2. runner' = RunnerRecord(runner') /\ runner'.phase = "staged"
    BY <2>1 DEF RunnerRecord
  <2> QED  BY <1>0, <2>1, <2>2
<1>3. CASE LinkHits
  <2>1. /\ runner.phase = "staged"
        /\ files' = [files EXCEPT !["hits"] = runner.trace.output]
        /\ runner' = [runner EXCEPT !.phase = "linked"]
    BY <1>3 DEF LinkHits
  <2>2. DOMAIN files' = FastFields /\ files'.hits = runner.trace.output /\ files'.trace = files.trace
    BY <1>0, <1>f, <2>1, FileChange
  <2>3. runner' = [RunnerRecord(runner) EXCEPT !.phase = "linked"]
    BY <1>0, <2>1, Zenon
  <2>4. runner' = RunnerRecord(runner') /\ runner'.trace = runner.trace
    BY <2>3 DEF RunnerRecord
  <2> QED  BY <1>0, <2>1, <2>2, <2>4
<1>4. CASE LinkTrace
  <2>1. /\ runner.phase = "linked" /\ files' = [files EXCEPT !["trace"] = runner.trace]
        /\ runner' = RunnerIdle
    BY <1>4 DEF LinkTrace
  <2>2. DOMAIN files' = FastFields /\ files'.trace = runner.trace /\ files'.hits = files.hits
    BY <1>0, <1>f, <2>1, FileChange
  <2> QED  BY <1>0, <1>r, <2>1, <2>2
<1>5. CASE FastRollback
  <2>1. /\ runner.phase = "linked" /\ files' = [files EXCEPT !["hits"] = None]
        /\ runner' = RunnerIdle
    BY <1>5 DEF FastRollback
  <2>2. DOMAIN files' = FastFields /\ files'.trace = files.trace
    BY <1>0, <1>f, <2>1, FileChange
  <2> QED  BY <1>0, <1>r, <2>1, <2>2
<1>6. CASE FastCrash
  BY <1>0, <1>r, <1>6 DEF FastCrash
<1>7. CASE RewriteCsv
  <2>1. files' = [files EXCEPT !["csv"] = world.export] /\ runner' = runner
    BY <1>7 DEF RewriteCsv
  <2>2. DOMAIN files' = FastFields /\ files'.trace = files.trace /\ files'.hits = files.hits
    BY <1>0, <1>f, <2>1, FileChange
  <2> QED  BY <1>0, <2>1, <2>2
<1>8. CASE FastSelect(world.meta.target)
  <2>1. runner' = runner
        /\ \E v : files' = [files EXCEPT !["selection"] = v]
    BY <1>8 DEF FastSelect
  <2>2. DOMAIN files' = FastFields /\ files'.trace = files.trace /\ files'.hits = files.hits
    BY <1>0, <1>f, <2>1, FileChange
  <2> QED  BY <1>0, <2>1, <2>2
<1> QED  BY <1>1, <1>2, <1>3, <1>4, <1>5, <1>6, <1>7, <1>8 DEF Fast

-----------------------------------------------------------------------------
\* The offline replay.
LEMMA NamedResultJson ==
    ASSUME NullIsNoFunction, NEW r, NEW run, NEW entity, NEW c
    PROVE  FusionJson(NamedResult(r, run, entity, c)) # None
<1> DEFINE n == NamedResult(r, run, entity, c)
           j == FusionJson(n)
<1>1. \E time, episodes : j = [n EXCEPT !.time = time, !.episodes = episodes]
  <2> HIDE DEF n
  <2> QED  BY Zenon DEF FusionJson
<1>2. PICK time, episodes : j = [n EXCEPT !.time = time, !.episodes = episodes]
  BY <1>1, Zenon
<1> HIDE DEF j
<1>3. j = [x \in DOMAIN j |-> j[x]]
  BY <1>2 DEF NamedResult
<1> HIDE DEF n
<1>4. j # None
  BY <1>3 DEF NullIsNoFunction
<1> QED  BY <1>4 DEF j, n

LEMMA NamedTraceThere ==
    ASSUME NullIsNoFunction, NEW points, NEW run, NEW entity, NEW c
    PROVE  NamedTrace(points, run, entity, c) # None
BY DEF NullIsNoFunction, NamedTrace

LEMMA CausalOutputThere ==
    ASSUME NullIsNoFunction, NEW c, NEW scheduled, NEW meta
    PROVE  /\ FusionJson(CausalOutput(c, scheduled, meta).fusion) # None
           /\ CausalOutput(c, scheduled, meta).trace # None
<1> DEFINE replayed1 == CausalReplay(c, scheduled, meta.start, meta.end)
<1>1. /\ CausalOutput(c, scheduled, meta).fusion
            = NamedResult(FusionResult(replayed1), meta.run, meta.target, c)
      /\ CausalOutput(c, scheduled, meta).trace
            = NamedTrace(replayed1.stopping.trace, meta.run, meta.target, c)
  <2> HIDE DEF replayed1
  <2> QED  BY DEF CausalOutput, replayed1
<1> HIDE DEF replayed1
<1> QED  BY <1>1, NamedResultJson, NamedTraceThere

LEMMA ReplayInitially ==
    ASSUME Init
    PROVE  ReplaySound
BY DEF Init, ReplayIdle, NothingReplayed, ReplaySound, ReplayRecord, ReplayedRecord

LEMMA ReplayFrame ==
    ASSUME ReplaySound, UNCHANGED replayVars
    PROVE  ReplaySound'
BY DEF ReplaySound, replayVars, ReplayLoads

LEMMA ReplayStep ==
    ASSUME NullIsNoFunction, ReplaySound, Replaying
    PROVE  ReplaySound'
<1> DEFINE Good == /\ replay' = ReplayRecord(replay') /\ replay'.at \in 0..3
                   /\ replayed' = ReplayedRecord(replayed')
                   /\ replay'.at > 0 => /\ replay'.out.result # None
                                        /\ replay'.out.stopping # None
                                        /\ replayed'.provenance = None
                   /\ replay'.at > 1 => replayed'.result = replay'.out.result
                   /\ replay'.at > 2 => replayed'.stopping = replay'.out.stopping
                   /\ replayed'.provenance # None =>
                        /\ replayed'.result # None /\ replayed'.stopping # None
                        /\ replayed'.provenance.result = replayed'.result
                        /\ replayed'.provenance.stopping = replayed'.stopping
<1>0. /\ replay = ReplayRecord(replay) /\ replay.at \in 0..3
      /\ replayed = ReplayedRecord(replayed)
      /\ replay.at > 0 => /\ replay.out.result # None /\ replay.out.stopping # None
                          /\ replayed.provenance = None
      /\ replay.at > 1 => replayed.result = replay.out.result
      /\ replay.at > 2 => replayed.stopping = replay.out.stopping
      /\ replayed.provenance # None =>
           /\ replayed.result # None /\ replayed.stopping # None
           /\ replayed.provenance.result = replayed.result
           /\ replayed.provenance.stopping = replayed.stopping
  BY DEF ReplaySound, ReplayLoads
<1> SUFFICES Good
  BY DEF ReplaySound, ReplayLoads
<1>i. ReplayIdle = ReplayRecord(ReplayIdle) /\ ReplayIdle.at = 0
  BY DEF ReplayIdle, ReplayRecord
<1>n. /\ NothingReplayed = ReplayedRecord(NothingReplayed)
      /\ NothingReplayed.provenance = None
  BY DEF NothingReplayed, ReplayedRecord
<1>1. CASE RunReplay
  <2> DEFINE s == Scheduled(episode.artifact.evidences,
                            Envelope(episode.built, episode.meta, episode.selector,
                                     episode.approved).end)
             out == CausalOutput(episode.replayConfig, s, episode.meta)
             v == Provenance(episode.replayConfig, out, episode.meta)
  <2>1. replayed = NothingReplayed /\ replay' = [at |-> 1, out |-> v] /\ replayed' = replayed
    BY <1>1 DEF RunReplay
  <2>2. v.result = FusionJson(out.fusion) /\ v.stopping = out.trace
    <3> HIDE DEF out
    <3> QED  BY DEF Provenance
  <2>3. v.result # None /\ v.stopping # None
    <3> HIDE DEF s, v
    <3> QED  BY <2>2, CausalOutputThere
  <2> HIDE DEF v
  <2>4. replay' = ReplayRecord(replay') /\ replay'.at = 1 /\ replay'.out = v
    BY <2>1 DEF ReplayRecord
  <2> QED  BY <1>n, <2>1, <2>3, <2>4
<1>2. CASE LinkReplayFile
  <2>1. CASE replay.at = 1
    <3>1. /\ replayed' = [replayed EXCEPT !["result"] = replay.out.result]
          /\ replay' = [replay EXCEPT !.at = 2]
      BY <1>2, <2>1 DEF LinkReplayFile, PublishOrder
    <3>2. /\ replayed' = [ReplayedRecord(replayed) EXCEPT !["result"] = replay.out.result]
          /\ replay' = [ReplayRecord(replay) EXCEPT !.at = 2]
      BY <1>0, <3>1, Zenon
    <3>3. /\ replayed' = ReplayedRecord(replayed') /\ replayed'.result = replay.out.result
          /\ replayed'.provenance = replayed.provenance
      BY <3>2 DEF ReplayedRecord
    <3>4. replay' = ReplayRecord(replay') /\ replay'.at = 2 /\ replay'.out = replay.out
      BY <3>2 DEF ReplayRecord
    <3> QED  BY <1>0, <2>1, <3>3, <3>4
  <2>2. CASE replay.at = 2
    <3>1. /\ replayed' = [replayed EXCEPT !["stopping"] = replay.out.stopping]
          /\ replay' = [replay EXCEPT !.at = 3]
      BY <1>2, <2>2 DEF LinkReplayFile, PublishOrder
    <3>2. /\ replayed' = [ReplayedRecord(replayed) EXCEPT !["stopping"] = replay.out.stopping]
          /\ replay' = [ReplayRecord(replay) EXCEPT !.at = 3]
      BY <1>0, <3>1, Zenon
    <3>3. /\ replayed' = ReplayedRecord(replayed') /\ replayed'.stopping = replay.out.stopping
          /\ replayed'.provenance = replayed.provenance /\ replayed'.result = replayed.result
      BY <3>2 DEF ReplayedRecord
    <3>4. replay' = ReplayRecord(replay') /\ replay'.at = 3 /\ replay'.out = replay.out
      BY <3>2 DEF ReplayRecord
    <3> QED  BY <1>0, <2>2, <3>3, <3>4
  <2>3. CASE replay.at = 3
    <3>1. /\ replayed' = [replayed EXCEPT !["provenance"] = replay.out]
          /\ replay' = ReplayIdle
      BY <1>2, <2>3 DEF LinkReplayFile, PublishOrder
    <3>2. replayed' = [ReplayedRecord(replayed) EXCEPT !["provenance"] = replay.out]
      BY <1>0, <3>1, Zenon
    <3>3. /\ replayed' = ReplayedRecord(replayed') /\ replayed'.provenance = replay.out
          /\ replayed'.stopping = replayed.stopping /\ replayed'.result = replayed.result
      BY <3>2 DEF ReplayedRecord
    <3> QED  BY <1>0, <1>i, <2>3, <3>1, <3>3
  <2>4. replay.at \in {1, 2, 3}
    BY <1>0, <1>2 DEF LinkReplayFile
  <2> QED  BY <2>1, <2>2, <2>3, <2>4
<1>3. CASE ReplayRollback
  BY <1>i, <1>n, <1>3 DEF ReplayRollback
<1>4. CASE ReplayCrash
  BY <1>0, <1>i, <1>4 DEF ReplayCrash
<1> QED  BY <1>1, <1>2, <1>3, <1>4 DEF Replaying

-----------------------------------------------------------------------------
LEMMA MaxIsLargest ==
    ASSUME NEW n \in Nat, NEW S \in SUBSET (1..n), S # {}
    PROVE  Max(S) \in S /\ \A y \in S : Max(S) >= y
<1> QED BY LargestExists DEF Max

-----------------------------------------------------------------------------
\* The directories of the handoffs.
Lengthens(t, s, x) ==
    /\ IsTrace(t)
    /\ DOMAIN s \subseteq DOMAIN t
    /\ \A i \in DOMAIN s : t[i] = s[i]
    /\ \A i \in DOMAIN t : i \in DOMAIN s \/ t[i] = x

LEMMA AppendAny ==
    ASSUME NEW s, IsTrace(s), NEW x
    PROVE  Lengthens(Append(s, x), s, x)
<1>0. PICK t : t = Append(s, x)
  OBVIOUS
<1> DEFINE S == {s[i] : i \in DOMAIN s} \cup {x}
<1>1. s \in Seq(S) /\ x \in S
  BY DEF IsTrace
<1> HIDE DEF S
<1>2. /\ t \in Seq(S) /\ Len(t) = Len(s) + 1 /\ Len(s) \in Nat
      /\ DOMAIN t = 1..Len(t) /\ DOMAIN s = 1..Len(s)
      /\ \A i \in 1..Len(s) : t[i] = s[i]
      /\ t[Len(s) + 1] = x
  BY <1>0, <1>1
<1>3. \A i \in 1..Len(t) : t[i] \in {t[j] : j \in DOMAIN t}
  BY <1>2
<1>4. t \in Seq({t[i] : i \in DOMAIN t})
  <2>1. PICK k, T : k = Len(t) /\ T = {t[j] : j \in DOMAIN t}
    OBVIOUS
  <2>2. t = [n \in 1..k |-> t[n]] /\ k \in Nat
    BY <1>2, <2>1
  <2>3. \A n \in 1..k : t[n] \in T
    BY <1>3, <2>1
  <2>4. t \in Seq(T)
    BY ONLY <2>2, <2>3, IsSequence
  <2> QED  BY <2>1, <2>4
<1> QED  BY <1>0, <1>2, <1>4 DEF IsTrace, Lengthens

DirectoryFiles == {"result", "stopping", "decision"}

Written(e, d, f, v) == e = [d EXCEPT ![f] = v]

LEMMA PublicationSound ==
    ASSUME NEW table, NEW d, DirectorySound(d, table), NEW f \in DirectoryFiles,
           NEW v, v # None, d[f] \in {None, v}, NEW e, Written(e, d, f, v)
    PROVE  /\ DirectorySound(e, table)
           /\ e.trace = d.trace /\ e[f] = v
           /\ \A g \in DirectoryFiles \ {f} : e[g] = d[g]
<1>1. d = DirectoryRecord(d)
  BY DEF DirectorySound
<1>2. e = [DirectoryRecord(d) EXCEPT ![f] = v]
  BY <1>1, Zenon DEF Written
<1>3. e = DirectoryRecord(e)
  BY <1>2 DEF DirectoryRecord, DirectoryFiles
<1>4. e.trace = d.trace /\ e[f] = v
  BY <1>2 DEF DirectoryRecord, DirectoryFiles
<1>5. \A g \in DirectoryFiles \ {f} : e[g] = d[g]
  BY <1>2 DEF DirectoryRecord, DirectoryFiles
<1>6. ASSUME NEW i \in DOMAIN d.trace, d.trace[i].stage = "decision_recorded"
      PROVE  EntrySound(d.trace[i], e, table)
  <2>1. EntrySound(d.trace[i], d, table)
    BY <1>6 DEF DirectorySound
  <2>2. /\ d.trace[i].result # None => e.result = d.result \/ d.result = None
        /\ d.trace[i].stopping # None => e.stopping = d.stopping \/ d.stopping = None
        /\ d.trace[i].decision # None => e.decision = d.decision \/ d.decision = None
    BY <1>4, <1>5 DEF DirectoryFiles
  <2> QED  BY <2>1, <2>2 DEF EntrySound
<1>7. DirectorySound(e, table)
  BY <1>3, <1>4, <1>6 DEF DirectorySound
<1> QED  BY <1>4, <1>5, <1>7

LEMMA TearSound ==
    ASSUME NEW table, NEW d, DirectorySound(d, table), NEW v, NEW e, e = [d EXCEPT !.torn = v]
    PROVE  DirectorySound(e, table)
<1>1. d = DirectoryRecord(d)
  BY DEF DirectorySound
<1>2. e = [DirectoryRecord(d) EXCEPT !.torn = v]
  BY <1>1, Zenon
<1>3. /\ e = DirectoryRecord(e) /\ e.trace = d.trace
      /\ e.result = d.result /\ e.stopping = d.stopping /\ e.decision = d.decision
  BY <1>2 DEF DirectoryRecord
<1> QED  BY <1>3 DEF DirectorySound, EntrySound

Appended(e, d, r, v) == e = [d EXCEPT !.trace = Append(d.trace, r), !.torn = v]

LEMMA AppendSound ==
    ASSUME NEW table, NEW d, DirectorySound(d, table), NEW r, NEW v,
           r.stage = "decision_recorded" => EntrySound(r, d, table),
           NEW e, Appended(e, d, r, v)
    PROVE  /\ DirectorySound(e, table)
           /\ DOMAIN d.trace \subseteq DOMAIN e.trace
           /\ \A i \in DOMAIN d.trace : e.trace[i] = d.trace[i]
           /\ \A g \in DirectoryFiles : e[g] = d[g]
<1>1. d = DirectoryRecord(d) /\ IsTrace(d.trace)
  BY DEF DirectorySound
<1>a. PICK t : t = Append(d.trace, r)
  OBVIOUS
<1>2. Lengthens(t, d.trace, r)
  <2>1. Lengthens(Append(d.trace, r), d.trace, r)
    BY <1>1, AppendAny, Zenon
  <2> QED  BY <1>a, <2>1, Zenon
<1>3. e = [DirectoryRecord(d) EXCEPT !.trace = t, !.torn = v]
  BY <1>1, <1>a, Zenon DEF Appended
<1>4. /\ e = DirectoryRecord(e) /\ e.trace = t
      /\ e.result = d.result /\ e.stopping = d.stopping /\ e.decision = d.decision
  BY <1>3 DEF DirectoryRecord
<1>5. ASSUME NEW i \in DOMAIN e.trace, e.trace[i].stage = "decision_recorded"
      PROVE  EntrySound(e.trace[i], e, table)
  <2>1. EntrySound(e.trace[i], d, table)
    <3>1. CASE i \in DOMAIN d.trace
      BY <1>2, <1>4, <1>5, <3>1 DEF DirectorySound, Lengthens
    <3>2. CASE t[i] = r
      BY <1>4, <1>5, <3>2
    <3> QED  BY <1>2, <1>4, <3>1, <3>2 DEF Lengthens
  <2> QED  BY <1>4, <2>1 DEF EntrySound
<1> QED  BY <1>2, <1>4, <1>5 DEF DirectorySound, DirectoryFiles, Lengthens

\* What is in the table stays there.
LEMMA EntryStays ==
    ASSUME DecisionsStay, NEW r, NEW d, EntrySound(r, d, decisions)
    PROVE  EntrySound(r, d, decisions')
BY DEF EntrySound, InTable, DecisionsStay

LEMMA DirectoryStays ==
    ASSUME DecisionsStay, NEW d, DirectorySound(d, decisions)
    PROVE  DirectorySound(d, decisions')
BY EntryStays DEF DirectorySound

-----------------------------------------------------------------------------
\* One handoff process moves, in one directory that is free or its own.
OneMoves(p, d0) ==
    /\ DOMAIN ho' = Procs /\ ho'[p] = CommandRecord(ho'[p])
    /\ \A q \in Procs \ {p} : ho'[q] = ho[q] /\ tx'[q] = tx[q]
    /\ DOMAIN dir' = Directories /\ \A d \in Directories \ {d0} : dir'[d] = dir[d]
    /\ DOMAIN dirLock' = Directories
    /\ \A d \in Directories : dirLock[d] \notin {None, p} => dirLock'[d] = dirLock[d]
    /\ decisions' = decisions
    /\ validation' # None => validation' \in episode.clock

LEMMA OneMoveSound ==
    ASSUME HandoffSound, GivenSound, UNCHANGED given, episode # None,
           NEW p \in Procs, NEW d0 \in Directories, dirLock[d0] \in {None, p},
           OneMoves(p, d0), DirectorySound(dir'[d0], decisions),
           ho'[p].phase # "idle" =>
             /\ ho'[p].cmd.dir = d0
             /\ CommandSound(p, ho'[p], dir'[d0], dirLock', decisions, tx'[p])
    PROVE  HandoffSound'
<1>0. episode' = episode /\ decisions' = decisions
  BY DEF OneMoves, given
<1>1. HandoffShape'
  <2>1. \A q \in Procs : ho'[q] = CommandRecord(ho'[q])
    BY DEF OneMoves, HandoffSound, HandoffShape
  <2> QED  BY <1>0, <2>1 DEF OneMoves, HandoffShape
<1>2. ASSUME NEW d \in Directories
      PROVE  DirectorySound(dir'[d], decisions)
  BY DEF OneMoves, HandoffSound
<1>3. ASSUME NEW q \in Procs, ho'[q].phase # "idle"
      PROVE  CommandSound(q, ho'[q], dir'[ho'[q].cmd.dir], dirLock', decisions, tx'[q])
  <2>1. CASE q = p
    BY <1>3, <2>1
  <2>2. CASE q # p
    <3>1. ho'[q] = ho[q] /\ tx'[q] = tx[q]
      BY <2>2 DEF OneMoves
    <3>2. CommandSound(q, ho[q], dir[ho[q].cmd.dir], dirLock, decisions, tx[q])
      BY <1>3, <3>1 DEF HandoffSound
    <3>3. ho[q].cmd.dir \in Directories /\ dirLock[ho[q].cmd.dir] = q
      BY <3>2 DEF CommandSound, GivenSound
    <3>4. dirLock[ho[q].cmd.dir] \notin {None, p}
      BY <2>2, <3>3, StoreAssumption
    <3>5. dirLock'[ho[q].cmd.dir] = q /\ dir'[ho[q].cmd.dir] = dir[ho[q].cmd.dir]
      BY <3>3, <3>4 DEF OneMoves
    <3> QED  BY <3>1, <3>2, <3>5 DEF CommandSound
  <2> QED  BY <2>1, <2>2
<1>4. \A d \in Directories : DirectorySound(dir[d], decisions)'
  BY <1>0, <1>2 DEF DirectorySound, EntrySound
<1>5. \A q \in Procs : ho'[q].phase # "idle" =>
          CommandSound(q, ho'[q], dir'[ho'[q].cmd.dir], dirLock', decisions', tx'[q])
  BY <1>0, <1>3
<1>6. \A q \in Procs : (ho[q].phase # "idle" =>
          CommandSound(q, ho[q], dir[ho[q].cmd.dir], dirLock, decisions, tx[q]))'
  BY <1>0, <1>5 DEF CommandSound
<1> QED  BY <1>1, <1>4, <1>6 DEF HandoffSound

LEMMA HandoffFrame ==
    ASSUME HandoffSound, UNCHANGED given, UNCHANGED handoffVars, DecisionsStay,
           \A p \in Procs : ho[p].phase = "persisting" => tx'[p].sub = tx[p].sub
    PROVE  HandoffSound'
<1>0. /\ episode' = episode /\ ho' = ho /\ dir' = dir /\ dirLock' = dirLock
      /\ validation' = validation
  BY DEF given, handoffVars
<1>1. HandoffShape'
  BY <1>0 DEF HandoffSound, HandoffShape
<1>2. \A d \in Directories : DirectorySound(dir[d], decisions)'
  <2>1. \A d \in Directories : DirectorySound(dir[d], decisions')
    BY DirectoryStays DEF HandoffSound
  <2> QED  BY <1>0, <2>1 DEF DirectorySound, EntrySound
<1>3. ASSUME NEW p \in Procs, ho[p].phase # "idle"
      PROVE  CommandSound(p, ho[p], dir[ho[p].cmd.dir], dirLock, decisions', tx'[p])
  <2>1. CommandSound(p, ho[p], dir[ho[p].cmd.dir], dirLock, decisions, tx[p])
    BY <1>3 DEF HandoffSound
  <2>2. ho[p].phase = "record" => ho[p].decision.id \in Ids
    BY <2>1 DEF CommandSound, DecisionMade, FilesMade
  <2>3. ho[p].phase = "record" /\ InTable(decisions, ho[p].decision) =>
            InTable(decisions', ho[p].decision)
    BY <2>2 DEF InTable, DecisionsStay
  <2> QED  BY <2>1, <2>3 DEF CommandSound
<1>4. \A p \in Procs : (ho[p].phase # "idle" =>
          CommandSound(p, ho[p], dir[ho[p].cmd.dir], dirLock, decisions, tx[p]))'
  BY <1>0, <1>3 DEF CommandSound
<1> QED  BY <1>1, <1>2, <1>4 DEF HandoffSound

-----------------------------------------------------------------------------
\* What a command at work may rely on, and what it has to leave behind.
LEMMA Working ==
    ASSUME HandoffSound, GivenSound, NEW p \in Procs, ho[p].phase # "idle"
    PROVE  /\ episode # None
           /\ ho[p].cmd.dir \in Directories /\ dirLock[ho[p].cmd.dir] = p
           /\ CommandSound(p, ho[p], dir[ho[p].cmd.dir], dirLock, decisions, tx[p])
           /\ DirectorySound(dir[ho[p].cmd.dir], decisions)
           /\ ho[p] = CommandRecord(ho[p]) /\ DOMAIN ho = Procs
           /\ DOMAIN dir = Directories /\ DOMAIN dirLock = Directories
           /\ validation # None => validation \in episode.clock
<1>1. episode # None /\ ho[p] = CommandRecord(ho[p]) /\ DOMAIN ho = Procs
      /\ DOMAIN dir = Directories /\ DOMAIN dirLock = Directories
      /\ (validation # None => validation \in episode.clock)
  BY DEF HandoffSound, HandoffShape
<1>2. CommandSound(p, ho[p], dir[ho[p].cmd.dir], dirLock, decisions, tx[p])
  BY DEF HandoffSound
<1>3. ho[p].cmd.dir \in Directories /\ dirLock[ho[p].cmd.dir] = p
  BY <1>1, <1>2 DEF CommandSound, GivenSound
<1>4. DirectorySound(dir[ho[p].cmd.dir], decisions)
  BY <1>3 DEF HandoffSound
<1> QED  BY <1>1, <1>2, <1>3, <1>4

Around(p) ==
    /\ DOMAIN dir' = Directories
    /\ \A d \in Directories \ {ho[p].cmd.dir} : dir'[d] = dir[d]
    /\ DirectorySound(dir'[ho[p].cmd.dir], decisions)
    /\ decisions' = decisions /\ \A q \in Procs \ {p} : tx'[q] = tx[q]
    /\ validation' # None => validation' \in episode.clock

LEMMA AroundStill ==
    ASSUME HandoffSound, GivenSound, NEW p \in Procs, ho[p].phase # "idle",
           UNCHANGED <<dir, validation, storeVars>>
    PROVE  Around(p)
BY Working DEF Around, storeVars

LEMMA GotoFields ==
    ASSUME HandoffSound, NEW p \in Procs, NEW x, Goto(p, x)
    PROVE  /\ DOMAIN ho' = Procs /\ \A q \in Procs \ {p} : ho'[q] = ho[q]
           /\ ho'[p] = CommandRecord(ho'[p]) /\ ho'[p].phase = x
           /\ ho'[p].cmd = ho[p].cmd /\ ho'[p].at = ho[p].at /\ ho'[p].out = ho[p].out
           /\ ho'[p].decision = ho[p].decision /\ ho'[p].prior = ho[p].prior
           /\ dirLock' = dirLock
<1>1. DOMAIN ho = Procs /\ ho[p] = CommandRecord(ho[p])
  BY DEF HandoffSound, HandoffShape
<1>2. ho' = [ho EXCEPT ![p] = [ho[p] EXCEPT !.phase = x]] /\ dirLock' = dirLock
  BY DEF Goto
<1>3. DOMAIN ho' = Procs /\ (\A q \in Procs \ {p} : ho'[q] = ho[q])
      /\ ho'[p] = [ho[p] EXCEPT !.phase = x]
  BY <1>1, <1>2
<1>4. PICK h : h = ho'[p]
  OBVIOUS
<1>5. h = [CommandRecord(ho[p]) EXCEPT !.phase = x]
  BY <1>1, <1>3, <1>4, Zenon
<1>6. /\ h = CommandRecord(h) /\ h.phase = x /\ h.cmd = ho[p].cmd /\ h.at = ho[p].at
      /\ h.out = ho[p].out /\ h.decision = ho[p].decision /\ h.prior = ho[p].prior
  BY <1>5 DEF CommandRecord
<1> QED  BY <1>2, <1>3, <1>4, <1>6

LEMMA StaySound ==
    ASSUME HandoffSound, GivenSound, UNCHANGED given, NEW p \in Procs, ho[p].phase # "idle",
           DOMAIN ho' = Procs, \A q \in Procs \ {p} : ho'[q] = ho[q],
           ho'[p] = CommandRecord(ho'[p]), ho'[p].cmd = ho[p].cmd, dirLock' = dirLock,
           Around(p),
           CommandSound(p, ho'[p], dir'[ho[p].cmd.dir], dirLock, decisions, tx'[p])
    PROVE  HandoffSound'
<1>1. /\ episode # None /\ ho[p].cmd.dir \in Directories /\ dirLock[ho[p].cmd.dir] = p
      /\ DOMAIN dirLock = Directories
  BY Working
<1>2. OneMoves(p, ho[p].cmd.dir)
  BY <1>1 DEF OneMoves, Around
<1>3. DirectorySound(dir'[ho[p].cmd.dir], decisions)
  BY DEF Around
<1> QED  BY <1>1, <1>2, <1>3, OneMoveSound

LEMMA LeaveFields ==
    ASSUME HandoffSound, NEW p \in Procs, Leave(p)
    PROVE  /\ DOMAIN ho' = Procs /\ \A q \in Procs \ {p} : ho'[q] = ho[q]
           /\ ho'[p] = CommandRecord(ho'[p]) /\ ho'[p].phase = "idle"
           /\ DOMAIN dirLock' = Directories
           /\ \A d \in Directories : dirLock[d] # p => dirLock'[d] = dirLock[d]
<1>1. DOMAIN ho = Procs
  BY DEF HandoffSound, HandoffShape
<1>2. PICK h : h = [NoCommand EXCEPT !.count = ho[p].count]
  OBVIOUS
<1>3. h = CommandRecord(h) /\ h.phase = "idle"
  BY <1>2 DEF NoCommand, CommandRecord
<1>4. ho' = [ho EXCEPT ![p] = h]
  BY <1>2 DEF Leave
<1>5. DOMAIN ho' = Procs /\ (\A q \in Procs \ {p} : ho'[q] = ho[q]) /\ ho'[p] = h
  BY <1>1, <1>4
<1>6. dirLock' = [d \in Directories |-> IF dirLock[d] = p THEN None ELSE dirLock[d]]
  BY DEF Leave
<1>7. /\ DOMAIN dirLock' = Directories
      /\ \A d \in Directories : dirLock[d] # p => dirLock'[d] = dirLock[d]
  BY <1>6
<1> QED  BY <1>3, <1>5, <1>7

LEMMA LeaveSound ==
    ASSUME HandoffSound, GivenSound, UNCHANGED given, NEW p \in Procs, ho[p].phase # "idle",
           Leave(p), Around(p)
    PROVE  HandoffSound'
<1>1. episode # None /\ ho[p].cmd.dir \in Directories /\ dirLock[ho[p].cmd.dir] = p
  BY Working
<1>2. OneMoves(p, ho[p].cmd.dir) /\ ho'[p].phase = "idle"
  BY <1>1, LeaveFields DEF OneMoves, Around
<1>3. DirectorySound(dir'[ho[p].cmd.dir], decisions)
  BY DEF Around
<1> QED  BY <1>1, <1>2, <1>3, OneMoveSound

\* Going to a phase nothing new is promised in.
LEMMA GotoSound ==
    ASSUME HandoffSound, GivenSound, UNCHANGED given, NEW p \in Procs, ho[p].phase # "idle",
           NEW x, Goto(p, x), Around(p),
           CommandSound(p, ho'[p], dir'[ho[p].cmd.dir], dirLock, decisions, tx'[p])
    PROVE  HandoffSound'
BY GotoFields, StaySound


-----------------------------------------------------------------------------
\* A step that sets several fields of its command.
Edits(p, phase, at, out, decision, prior) ==
    /\ DOMAIN ho' = Procs /\ \A q \in Procs \ {p} : ho'[q] = ho[q]
    /\ ho'[p] = CommandRecord(ho'[p]) /\ ho'[p].cmd = ho[p].cmd
    /\ ho'[p].phase = phase /\ ho'[p].at = at /\ ho'[p].out = out
    /\ ho'[p].decision = decision /\ ho'[p].prior = prior

LEMMA EditFields ==
    ASSUME HandoffSound, NEW p \in Procs, NEW phase, NEW at, NEW out, NEW decision, NEW prior,
           ho' = [ho EXCEPT ![p] = [CommandRecord(ho[p]) EXCEPT
                    !.phase = phase, !.at = at, !.out = out, !.decision = decision,
                    !.prior = prior]]
    PROVE  Edits(p, phase, at, out, decision, prior)
<1>1. DOMAIN ho = Procs /\ ho[p] = CommandRecord(ho[p])
  BY DEF HandoffSound, HandoffShape
<1>2. PICK h : h = [CommandRecord(ho[p]) EXCEPT
                      !.phase = phase, !.at = at, !.out = out, !.decision = decision,
                      !.prior = prior]
  OBVIOUS
<1>3. /\ h = CommandRecord(h) /\ h.cmd = ho[p].cmd
      /\ h.phase = phase /\ h.at = at /\ h.out = out /\ h.decision = decision
      /\ h.prior = prior
  BY <1>2 DEF CommandRecord
<1>4. ho' = [ho EXCEPT ![p] = h]
  BY <1>2, Zenon
<1>5. DOMAIN ho' = Procs /\ (\A q \in Procs \ {p} : ho'[q] = ho[q]) /\ ho'[p] = h
  BY <1>1, <1>4
<1> QED  BY <1>3, <1>5 DEF Edits

LEMMA ExplicitEdits ==
    ASSUME NEW h, h = CommandRecord(h), NEW phase, NEW at, NEW out, NEW decision, NEW prior
    PROVE  /\ [h EXCEPT !.phase = phase, !.at = at]
                = [h EXCEPT !.phase = phase, !.at = at, !.out = h.out, !.decision = h.decision,
                            !.prior = h.prior]
           /\ [h EXCEPT !.phase = phase, !.out = out]
                = [h EXCEPT !.phase = phase, !.at = h.at, !.out = out, !.decision = h.decision,
                            !.prior = h.prior]
           /\ [h EXCEPT !.phase = phase, !.decision = decision]
                = [h EXCEPT !.phase = phase, !.at = h.at, !.out = h.out, !.decision = decision,
                            !.prior = h.prior]
           /\ [h EXCEPT !.phase = phase, !.prior = prior, !.out = out, !.decision = decision]
                = [h EXCEPT !.phase = phase, !.at = h.at, !.out = out, !.decision = decision,
                            !.prior = prior]
<1>1. PICK r : r = CommandRecord(h)
  OBVIOUS
<1>2. /\ [r EXCEPT !.phase = phase, !.at = at]
           = [r EXCEPT !.phase = phase, !.at = at, !.out = r.out, !.decision = r.decision,
                       !.prior = r.prior]
      /\ [r EXCEPT !.phase = phase, !.out = out]
           = [r EXCEPT !.phase = phase, !.at = r.at, !.out = out, !.decision = r.decision,
                       !.prior = r.prior]
      /\ [r EXCEPT !.phase = phase, !.decision = decision]
           = [r EXCEPT !.phase = phase, !.at = r.at, !.out = r.out, !.decision = decision,
                       !.prior = r.prior]
      /\ [r EXCEPT !.phase = phase, !.prior = prior, !.out = out, !.decision = decision]
           = [r EXCEPT !.phase = phase, !.at = r.at, !.out = out, !.decision = decision,
                       !.prior = prior]
  BY <1>1 DEF CommandRecord
<1> QED  BY <1>1, <1>2, Zenon

LEMMA SomeEdits ==
    ASSUME HandoffSound, NEW p \in Procs, NEW phase, NEW at, NEW out, NEW decision, NEW prior
    PROVE  /\ ho' = [ho EXCEPT ![p].phase = phase, ![p].at = at] =>
                Edits(p, phase, at, ho[p].out, ho[p].decision, ho[p].prior)
           /\ ho' = [ho EXCEPT ![p].phase = phase, ![p].out = out] =>
                Edits(p, phase, ho[p].at, out, ho[p].decision, ho[p].prior)
           /\ ho' = [ho EXCEPT ![p].phase = phase, ![p].decision = decision] =>
                Edits(p, phase, ho[p].at, ho[p].out, decision, ho[p].prior)
           /\ ho' = [ho EXCEPT ![p].phase = phase, ![p].prior = prior, ![p].out = out,
                               ![p].decision = decision] =>
                Edits(p, phase, ho[p].at, out, decision, prior)
<1>0. DOMAIN ho = Procs /\ ho[p] = CommandRecord(ho[p])
  BY DEF HandoffSound, HandoffShape
<1>1. ASSUME ho' = [ho EXCEPT ![p].phase = phase, ![p].at = at]
      PROVE  Edits(p, phase, at, ho[p].out, ho[p].decision, ho[p].prior)
  <2>1. ho' = [ho EXCEPT ![p] = [ho[p] EXCEPT !.phase = phase, !.at = at]]
    BY <1>0, <1>1
  <2>2. ho' = [ho EXCEPT ![p] = [ho[p] EXCEPT !.phase = phase, !.at = at, !.out = ho[p].out,
                                   !.decision = ho[p].decision, !.prior = ho[p].prior]]
    BY <1>0, <2>1, ExplicitEdits, Zenon
  <2> QED  BY <1>0, <2>2, EditFields, Zenon
<1>2. ASSUME ho' = [ho EXCEPT ![p].phase = phase, ![p].out = out]
      PROVE  Edits(p, phase, ho[p].at, out, ho[p].decision, ho[p].prior)
  <2>1. ho' = [ho EXCEPT ![p] = [ho[p] EXCEPT !.phase = phase, !.out = out]]
    BY <1>0, <1>2
  <2>2. ho' = [ho EXCEPT ![p] = [ho[p] EXCEPT !.phase = phase, !.at = ho[p].at, !.out = out,
                                   !.decision = ho[p].decision, !.prior = ho[p].prior]]
    BY <1>0, <2>1, ExplicitEdits, Zenon
  <2> QED  BY <1>0, <2>2, EditFields, Zenon
<1>3. ASSUME ho' = [ho EXCEPT ![p].phase = phase, ![p].decision = decision]
      PROVE  Edits(p, phase, ho[p].at, ho[p].out, decision, ho[p].prior)
  <2>1. ho' = [ho EXCEPT ![p] = [ho[p] EXCEPT !.phase = phase, !.decision = decision]]
    BY <1>0, <1>3
  <2>2. ho' = [ho EXCEPT ![p] = [ho[p] EXCEPT !.phase = phase, !.at = ho[p].at,
                                   !.out = ho[p].out, !.decision = decision,
                                   !.prior = ho[p].prior]]
    BY <1>0, <2>1, ExplicitEdits, Zenon
  <2> QED  BY <1>0, <2>2, EditFields, Zenon
<1>4. ASSUME ho' = [ho EXCEPT ![p].phase = phase, ![p].prior = prior, ![p].out = out,
                              ![p].decision = decision]
      PROVE  Edits(p, phase, ho[p].at, out, decision, prior)
  <2>1. ho' = [ho EXCEPT ![p] = [ho[p] EXCEPT !.phase = phase, !.prior = prior, !.out = out,
                                              !.decision = decision]]
    BY <1>0, <1>4
  <2>2. ho' = [ho EXCEPT ![p] = [ho[p] EXCEPT !.phase = phase, !.at = ho[p].at, !.out = out,
                                   !.decision = decision, !.prior = prior]]
    BY <1>0, <2>1, ExplicitEdits, Zenon
  <2> QED  BY <1>0, <2>2, EditFields, Zenon
<1> QED  BY <1>1, <1>2, <1>3, <1>4

\* An edit leaves the handoffs sound when what it promises is there.
LEMMA EditSound ==
    ASSUME HandoffSound, GivenSound, UNCHANGED given, NEW p \in Procs, ho[p].phase # "idle",
           NEW phase, NEW at, NEW out, NEW decision, NEW prior,
           Edits(p, phase, at, out, decision, prior), dirLock' = dirLock, Around(p),
           CommandSound(p, ho'[p], dir'[ho[p].cmd.dir], dirLock, decisions, tx'[p])
    PROVE  HandoffSound'
BY StaySound DEF Edits

\* r1_directory_lock.
LEMMA AcquireSound ==
    ASSUME HandoffSound, GivenSound, UNCHANGED given, UNCHANGED storeVars, episode # None,
           NEW p \in Procs, NEW cmd \in episode.commands, Acquire(p, cmd)
    PROVE  HandoffSound'
<1>1. /\ dirLock[cmd.dir] = None /\ cmd.dir \in Directories
      /\ dirLock' = [dirLock EXCEPT ![cmd.dir] = p] /\ UNCHANGED <<dir, validation>>
  BY DEF Acquire, GivenSound
<1>2. HandoffShape /\ \A d \in Directories : DirectorySound(dir[d], decisions)
  BY DEF HandoffSound
<1>3. PICK h : h = [NoCommand EXCEPT !.phase = "input", !.cmd = cmd, !.count = ho[p].count + 1]
  OBVIOUS
<1>4. h = CommandRecord(h) /\ h.phase = "input" /\ h.cmd = cmd /\ h.prior = None
  BY <1>3 DEF NoCommand, CommandRecord
<1>5. ho' = [ho EXCEPT ![p] = h]
  BY <1>3 DEF Acquire
<1>6. DOMAIN ho' = Procs /\ (\A q \in Procs \ {p} : ho'[q] = ho[q]) /\ ho'[p] = h
  BY <1>2, <1>5 DEF HandoffShape
<1>7. /\ DOMAIN dirLock' = Directories /\ dirLock'[cmd.dir] = p
      /\ \A d \in Directories : dirLock[d] \notin {None, p} => dirLock'[d] = dirLock[d]
  BY <1>1, <1>2 DEF HandoffShape
<1>8. OneMoves(p, cmd.dir)
  BY <1>1, <1>2, <1>4, <1>6, <1>7 DEF OneMoves, HandoffShape, storeVars
<1>9. CommandSound(p, ho'[p], dir'[cmd.dir], dirLock', decisions, tx'[p])
  BY <1>4, <1>6, <1>7
  DEF CommandSound, OutputSound, Fused, ResultThere, StoppingThere, DecisionMade, FilesMade
<1>10. DirectorySound(dir'[cmd.dir], decisions)
  BY <1>1, <1>2
<1> QED  BY <1>1, <1>4, <1>6, <1>8, <1>9, <1>10, OneMoveSound

\* A phase before the fusion promises nothing but its time.
LEMMA EarlySound ==
    ASSUME NEW p, NEW h, NEW g, NEW d, NEW lock, NEW table, NEW t, NEW u,
           CommandSound(p, h, d, lock, table, t),
           h.phase \notin FilesMade,
           g.phase \in {"reject", "identity", "validated", "accept", "start", "fuse", "fail"},
           g.cmd = h.cmd, g.prior = h.prior,
           g.phase # "reject" => g.at \in episode.clock
    PROVE  CommandSound(p, g, d, lock, table, u)
<1>1. h.prior = None
  BY DEF CommandSound, PriorSound
<1> QED  BY <1>1
   DEF CommandSound, OutputSound, Fused, ResultThere, StoppingThere, DecisionMade, FilesMade

LEMMA EarlyGotoSound ==
    ASSUME HandoffSound, GivenSound, UNCHANGED given, UNCHANGED storeVars, NEW p \in Procs,
           ho[p].phase \notin FilesMade \cup {"idle"}, UNCHANGED dir, Around(p),
           NEW x \in {"reject", "identity", "accept", "start", "fuse", "fail"},
           x # "reject" => ho[p].at \in episode.clock, Goto(p, x)
    PROVE  HandoffSound'
<1>1. ho'[p].phase = x /\ ho'[p].cmd = ho[p].cmd /\ ho'[p].at = ho[p].at
      /\ ho'[p].prior = ho[p].prior
  BY GotoFields
<1>2. CommandSound(p, ho[p], dir[ho[p].cmd.dir], dirLock, decisions, tx[p])
  BY Working
<1>3. CommandSound(p, ho'[p], dir[ho[p].cmd.dir], dirLock, decisions, tx'[p])
  BY <1>1, <1>2, EarlySound
<1> QED  BY <1>3, GotoSound

\* _validate_published_input.
LEMMA CheckInputSound ==
    ASSUME HandoffSound, GivenSound, UNCHANGED given, UNCHANGED storeVars,
           NEW p \in Procs, CheckInput(p)
    PROVE  HandoffSound'
<1>0. ho[p].phase = "input" /\ UNCHANGED <<dir, dirLock, validation>>
  BY DEF CheckInput
<1>1. /\ CommandSound(p, ho[p], dir[ho[p].cmd.dir], dirLock, decisions, tx[p])
      /\ validation # None => validation \in episode.clock
  BY <1>0, Working
<1>2. Around(p)
  BY <1>0, AroundStill
<1>3. CASE Goto(p, "reject")
  BY <1>0, <1>2, <1>3, EarlyGotoSound DEF FilesMade
<1>4. ASSUME NEW phase \in {"identity", "validated"}, NEW at \in episode.clock,
             ho' = [ho EXCEPT ![p].phase = phase, ![p].at = at]
      PROVE  HandoffSound'
  <2>1. Edits(p, phase, at, ho[p].out, ho[p].decision, ho[p].prior)
    BY <1>4, SomeEdits, Zenon
  <2>2. CommandSound(p, ho'[p], dir[ho[p].cmd.dir], dirLock, decisions, tx'[p])
    BY <1>0, <1>1, <2>1, EarlySound DEF Edits, FilesMade
  <2> QED  BY <1>0, <1>2, <2>1, <2>2, EditSound
<1> QED  BY <1>1, <1>3, <1>4 DEF CheckInput

\* The first validation of a published set is recorded beside it.
LEMMA RecordValidationSound ==
    ASSUME HandoffSound, GivenSound, UNCHANGED given, UNCHANGED storeVars,
           NEW p \in Procs, RecordValidation(p)
    PROVE  HandoffSound'
<1>0. ho[p].phase = "validated" /\ UNCHANGED dir
  BY DEF RecordValidation
<1>1. /\ ho[p].at \in episode.clock /\ (validation # None => validation \in episode.clock)
      /\ DOMAIN dir = Directories /\ DirectorySound(dir[ho[p].cmd.dir], decisions)
  BY <1>0, Working DEF CommandSound
<1>2. validation' \in {ho[p].at, validation}
  BY DEF RecordValidation
<1>3. Around(p)
  BY <1>0, <1>1, <1>2 DEF Around, storeVars
<1> QED  BY <1>0, <1>1, <1>3, EarlyGotoSound DEF RecordValidation, FilesMade

LEMMA EntryThere ==
    ASSUME NullIsNoFunction, NEW r, r = EntryRecord(r)
    PROVE  r # None
<1>1. r = [x \in DOMAIN r |-> r[x]]
  <2>1. PICK s : s = EntryRecord(r)
    OBVIOUS
  <2>2. s = [x \in DOMAIN s |-> s[x]]
    BY <2>1 DEF EntryRecord
  <2> QED  BY <2>1, <2>2, Zenon
<1> QED  BY <1>1, Zenon DEF NullIsNoFunction

LEMMA LastRecorded ==
    ASSUME NEW s, IsTrace(s), NEW S, S \subseteq DOMAIN s, S # {}
    PROVE  Max(S) \in S
<1>1. PICK T : s \in Seq(T)
  BY DEF IsTrace
<1>2. Len(s) \in Nat /\ DOMAIN s = 1..Len(s)
  BY <1>1
<1>3. S \in SUBSET (1..Len(s))
  BY <1>2
<1> QED  BY <1>2, <1>3, MaxIsLargest

\* _load_completed_handoff repeats a record of this directory.
LEMMA CheckIdentitySound ==
    ASSUME NullIsNoFunction, HandoffSound, GivenSound, UNCHANGED given, UNCHANGED storeVars,
           NEW p \in Procs, CheckIdentity(p)
    PROVE  HandoffSound'
<1> DEFINE d == ho[p].cmd.dir
           done == Recorded(d, Identity(ho[p]))
           last == dir[d].trace[Max(done)]
           out == [fusion |-> dir[d].result, trace |-> dir[d].stopping]
<1>0. ho[p].phase = "identity" /\ UNCHANGED <<dir, validation>>
  BY Zenon DEF CheckIdentity
<1>1. /\ CommandSound(p, ho[p], dir[d], dirLock, decisions, tx[p])
      /\ DirectorySound(dir[d], decisions)
  BY <1>0, Working
<1>2. Around(p)
  BY <1>0, AroundStill
<1>3. CASE Leave(p)
  BY <1>0, <1>2, <1>3, LeaveSound
<1>4. ASSUME NEW x \in {"reject", "accept"}, Goto(p, x)
      PROVE  HandoffSound'
  <2>1. ho[p].at \in episode.clock
    BY <1>0, <1>1 DEF CommandSound
  <2> QED  BY <1>0, <1>2, <1>4, <2>1, EarlyGotoSound DEF FilesMade
<1>5. ASSUME done # {}, dirLock' = dirLock,
             ho' = [ho EXCEPT ![p].phase = "persist", ![p].prior = last, ![p].out = out,
                              ![p].decision = last.decision]
      PROVE  HandoffSound'
  <2>1. Max(done) \in done
    <3>1. IsTrace(dir[d].trace)
      BY <1>1 DEF DirectorySound
    <3>2. done \subseteq DOMAIN dir[d].trace
      BY DEF Recorded
    <3> QED  BY <1>5, <3>1, <3>2, LastRecorded, Zenon
  <2>2. PICK k : k = Max(done)
    OBVIOUS
  <2>3. k \in DOMAIN dir[d].trace /\ dir[d].trace[k].stage = "decision_recorded"
    BY <2>1, <2>2, Zenon DEF Recorded
  <2>4. PICK r : r = dir[d].trace[k]
    OBVIOUS
  <2>5. EntrySound(r, dir[d], decisions) /\ r.stage = "decision_recorded"
    BY <1>1, <2>3, <2>4 DEF DirectorySound
  <2>6. r # None /\ r.decision # None /\ r.decision.id \in Ids
    BY <2>5, EntryThere DEF EntrySound
  <2>7. Edits(p, "persist", ho[p].at, out, r.decision, r)
    <3>1. ho' = [ho EXCEPT ![p].phase = "persist", ![p].prior = r, ![p].out = out,
                           ![p].decision = r.decision]
      BY <1>5, <2>2, <2>4, Zenon
    <3> HIDE DEF out
    <3> QED  BY <3>1, SomeEdits, Zenon
  <2>8. PriorSound(ho'[p], dir[d])
    BY <2>3, <2>4, <2>5, <2>7, Zenon DEF PriorSound, Edits, FilesMade
  <2>9. CommandSound(p, ho'[p], dir'[d], dirLock, decisions, tx'[p])
    BY <1>0, <1>1, <2>6, <2>7, <2>8
    DEF CommandSound, Edits, DecisionMade, FilesMade
  <2> HIDE DEF out
  <2> QED  BY <1>0, <1>2, <1>5, <2>7, <2>9, EditSound, Zenon
<1> QED  BY <1>3, <1>4, <1>5, Zenon DEF CheckIdentity

-----------------------------------------------------------------------------
\* The records a command appends.
LEMMA EntryAgain ==
    ASSUME NEW r, r = EntryRecord(r), NEW v, NEW q, q = [r EXCEPT !.persisted = v]
    PROVE  /\ q = EntryRecord(q) /\ q.stage = r.stage
           /\ q.result = r.result /\ q.stopping = r.stopping /\ q.decision = r.decision
<1>1. q = [EntryRecord(r) EXCEPT !.persisted = v]
  BY Zenon
<1> QED  BY <1>1 DEF EntryRecord

LEMMA EntryFields ==
    ASSUME NEW a, NEW b, NEW c, NEW d, NEW e, NEW f, NEW q,
           q = [stage |-> a, identity |-> b, result |-> c, stopping |-> d, decision |-> e,
                persisted |-> f]
    PROVE  /\ q = EntryRecord(q)
           /\ q.stage = a /\ q.result = c /\ q.stopping = d /\ q.decision = e
           /\ q.persisted = f
BY DEF EntryRecord

LEMMA NewRecordFields ==
    ASSUME NEW h, NEW q, q = NewRecord(h)
    PROVE  /\ q = EntryRecord(q) /\ q.stage = StageOf(h.phase)
           /\ h.phase = "record" =>
                /\ q.result = FusionJson(h.out.fusion) /\ q.stopping = h.out.trace
                /\ q.decision = h.decision /\ (q.persisted => h.cmd.connected)
<1>1. PICK b, c, d, f :
        /\ q = [stage |-> StageOf(h.phase), identity |-> b, result |-> c, stopping |-> d,
                decision |-> h.decision, persisted |-> f]
        /\ h.phase = "record" => c = FusionJson(h.out.fusion) /\ d = h.out.trace
        /\ f => h.cmd.connected
  BY Zenon DEF NewRecord
<1>2. /\ q = EntryRecord(q) /\ q.stage = StageOf(h.phase) /\ q.result = c /\ q.stopping = d
      /\ q.decision = h.decision /\ q.persisted = f
  BY <1>1, EntryFields
<1> QED  BY <1>1, <1>2

LEMMA RecordSound ==
    ASSUME HandoffSound, GivenSound, NEW p \in Procs, ho[p].phase \in Appending,
           NEW r, r = TraceRecord(ho[p]), r.stage = "decision_recorded"
    PROVE  EntrySound(r, dir[ho[p].cmd.dir], decisions)
<1>0. ho[p].phase # "idle"
  BY DEF Appending
<1>1. /\ CommandSound(p, ho[p], dir[ho[p].cmd.dir], dirLock, decisions, tx[p])
      /\ DirectorySound(dir[ho[p].cmd.dir], decisions)
  BY <1>0, Working
<1>2. CASE ho[p].phase = "record" /\ ho[p].prior # None
  <2>1. PICK q : q = ho[p].prior
    OBVIOUS
  <2>2. /\ ho[p].decision = q.decision /\ q.stage = "decision_recorded"
        /\ \E i \in DOMAIN dir[ho[p].cmd.dir].trace : dir[ho[p].cmd.dir].trace[i] = q
        /\ InTable(decisions, q.decision)
    BY <1>1, <1>2, <2>1 DEF CommandSound, PriorSound
  <2>3. EntrySound(q, dir[ho[p].cmd.dir], decisions)
    BY <1>1, <2>2 DEF DirectorySound
  <2>4. PICK v : r = [q EXCEPT !.persisted = v]
    BY <1>2, <2>1, Zenon DEF TraceRecord
  <2>5. /\ r = EntryRecord(r)
        /\ r.result = q.result /\ r.stopping = q.stopping /\ r.decision = q.decision
    BY <2>3, <2>4, EntryAgain DEF EntrySound
  <2> QED  BY <2>2, <2>3, <2>5 DEF EntrySound
<1>3. CASE ~(ho[p].phase = "record" /\ ho[p].prior # None)
  <2>1. r = NewRecord(ho[p])
    BY <1>3 DEF TraceRecord
  <2>2. /\ r = EntryRecord(r) /\ r.stage = StageOf(ho[p].phase)
        /\ ho[p].phase = "record" =>
             /\ r.result = FusionJson(ho[p].out.fusion) /\ r.stopping = ho[p].out.trace
             /\ r.decision = ho[p].decision /\ (r.persisted => ho[p].cmd.connected)
    BY <2>1, NewRecordFields
  <2>3. ho[p].phase = "record"
    BY <2>2 DEF StageOf, Appending
  <2>4. OutputSound(ho[p], dir[ho[p].cmd.dir])
    BY <1>1, <1>3, <2>3 DEF CommandSound
  <2>5. /\ FusionJson(ho[p].out.fusion) # None /\ ho[p].out.trace # None
        /\ dir[ho[p].cmd.dir].result = FusionJson(ho[p].out.fusion)
        /\ dir[ho[p].cmd.dir].stopping = ho[p].out.trace
        /\ dir[ho[p].cmd.dir].decision = ho[p].decision
    BY <2>3, <2>4 DEF OutputSound, Fused, ResultThere, StoppingThere, DecisionMade, FilesMade
  <2>6. /\ ho[p].decision # None /\ ho[p].decision.id \in Ids
        /\ ho[p].cmd.connected => InTable(decisions, ho[p].decision)
    BY <1>1, <2>3 DEF CommandSound, DecisionMade, FilesMade
  <2> QED  BY <2>2, <2>3, <2>5, <2>6 DEF EntrySound
<1> QED  BY <1>2, <1>3

\* Files of one directory change.
LEMMA AroundDirectory ==
    ASSUME HandoffSound, GivenSound, UNCHANGED <<validation, storeVars>>, NEW p \in Procs,
           ho[p].phase # "idle", NEW e, dir' = [dir EXCEPT ![ho[p].cmd.dir] = e],
           DirectorySound(e, decisions)
    PROVE  Around(p) /\ dir'[ho[p].cmd.dir] = e
<1>1. /\ ho[p].cmd.dir \in Directories /\ DOMAIN dir = Directories
      /\ validation # None => validation \in episode.clock
  BY Working
<1>2. /\ DOMAIN dir' = Directories /\ dir'[ho[p].cmd.dir] = e
      /\ \A d \in Directories \ {ho[p].cmd.dir} : dir'[d] = dir[d]
  BY <1>1
<1> QED  BY <1>1, <1>2 DEF Around, storeVars

LEMMA AppendAround ==
    ASSUME HandoffSound, GivenSound, UNCHANGED <<validation, storeVars>>, NEW p \in Procs,
           ho[p].phase \in Appending, NEW v,
           dir' = [dir EXCEPT ![ho[p].cmd.dir] =
                     [dir[ho[p].cmd.dir] EXCEPT
                        !.trace = Append(dir[ho[p].cmd.dir].trace, TraceRecord(ho[p])),
                        !.torn = v]]
    PROVE  /\ Around(p)
           /\ \A g \in DirectoryFiles : dir'[ho[p].cmd.dir][g] = dir[ho[p].cmd.dir][g]
<1> DEFINE d == dir[ho[p].cmd.dir]
<1>0. ho[p].phase # "idle"
  BY DEF Appending
<1>1. DirectorySound(d, decisions)
  BY <1>0, Working
<1>2. PICK r : r = TraceRecord(ho[p])
  OBVIOUS
<1>3. r.stage = "decision_recorded" => EntrySound(r, d, decisions)
  BY <1>2, RecordSound
<1>4. PICK e : e = [d EXCEPT !.trace = Append(d.trace, r), !.torn = v]
  OBVIOUS
<1>5. DirectorySound(e, decisions) /\ \A g \in DirectoryFiles : e[g] = d[g]
  <2>1. PICK x, table : x = d /\ table = decisions
    OBVIOUS
  <2>2. /\ DirectorySound(x, table) /\ Appended(e, x, r, v)
        /\ r.stage = "decision_recorded" => EntrySound(r, x, table)
    BY <1>1, <1>3, <1>4, <2>1, Zenon DEF Appended
  <2>3. DirectorySound(e, table) /\ \A g \in DirectoryFiles : e[g] = x[g]
    BY ONLY <2>2, AppendSound
  <2> QED  BY <2>1, <2>3, Zenon
<1>6. dir' = [dir EXCEPT ![ho[p].cmd.dir] = e]
  BY <1>2, <1>4, Zenon
<1>7. Around(p) /\ dir'[ho[p].cmd.dir] = e
  BY <1>0, <1>5, <1>6, AroundDirectory
<1> QED  BY <1>5, <1>7

\* An append moves its command on.
LEMMA AppendRecordSound ==
    ASSUME HandoffSound, GivenSound, UNCHANGED given, UNCHANGED storeVars,
           NEW p \in Procs, AppendRecord(p)
    PROVE  HandoffSound'
<1> DEFINE d == ho[p].cmd.dir
<1>0. ho[p].phase \in Appending /\ ho[p].phase # "idle" /\ UNCHANGED validation
  BY DEF AppendRecord, Appending
<1>1. PICK v : dir' = [dir EXCEPT ![d] = [dir[d] EXCEPT
                         !.trace = Append(dir[d].trace, TraceRecord(ho[p])), !.torn = v]]
  <2>1. d \in Directories /\ DOMAIN dir = Directories /\ dir[d] = DirectoryRecord(dir[d])
    BY <1>0, Working DEF DirectorySound
  <2>2. PICK r : r = TraceRecord(ho[p])
    OBVIOUS
  <2>3. PICK v : v = IF dir[d].torn = "newline" THEN "partial" ELSE "no"
    OBVIOUS
  <2>4. dir' = [dir EXCEPT ![d] = [dir[d] EXCEPT
                  !.trace = Append(dir[d].trace, r),
                  !.torn = IF dir[d].torn = "newline" THEN "partial" ELSE "no"]]
    BY <2>1, <2>2, Zenon DEF AppendRecord, DirectoryRecord
  <2>5. dir' = [dir EXCEPT ![d] = [dir[d] EXCEPT !.trace = Append(dir[d].trace, r), !.torn = v]]
    BY <2>3, <2>4, Zenon
  <2> QED  BY <2>2, <2>5, Zenon
<1>2. Around(p) /\ \A g \in DirectoryFiles : dir'[d][g] = dir[d][g]
  BY <1>0, <1>1, AppendAround, Zenon
<1>3. CASE Leave(p)
  BY <1>0, <1>2, <1>3, LeaveSound
<1>4. CASE Goto(p, AfterAppend(ho[p].phase)) /\ AfterAppend(ho[p].phase) # "idle"
  <2>1. CommandSound(p, ho[p], dir[d], dirLock, decisions, tx[p])
    BY <1>0, Working
  <2>2. /\ ho'[p].phase = AfterAppend(ho[p].phase) /\ ho'[p].cmd = ho[p].cmd
        /\ ho'[p].at = ho[p].at /\ ho'[p].out = ho[p].out /\ ho'[p].prior = ho[p].prior
    BY <1>4, GotoFields
  <2>3. CASE ho[p].phase \in {"accept", "start"}
    <3>1. ho'[p].phase \in {"start", "fuse"} /\ ho[p].at \in episode.clock
      BY <2>1, <2>2, <2>3 DEF AfterAppend, CommandSound
    <3>2. CommandSound(p, ho'[p], dir'[d], dirLock, decisions, tx'[p])
      <4>1. ho[p].phase \notin FilesMade
        BY <2>3 DEF FilesMade
      <4>2. CommandSound(p, ho'[p], dir[d], dirLock, decisions, tx'[p])
        BY <2>1, <2>2, <3>1, <4>1, EarlySound
      <4>3. ho'[p].prior = None
        BY <2>1, <2>2, <4>1 DEF CommandSound, PriorSound
      <4> QED  BY <3>1, <4>2, <4>3
         DEF CommandSound, OutputSound, Fused, ResultThere, StoppingThere, DecisionMade, FilesMade
    <3> QED  BY <1>0, <1>2, <1>4, <3>2, GotoSound
  <2>4. CASE ho[p].phase = "completed"
    <3>1. ho'[p].phase = "decide"
      BY <2>2, <2>4 DEF AfterAppend
    <3>2. ho[p].prior = None
      BY <2>1, <2>4 DEF CommandSound, PriorSound, FilesMade
    <3>3. OutputSound(ho[p], dir[d])
      BY <2>1, <3>2 DEF CommandSound
    <3>4. OutputSound(ho'[p], dir'[d])
      BY <1>2, <2>2, <2>4, <3>1, <3>3 DEF DirectoryFiles, OutputSound, Fused, ResultThere,
         StoppingThere, DecisionMade, FilesMade
    <3>5. CommandSound(p, ho'[p], dir'[d], dirLock, decisions, tx'[p])
      BY <2>1, <2>2, <2>4, <3>1, <3>2, <3>4 DEF CommandSound, DecisionMade, FilesMade
    <3> QED  BY <1>0, <1>2, <1>4, <3>5, GotoSound
  <2>5. ho[p].phase \in {"accept", "start", "completed"}
    BY <1>0, <1>4 DEF AfterAppend, Appending
  <2> QED  BY <2>3, <2>4, <2>5
<1> QED  BY <1>3, <1>4 DEF AppendRecord

LEMMA AppendFailsSound ==
    ASSUME HandoffSound, GivenSound, UNCHANGED given, UNCHANGED storeVars,
           NEW p \in Procs, AppendFails(p)
    PROVE  HandoffSound'
<1>1. ho[p].phase # "idle" /\ Leave(p) /\ UNCHANGED <<dir, validation>>
  BY DEF AppendFails, Appending
<1> QED  BY <1>1, AroundStill, LeaveSound

\* The process ends in the write of a record.
LEMMA TornAppendSound ==
    ASSUME HandoffSound, GivenSound, UNCHANGED given, UNCHANGED storeVars,
           NEW p \in Procs, TornAppend(p)
    PROVE  HandoffSound'
<1> DEFINE d == ho[p].cmd.dir
<1>0. ho[p].phase \in Appending /\ ho[p].phase # "idle" /\ UNCHANGED validation /\ Leave(p)
  BY DEF TornAppend, Appending
<1>1. d \in Directories /\ DOMAIN dir = Directories /\ DirectorySound(dir[d], decisions)
  BY <1>0, Working
<1>2. CASE dir' = [dir EXCEPT ![d].torn = "partial"]
  <2>1. PICK e : e = [dir[d] EXCEPT !.torn = "partial"]
    OBVIOUS
  <2>2. DirectorySound(e, decisions)
    BY <1>1, <2>1, TearSound
  <2>3. dir' = [dir EXCEPT ![d] = e]
    BY <1>1, <1>2, <2>1
  <2> QED  BY <1>0, <2>2, <2>3, AroundDirectory, LeaveSound
<1>3. CASE dir' = [dir EXCEPT ![d].trace = Append(@, TraceRecord(ho[p])), ![d].torn = "newline"]
  <2>1. dir' = [dir EXCEPT ![d] = [dir[d] EXCEPT
                  !.trace = Append(dir[d].trace, TraceRecord(ho[p])), !.torn = "newline"]]
    BY <1>1, <1>3, Zenon
  <2> QED  BY <1>0, <2>1, AppendAround, LeaveSound, Zenon
<1> QED  BY <1>2, <1>3 DEF TornAppend

-----------------------------------------------------------------------------
\* Fusion, the decision and the files that are published once.
LEMMA FuseSound ==
    ASSUME NullIsNoFunction, HandoffSound, GivenSound, UNCHANGED given, UNCHANGED storeVars,
           NEW p \in Procs, Fuse(p)
    PROVE  HandoffSound'
<1>0. ho[p].phase = "fuse" /\ UNCHANGED <<dir, validation>>
  BY DEF Fuse
<1>1. CommandSound(p, ho[p], dir[ho[p].cmd.dir], dirLock, decisions, tx[p])
  BY <1>0, Working
<1>2. Around(p)
  BY <1>0, AroundStill
<1>3. ho[p].at \in episode.clock /\ ho[p].prior = None
  BY <1>0, <1>1 DEF CommandSound, PriorSound, FilesMade
<1>4. CASE Leave(p)
  BY <1>0, <1>2, <1>4, LeaveSound
<1>5. CASE Goto(p, "fail")
  BY <1>0, <1>2, <1>3, <1>5, EarlyGotoSound DEF FilesMade
<1>6. ASSUME NEW c, FusionJson(c.fusion) # None, c.trace # None, dirLock' = dirLock,
             ho' = [ho EXCEPT ![p].phase = "result",
                              ![p].out = [fusion |-> c.fusion, trace |-> c.trace]]
      PROVE  HandoffSound'
  <2>1. PICK out : out = [fusion |-> c.fusion, trace |-> c.trace]
    OBVIOUS
  <2>2. out.fusion = c.fusion /\ out.trace = c.trace
    BY <2>1
  <2>3. ho' = [ho EXCEPT ![p].phase = "result", ![p].out = out]
    BY <1>6, <2>1, Zenon
  <2>4. Edits(p, "result", ho[p].at, out, ho[p].decision, ho[p].prior)
    BY <2>3, SomeEdits, Zenon
  <2>5. /\ ho'[p].phase = "result" /\ ho'[p].out = out /\ ho'[p].prior = None
        /\ ho'[p].cmd = ho[p].cmd /\ ho'[p].at = ho[p].at
    BY <1>3, <2>4 DEF Edits
  <2>6. FusionJson(ho'[p].out.fusion) # None /\ ho'[p].out.trace # None
    BY <1>6, <2>2, <2>5
  <2>7. OutputSound(ho'[p], dir[ho[p].cmd.dir])
    BY <2>5, <2>6 DEF OutputSound, Fused, ResultThere, StoppingThere, DecisionMade, FilesMade
  <2>8. CommandSound(p, ho'[p], dir[ho[p].cmd.dir], dirLock, decisions, tx'[p])
    BY <1>1, <1>3, <2>5, <2>7
    DEF CommandSound, ResultThere, StoppingThere, DecisionMade, FilesMade
  <2> QED  BY <1>0, <1>2, <1>6, <2>4, <2>8, EditSound
<1>7. PICK c : /\ c = CausalOutput(ho[p].cmd.config, Scheduled(episode.pub.restored, ho[p].at),
                                   episode.meta)
  OBVIOUS
<1>8. FusionJson(c.fusion) # None /\ c.trace # None
  BY <1>7, CausalOutputThere
<1>9. \/ Leave(p) \/ Goto(p, "fail")
      \/ /\ ho' = [ho EXCEPT ![p].phase = "result",
                             ![p].out = [fusion |-> c.fusion, trace |-> c.trace]]
         /\ dirLock' = dirLock
  BY <1>7, Zenon DEF Fuse
<1> QED  BY <1>4, <1>5, <1>6, <1>8, <1>9

\* _publish_immutable_bytes.
LEMMA FilePublished ==
    ASSUME HandoffSound, GivenSound, UNCHANGED storeVars, NEW p \in Procs, ho[p].phase # "idle",
           NEW f \in DirectoryFiles, NEW content, content # None, NEW next,
           PublishFile(p, f, content, next)
    PROVE  /\ Around(p)
           /\ ~Leave(p) =>
                 /\ Goto(p, next) /\ dir'[ho[p].cmd.dir][f] = content
                 /\ \A g \in DirectoryFiles \ {f} :
                       dir'[ho[p].cmd.dir][g] = dir[ho[p].cmd.dir][g]
<1> DEFINE d == dir[ho[p].cmd.dir]
<1>0. UNCHANGED validation
  BY DEF PublishFile
<1>1. DirectorySound(d, decisions) /\ ho[p].cmd.dir \in Directories /\ DOMAIN dir = Directories
  BY Working
<1>2. CASE Leave(p) /\ UNCHANGED dir
  BY <1>0, <1>2, AroundStill
<1>3. CASE /\ Publishable(d[f], content) /\ Goto(p, next)
           /\ dir' = [dir EXCEPT ![ho[p].cmd.dir][f] = content]
  <2>1. PICK e : e = [d EXCEPT ![f] = content]
    OBVIOUS
  <2>2. d[f] \in {None, content} /\ Written(e, d, f, content)
    BY <1>3, <2>1, Zenon DEF Publishable, Written
  <2>3. /\ DirectorySound(e, decisions) /\ e[f] = content
        /\ \A g \in DirectoryFiles \ {f} : e[g] = d[g]
    <3>1. DirectorySound(d, decisions) /\ content # None /\ f \in DirectoryFiles
      BY <1>1
    <3>2. PICK x, table : x = d /\ table = decisions
      OBVIOUS
    <3>3. DirectorySound(x, table) /\ x[f] \in {None, content} /\ Written(e, x, f, content)
      BY <2>2, <3>1, <3>2, Zenon
    <3>4. /\ DirectorySound(e, table)
          /\ e.trace = x.trace /\ e[f] = content
          /\ \A g \in DirectoryFiles \ {f} : e[g] = x[g]
      BY ONLY <3>1, <3>3, PublicationSound
    <3> QED  BY <3>2, <3>4, Zenon
  <2>4. dir' = [dir EXCEPT ![ho[p].cmd.dir] = e]
    <3>1. dir' = [dir EXCEPT ![ho[p].cmd.dir] = [d EXCEPT ![f] = content]]
      BY <1>1, <1>3
    <3> QED  BY <2>1, <3>1, Zenon
  <2>5. Around(p) /\ dir'[ho[p].cmd.dir] = e
    BY <1>0, <2>3, <2>4, AroundDirectory
  <2> QED  BY <1>3, <2>3, <2>5
<1> QED  BY <1>2, <1>3 DEF PublishFile

LEMMA PublishResultSound ==
    ASSUME HandoffSound, GivenSound, UNCHANGED given, UNCHANGED storeVars, NEW p \in Procs,
           PublishResult(p)
    PROVE  HandoffSound'
<1> DEFINE d == ho[p].cmd.dir
<1>0. ho[p].phase = "result"
  BY DEF PublishResult
<1>1. /\ CommandSound(p, ho[p], dir[d], dirLock, decisions, tx[p])
      /\ ho[p].prior = None /\ OutputSound(ho[p], dir[d])
  BY <1>0, Working DEF CommandSound, PriorSound, FilesMade
<1>2. FusionJson(ho[p].out.fusion) # None /\ ho[p].out.trace # None
  BY <1>0, <1>1 DEF OutputSound, Fused
<1>3. /\ Around(p)
      /\ ~Leave(p) => Goto(p, "stopping") /\ dir'[d]["result"] = FusionJson(ho[p].out.fusion)
  BY <1>0, <1>2, FilePublished DEF PublishResult, DirectoryFiles
<1>4. CASE Leave(p)
  BY <1>0, <1>3, <1>4, LeaveSound
<1>5. CASE Goto(p, "stopping") /\ dir'[d]["result"] = FusionJson(ho[p].out.fusion)
  <2>1. /\ ho'[p].phase = "stopping" /\ ho'[p].out = ho[p].out /\ ho'[p].prior = None
        /\ ho'[p].cmd = ho[p].cmd /\ ho'[p].at = ho[p].at
    BY <1>1, <1>5, GotoFields
  <2>2. OutputSound(ho'[p], dir'[d])
    BY <1>2, <1>5, <2>1
    DEF OutputSound, Fused, ResultThere, StoppingThere, DecisionMade, FilesMade
  <2>3. CommandSound(p, ho'[p], dir'[d], dirLock, decisions, tx'[p])
    BY <1>0, <1>1, <2>1, <2>2 DEF CommandSound, DecisionMade, FilesMade
  <2> QED  BY <1>0, <1>3, <1>5, <2>3, GotoSound
<1> QED  BY <1>3, <1>4, <1>5

LEMMA PublishStoppingSound ==
    ASSUME HandoffSound, GivenSound, UNCHANGED given, UNCHANGED storeVars, NEW p \in Procs,
           PublishStopping(p)
    PROVE  HandoffSound'
<1> DEFINE d == ho[p].cmd.dir
<1>0. ho[p].phase = "stopping"
  BY DEF PublishStopping
<1>1. /\ CommandSound(p, ho[p], dir[d], dirLock, decisions, tx[p])
      /\ ho[p].prior = None /\ OutputSound(ho[p], dir[d])
  BY <1>0, Working DEF CommandSound, PriorSound, FilesMade
<1>2. /\ FusionJson(ho[p].out.fusion) # None /\ ho[p].out.trace # None
      /\ dir[d].result = FusionJson(ho[p].out.fusion)
  BY <1>0, <1>1 DEF OutputSound, Fused, ResultThere
<1>3. /\ Around(p)
      /\ ~Leave(p) => /\ Goto(p, "completed") /\ dir'[d]["stopping"] = ho[p].out.trace
                      /\ dir'[d]["result"] = dir[d]["result"]
  BY <1>0, <1>2, FilePublished DEF PublishStopping, DirectoryFiles
<1>4. CASE Leave(p)
  BY <1>0, <1>3, <1>4, LeaveSound
<1>5. CASE /\ Goto(p, "completed") /\ dir'[d]["stopping"] = ho[p].out.trace
           /\ dir'[d]["result"] = dir[d]["result"]
  <2>1. /\ ho'[p].phase = "completed" /\ ho'[p].out = ho[p].out /\ ho'[p].prior = None
        /\ ho'[p].cmd = ho[p].cmd /\ ho'[p].at = ho[p].at
    BY <1>1, <1>5, GotoFields
  <2>2. OutputSound(ho'[p], dir'[d])
    BY <1>2, <1>5, <2>1
    DEF OutputSound, Fused, ResultThere, StoppingThere, DecisionMade, FilesMade
  <2>3. CommandSound(p, ho'[p], dir'[d], dirLock, decisions, tx'[p])
    BY <1>0, <1>1, <2>1, <2>2 DEF CommandSound, DecisionMade, FilesMade
  <2> QED  BY <1>0, <1>3, <1>5, <2>3, GotoSound
<1> QED  BY <1>3, <1>4, <1>5

LEMMA CombinedThere ==
    ASSUME NullIsNoFunction, NEW f, NEW fusion, NEW id, NEW config, NEW supersedes
    PROVE  /\ Combine(f, fusion, id, config, supersedes) # None
           /\ Combine(f, fusion, id, config, supersedes).id = id
<1>1. PICK r, e, s, u, dt, ft, te, pa, w, ev, hs, se :
        Combine(f, fusion, id, config, supersedes) =
          [id |-> id, run |-> r, entity |-> e, fast |-> s, fusion |-> u, detectorTime |-> dt,
           fusionTime |-> ft, te |-> te, path |-> pa, winning |-> w, config |-> config,
           evidence |-> ev, hits |-> hs, selected |-> se, supersedes |-> supersedes]
  BY ZenonT(30) DEF Combine
<1>2. PICK c : c = [id |-> id, run |-> r, entity |-> e, fast |-> s, fusion |-> u,
                    detectorTime |-> dt, fusionTime |-> ft, te |-> te, path |-> pa,
                    winning |-> w, config |-> config, evidence |-> ev, hits |-> hs,
                    selected |-> se, supersedes |-> supersedes]
  OBVIOUS
<1>3. c = [x \in DOMAIN c |-> c[x]] /\ c.id = id
  BY <1>2
<1>4. c # None
  BY <1>3, Zenon DEF NullIsNoFunction
<1> QED  BY <1>1, <1>2, <1>3, <1>4

\* The decision of a handoff has the id of its execution.
LEMMA DecideSound ==
    ASSUME NullIsNoFunction, HandoffSound, GivenSound, UNCHANGED given, UNCHANGED storeVars,
           NEW p \in Procs, Decide(p)
    PROVE  HandoffSound'
<1> DEFINE d == ho[p].cmd.dir
<1>0. ho[p].phase = "decide" /\ UNCHANGED <<dir, validation>>
  BY DEF Decide
<1>1. /\ CommandSound(p, ho[p], dir[d], dirLock, decisions, tx[p]) /\ episode # None
      /\ ho[p].prior = None /\ OutputSound(ho[p], dir[d])
  BY <1>0, Working DEF CommandSound, PriorSound, FilesMade
<1>2. Around(p)
  BY <1>0, AroundStill
<1>3. CASE Leave(p)
  BY <1>0, <1>2, <1>3, LeaveSound
<1>4. CASE /\ ho' = [ho EXCEPT ![p].phase = "decision", ![p].decision = HandoffDecision(ho[p])]
           /\ UNCHANGED dirLock
  <2>1. Identity(ho[p]) \in Ids
    BY <1>0, <1>1 DEF Identity, GivenSound, CommandSound
  <2>2. /\ HandoffDecision(ho[p]) # None
        /\ HandoffDecision(ho[p]).id = Identity(ho[p])
    <3>1. PICK path, s :
            HandoffDecision(ho[p]) = Combine(ho[p].cmd.fast, ho[p].out.fusion, Identity(ho[p]),
                                             path, s)
      BY Zenon DEF HandoffDecision
    <3> QED  BY <3>1, CombinedThere
  <2>3. PICK x : x = HandoffDecision(ho[p])
    OBVIOUS
  <2>4. x # None /\ x.id \in Ids
    BY <2>1, <2>2, <2>3
  <2>5. Edits(p, "decision", ho[p].at, ho[p].out, x, ho[p].prior)
    <3>1. ho' = [ho EXCEPT ![p].phase = "decision", ![p].decision = x]
      BY <1>4, <2>3, Zenon
    <3> QED  BY <3>1, SomeEdits, Zenon
  <2>6. OutputSound(ho'[p], dir[d])
    BY <1>0, <1>1, <2>5
    DEF Edits, OutputSound, Fused, ResultThere, StoppingThere, DecisionMade, FilesMade
  <2>7. CommandSound(p, ho'[p], dir[d], dirLock, decisions, tx'[p])
    BY <1>0, <1>1, <2>4, <2>5, <2>6 DEF Edits, CommandSound, DecisionMade, FilesMade
  <2> QED  BY <1>0, <1>2, <1>4, <2>5, <2>7, EditSound
<1> QED  BY <1>3, <1>4 DEF Decide

LEMMA PublishDecisionSound ==
    ASSUME HandoffSound, GivenSound, UNCHANGED given, UNCHANGED storeVars, NEW p \in Procs,
           PublishDecision(p)
    PROVE  HandoffSound'
<1> DEFINE d == ho[p].cmd.dir
           next == IF ho[p].cmd.connected THEN "persist" ELSE "record"
<1>0. ho[p].phase = "decision"
  BY DEF PublishDecision
<1>1. /\ CommandSound(p, ho[p], dir[d], dirLock, decisions, tx[p])
      /\ ho[p].prior = None /\ OutputSound(ho[p], dir[d])
  BY <1>0, Working DEF CommandSound, PriorSound, FilesMade
<1>2. /\ FusionJson(ho[p].out.fusion) # None /\ ho[p].out.trace # None
      /\ dir[d].result = FusionJson(ho[p].out.fusion) /\ dir[d].stopping = ho[p].out.trace
      /\ ho[p].decision # None /\ ho[p].decision.id \in Ids
  BY <1>0, <1>1 DEF OutputSound, Fused, ResultThere, StoppingThere, DecisionMade, CommandSound
<1>3. /\ Around(p)
      /\ ~Leave(p) => /\ Goto(p, next) /\ dir'[d]["decision"] = ho[p].decision
                      /\ dir'[d]["result"] = dir[d]["result"]
                      /\ dir'[d]["stopping"] = dir[d]["stopping"]
  <2>1. /\ PublishFile(p, "decision", ho[p].decision, next)
        /\ ho[p].phase # "idle" /\ ho[p].decision # None
    BY <1>0, <1>2 DEF PublishDecision
  <2>2. /\ "decision" \in DirectoryFiles
        /\ {"result", "stopping"} \subseteq DirectoryFiles \ {"decision"}
    BY DEF DirectoryFiles
  <2> HIDE DEF next
  <2> QED  BY <2>1, <2>2, FilePublished
<1>4. CASE Leave(p)
  BY <1>0, <1>3, <1>4, LeaveSound
<1>5. CASE /\ Goto(p, next) /\ dir'[d]["decision"] = ho[p].decision
           /\ dir'[d]["result"] = dir[d]["result"]
           /\ dir'[d]["stopping"] = dir[d]["stopping"]
  <2>1. /\ ho'[p].phase = next /\ ho'[p].out = ho[p].out /\ ho'[p].prior = None
        /\ ho'[p].cmd = ho[p].cmd /\ ho'[p].at = ho[p].at /\ ho'[p].decision = ho[p].decision
    BY <1>1, <1>5, GotoFields
  <2>2. OutputSound(ho'[p], dir'[d])
    BY <1>2, <1>5, <2>1
    DEF OutputSound, Fused, ResultThere, StoppingThere, DecisionMade, FilesMade
  <2>3. CommandSound(p, ho'[p], dir'[d], dirLock, decisions, tx'[p])
    BY <1>0, <1>1, <1>2, <2>1, <2>2 DEF CommandSound, DecisionMade, FilesMade
  <2> QED  BY <1>0, <1>3, <1>5, <2>3, GotoSound
<1> QED  BY <1>3, <1>4, <1>5

-----------------------------------------------------------------------------
\* The submission of a handoff, and what comes back.
LEMMA HandoffRuntimeThere ==
    ASSUME NullIsNoFunction, NEW h
    PROVE  HandoffRuntime(h) # None
<1>1. PICK a, b, c, d : HandoffRuntime(h) = [detection |-> a, fusion |-> b, trace |-> c, config |-> d]
  BY Zenon DEF HandoffRuntime
<1>2. PICK r : r = [detection |-> a, fusion |-> b, trace |-> c, config |-> d]
  OBVIOUS
<1>3. r = [x \in DOMAIN r |-> r[x]]
  BY <1>2
<1> QED  BY <1>1, <1>2, <1>3, RecordThere, Zenon

LEMMA HandoffSubmissionFields ==
    ASSUME NullIsNoFunction, NEW h
    PROVE  /\ HandoffSubmission(h) # None
           /\ HandoffSubmission(h).id = h.decision.id
           /\ HandoffSubmission(h).scope = Scope
           /\ HandoffSubmission(h).decision = h.decision
           /\ HandoffSubmission(h).runtime # None
<1>1. PICK i, c, s, d, r, u, m, v, e, o, b :
        /\ HandoffSubmission(h) =
             [id |-> i, scope |-> c, supersedes |-> s, decision |-> d, runtime |-> r, run |-> u,
              meta |-> m, saveRun |-> v, events |-> e, coherent |-> o, basis |-> b]
        /\ i = h.decision.id /\ c = Scope /\ d = h.decision /\ r = HandoffRuntime(h)
  BY Zenon DEF HandoffSubmission
<1>2. PICK q : q = [id |-> i, scope |-> c, supersedes |-> s, decision |-> d, runtime |-> r,
                    run |-> u, meta |-> m, saveRun |-> v, events |-> e, coherent |-> o,
                    basis |-> b]
  OBVIOUS
<1>3. /\ q = [x \in DOMAIN q |-> q[x]]
      /\ q.id = i /\ q.scope = c /\ q.decision = d /\ q.runtime = r
  BY <1>2
<1>4. q # None
  BY <1>3, RecordThere
<1>5. HandoffSubmission(h) = q
  BY <1>1, <1>2
<1> QED  BY <1>1, <1>3, <1>4, <1>5, HandoffRuntimeThere

\* persist_r1_results submits the decision of the directory.
LEMMA PersistHandoffSound ==
    ASSUME NullIsNoFunction, HandoffSound, GivenSound, UNCHANGED given, StoreInv,
           NEW p \in Procs, PersistHandoff(p)
    PROVE  HandoffSound'
<1> DEFINE d == ho[p].cmd.dir
<1>0. ho[p].phase = "persist" /\ UNCHANGED <<dir, validation>>
  BY DEF PersistHandoff
<1>1. /\ CommandSound(p, ho[p], dir[d], dirLock, decisions, tx[p])
      /\ DirectorySound(dir[d], decisions) /\ DOMAIN dir = Directories
      /\ validation # None => validation \in episode.clock
  BY <1>0, Working
<1>2. CASE Leave(p) /\ UNCHANGED storeVars
  BY <1>0, <1>2, AroundStill, LeaveSound
<1>3. CASE Submit(p, HandoffSubmission(ho[p])) /\ Goto(p, "persisting")
  <2>1. PICK sub : sub = HandoffSubmission(ho[p])
    OBVIOUS
  <2>2. sub.id = ho[p].decision.id /\ sub.decision = ho[p].decision
    BY <2>1, HandoffSubmissionFields
  <2>3. DOMAIN tx = Procs
    BY DEF StoreInv, TablesInv, StoreTypeOK, StoreShape
  <2>4. tx' = [tx EXCEPT ![p] = [phase |-> "begin", sub |-> sub]] /\ decisions' = decisions
    BY <1>3, <2>1 DEF Submit, tables
  <2>5. tx'[p].sub = sub /\ \A q \in Procs \ {p} : tx'[q] = tx[q]
    BY <2>3, <2>4
  <2>6. Around(p)
    BY <1>0, <1>1, <2>4, <2>5 DEF Around
  <2>7. /\ ho'[p].phase = "persisting" /\ ho'[p].out = ho[p].out /\ ho'[p].prior = ho[p].prior
        /\ ho'[p].cmd = ho[p].cmd /\ ho'[p].at = ho[p].at /\ ho'[p].decision = ho[p].decision
    BY <1>3, GotoFields
  <2>8. IF ho'[p].prior = None THEN OutputSound(ho'[p], dir[d]) ELSE PriorSound(ho'[p], dir[d])
    BY <1>0, <1>1, <2>7 DEF CommandSound, OutputSound, PriorSound, Fused, ResultThere,
       StoppingThere, DecisionMade, FilesMade
  <2>9. CommandSound(p, ho'[p], dir[d], dirLock, decisions, tx'[p])
    BY <1>0, <1>1, <2>2, <2>5, <2>7, <2>8 DEF CommandSound, DecisionMade, FilesMade
  <2> QED  BY <1>0, <1>3, <2>6, <2>9, GotoSound
<1> QED  BY <1>2, <1>3 DEF PersistHandoff

\* What is recorded as persisted is in the table.
LEMMA PersistedSound ==
    ASSUME HandoffSound, GivenSound, UNCHANGED given, UNCHANGED storeVars, AnswersHold,
           NEW p \in Procs, Persisted(p)
    PROVE  HandoffSound'
<1> DEFINE d == ho[p].cmd.dir
<1>0. ho[p].phase = "persisting" /\ UNCHANGED <<dir, validation>>
  BY DEF Persisted
<1>1. CommandSound(p, ho[p], dir[d], dirLock, decisions, tx[p])
  BY <1>0, Working
<1>2. Around(p)
  BY <1>0, AroundStill
<1>3. CASE Leave(p)
  BY <1>0, <1>2, <1>3, LeaveSound
<1>4. CASE PersistSucceeded(p) /\ Goto(p, "record")
  <2>1. /\ decisions[tx[p].sub.id] # None
        /\ decisions[tx[p].sub.id].decision = tx[p].sub.decision
    BY <1>4 DEF PersistSucceeded, AnswersHold, SameDecision
  <2>2. tx[p].sub.id = ho[p].decision.id /\ tx[p].sub.decision = ho[p].decision
    BY <1>0, <1>1 DEF CommandSound
  <2>3. InTable(decisions, ho[p].decision)
    BY <2>1, <2>2 DEF InTable
  <2>4. /\ ho'[p].phase = "record" /\ ho'[p].out = ho[p].out /\ ho'[p].prior = ho[p].prior
        /\ ho'[p].cmd = ho[p].cmd /\ ho'[p].at = ho[p].at /\ ho'[p].decision = ho[p].decision
    BY <1>4, GotoFields
  <2>5. IF ho'[p].prior = None THEN OutputSound(ho'[p], dir[d]) ELSE PriorSound(ho'[p], dir[d])
    BY <1>0, <1>1, <2>4 DEF CommandSound, OutputSound, PriorSound, Fused, ResultThere,
       StoppingThere, DecisionMade, FilesMade
  <2>6. CommandSound(p, ho'[p], dir[d], dirLock, decisions, tx'[p])
    BY <1>0, <1>1, <2>3, <2>4, <2>5 DEF CommandSound, DecisionMade, FilesMade
  <2> QED  BY <1>0, <1>2, <1>4, <2>6, GotoSound
<1> QED  BY <1>3, <1>4 DEF Persisted

LEMMA CrashSound ==
    ASSUME HandoffSound, GivenSound, UNCHANGED given, UNCHANGED storeVars,
           NEW p \in Procs, CrashHandoff(p)
    PROVE  HandoffSound'
<1>1. ho[p].phase # "idle" /\ Leave(p) /\ UNCHANGED <<dir, validation>>
  BY DEF CrashHandoff
<1> QED  BY <1>1, AroundStill, LeaveSound

LEMMA HandoffStep ==
    ASSUME NullIsNoFunction, HandoffSound, GivenSound, UNCHANGED given, StoreInv, AnswersHold,
           NEW p \in Procs, Handoff(p)
    PROVE  HandoffSound'
<1>1. ASSUME UNCHANGED storeVars, episode # None, NEW cmd \in episode.commands, Acquire(p, cmd)
      PROVE  HandoffSound'
  BY <1>1, AcquireSound
<1>2. ASSUME UNCHANGED storeVars,
             \/ CheckInput(p) \/ RecordValidation(p) \/ CheckIdentity(p)
      PROVE  HandoffSound'
  BY <1>2, CheckInputSound, RecordValidationSound, CheckIdentitySound
<1>3. ASSUME UNCHANGED storeVars, AppendRecord(p) \/ AppendFails(p) \/ TornAppend(p)
      PROVE  HandoffSound'
  BY <1>3, AppendRecordSound, AppendFailsSound, TornAppendSound
<1>4. ASSUME UNCHANGED storeVars, Fuse(p) \/ PublishResult(p) \/ PublishStopping(p)
      PROVE  HandoffSound'
  BY <1>4, FuseSound, PublishResultSound, PublishStoppingSound
<1>5. ASSUME UNCHANGED storeVars, Decide(p) \/ PublishDecision(p) \/ Persisted(p) \/ CrashHandoff(p)
      PROVE  HandoffSound'
  BY <1>5, DecideSound, PublishDecisionSound, PersistedSound, CrashSound
<1>6. CASE PersistHandoff(p)
  BY <1>6, PersistHandoffSound
<1> QED  BY <1>1, <1>2, <1>3, <1>4, <1>5, <1>6 DEF Handoff, HandoffOnly

LEMMA HandoffInitially ==
    ASSUME Init
    PROVE  HandoffSound
<1>1. /\ dir = [d \in Directories |-> EmptyDirectory] /\ dirLock = [d \in Directories |-> None]
      /\ validation = None /\ ho = [p \in Procs |-> NoCommand]
  BY DEF Init, HandoffInit
<1>2. NoCommand = CommandRecord(NoCommand) /\ NoCommand.phase = "idle"
  BY DEF NoCommand, CommandRecord
<1>3. \A p \in Procs : ho[p] = CommandRecord(ho[p]) /\ ho[p].phase = "idle"
  <2> HIDE DEF NoCommand
  <2> QED  BY <1>1, <1>2
<1>4. DirectorySound(EmptyDirectory, decisions)
  BY DEF EmptyDirectory, DirectorySound, DirectoryRecord, IsTrace
<1>5. \A d \in Directories : DirectorySound(dir[d], decisions)
  BY <1>1, <1>4
<1>6. HandoffShape
  BY <1>1, <1>3 DEF HandoffShape
<1> QED  BY <1>3, <1>5, <1>6 DEF HandoffSound

-----------------------------------------------------------------------------
\* Everyone who moves the store moves it by a transaction, a read or a
\* submission it takes.
LEMMA S0SubmissionFields ==
    ASSUME NullIsNoFunction, NEW i
    PROVE  /\ S0Submission(i) # None
           /\ S0Submission(i).id = i.input.id
           /\ S0Submission(i).scope = <<world.meta.run, i.input.entity>>
           /\ S0Submission(i).runtime # None
<1>1. PICK d, c, s, e, r, u, m, v, ev, o, b :
        /\ S0Submission(i) =
             [id |-> d, scope |-> c, supersedes |-> s, decision |-> e, runtime |-> r, run |-> u,
              meta |-> m, saveRun |-> v, events |-> ev, coherent |-> o, basis |-> b]
        /\ d = i.input.id /\ c = <<world.meta.run, i.input.entity>> /\ r = S0Runtime(i)
  BY Zenon DEF S0Submission
<1>2. PICK q : q = [id |-> d, scope |-> c, supersedes |-> s, decision |-> e, runtime |-> r,
                    run |-> u, meta |-> m, saveRun |-> v, events |-> ev, coherent |-> o,
                    basis |-> b]
  OBVIOUS
<1>3. q = [x \in DOMAIN q |-> q[x]] /\ q.id = d /\ q.scope = c /\ q.runtime = r
  BY <1>2
<1>4. r # None
  <2>1. PICK a1, a2, a3, a4 :
          S0Runtime(i) = [detection |-> a1, fusion |-> a2, trace |-> a3, config |-> a4]
    BY Zenon DEF S0Runtime, RuntimeOf
  <2>2. PICK t : t = [detection |-> a1, fusion |-> a2, trace |-> a3, config |-> a4]
    OBVIOUS
  <2>3. t = [x \in DOMAIN t |-> t[x]]
    BY <2>2
  <2> QED  BY <1>1, <2>1, <2>2, <2>3, RecordThere, Zenon
<1>5. q # None /\ S0Submission(i) = q
  BY <1>1, <1>2, <1>3, RecordThere, Zenon
<1> QED  BY <1>1, <1>3, <1>4, <1>5

LEMMA PersistMoves ==
    ASSUME NullIsNoFunction, GivenSound, InvocationsSound, world # None,
           NEW p \in Procs, Persist(p)
    PROVE  StoreMove
<1>1. CASE UNCHANGED storeVars
  BY <1>1 DEF StoreMove
<1>2. CASE Submit(p, S0Submission(inv[p]))
  <2>1. inv[p].input \in world.inputs
    BY DEF Persist, InvocationsSound
  <2>2. inv[p].input.id \in Ids /\ <<world.meta.run, inv[p].input.entity>> \in Scopes
    BY <2>1 DEF GivenSound
  <2>3. PICK sub : sub = S0Submission(inv[p])
    OBVIOUS
  <2>4. IsSubmission(sub)
    BY <2>2, <2>3, S0SubmissionFields DEF IsSubmission
  <2> QED  BY <1>2, <2>3, <2>4 DEF StoreMove
<1> QED  BY <1>1, <1>2 DEF Persist

LEMMA PersistHandoffMoves ==
    ASSUME NullIsNoFunction, GivenSound, HandoffSound, NEW p \in Procs, PersistHandoff(p)
    PROVE  StoreMove
<1>1. CASE UNCHANGED storeVars
  BY <1>1 DEF StoreMove
<1>2. CASE Submit(p, HandoffSubmission(ho[p]))
  <2>1. episode # None /\ ho[p].decision.id \in Ids
    BY Working DEF PersistHandoff, CommandSound, DecisionMade, FilesMade
  <2>2. PICK sub : sub = HandoffSubmission(ho[p])
    OBVIOUS
  <2>3. IsSubmission(sub)
    BY <2>1, <2>2, HandoffSubmissionFields DEF IsSubmission, GivenSound
  <2> QED  BY <1>2, <2>2, <2>3 DEF StoreMove
<1> QED  BY <1>1, <1>2 DEF PersistHandoff

LEMMA EveryoneMovesTheStore ==
    ASSUME NullIsNoFunction, GivenSound, InvocationsSound, HandoffSound, [Next]_vars
    PROVE  StoreMove
<1>0. cast.procs \subseteq Procs /\ cast.readers \subseteq Readers
  BY DEF GivenSound
<1>1. CASE UNCHANGED storeVars
  BY <1>1 DEF StoreMove
<1>2. CASE UNCHANGED vars
  BY <1>1, <1>2 DEF vars
<1>3. CASE Fast
  BY <1>1, <1>3 DEF Fast, FastOnly
<1>4. CASE Replaying
  BY <1>1, <1>4 DEF Replaying, ReplayOnly
<1>5. CASE Store
  BY <1>0, <1>5 DEF Store, StoreMove, Transaction, Reading
<1>6. CASE Feeding
  BY <1>1, <1>6 DEF Feeding, FeedOnly
<1>7. ASSUME NEW p \in cast.procs, Pipeline(p)
      PROVE  StoreMove
  BY <1>0, <1>1, <1>7, PersistMoves DEF Pipeline, FastOnly, PipelineOnly
<1>8. ASSUME NEW p \in cast.procs, Handoff(p)
      PROVE  StoreMove
  <2>1. CASE PersistHandoff(p)
    BY <1>0, <2>1, PersistHandoffMoves
  <2>2. CASE UNCHANGED storeVars
    BY <1>1, <2>2
  <2> QED  BY <1>8, <2>1, <2>2 DEF Handoff
<1>9. ASSUME NEW e \in cast.executions, Telemetry(e)
      PROVE  StoreMove
  BY <1>1, <1>9 DEF Telemetry, TelemetryOnly
<1> QED  BY <1>2, <1>3, <1>4, <1>5, <1>6, <1>7, <1>8, <1>9 DEF Next

-----------------------------------------------------------------------------
\* The invariant of the commands.
LEMMA TransactionsKeepSubmissions ==
    ASSUME StoreInv, NEW q \in Procs, Transaction(q), NEW p \in Procs
    PROVE  tx'[p].sub = tx[p].sub
<1>1. PICK phase : tx' = [tx EXCEPT ![q] = [phase |-> phase, sub |-> tx[q].sub]]
  <2>1. \E phase : tx' = [tx EXCEPT ![q] = [phase |-> phase, sub |-> tx[q].sub]]
    <3>1. CASE AcquireIdLock(q) \/ AcquireScopeLock(q)
      BY <3>1, Zenon DEF AcquireIdLock, AcquireScopeLock
    <3>2. CASE CheckExisting(q) \/ Lose(q) \/ Commit(q)
      BY <3>2, Zenon DEF CheckExisting, Lose, Commit, End
    <3>3. CASE CheckHead(q)
      BY <3>3, Zenon DEF CheckHead, End
    <3> QED  BY <3>1, <3>2, <3>3 DEF Transaction
  <2> QED  BY <2>1
<1>2. DOMAIN tx = Procs
  BY DEF StoreInv, TablesInv, StoreTypeOK, StoreShape
<1> QED  BY <1>1, <1>2

LEMMA StoreKeepsSubmissions ==
    ASSUME StoreInv, GivenSound, Store, NEW p \in Procs
    PROVE  tx'[p].sub = tx[p].sub
<1>1. cast.procs \subseteq Procs /\ cast.readers \subseteq Readers
  BY DEF GivenSound
<1>2. CASE \E q \in Procs : Transaction(q)
  BY <1>2, TransactionsKeepSubmissions
<1>3. CASE \E r \in Readers : Reading(r)
  BY <1>3, ReadingFrame
<1> QED  BY <1>1, <1>2, <1>3 DEF Store, Transaction, Reading

\* Who does not serve a handoff leaves the handoffs sound.
LEMMA OthersKeepHandoffs ==
    ASSUME HandoffSound, GivenSound, UNCHANGED given, UNCHANGED handoffVars, DecisionsStay,
           \/ episode = None
           \/ \A p \in Procs : tx'[p].sub = tx[p].sub
    PROVE  HandoffSound'
<1>1. \A p \in Procs : ho[p].phase = "persisting" => tx'[p].sub = tx[p].sub
  BY DEF HandoffSound, HandoffShape
<1> QED  BY <1>1, HandoffFrame

LEMMA HandoffsNext ==
    ASSUME NullIsNoFunction, CommandsInv, [Next]_vars, UNCHANGED given, DecisionsStay
    PROVE  HandoffSound'
<1>0. /\ GivenSound /\ HandoffSound /\ StoreInv /\ AnswersHold /\ cast.procs \subseteq Procs
  BY DEF CommandsInv, GivenSound
<1>1. CASE UNCHANGED <<storeVars, handoffVars>>
  BY <1>0, <1>1, OthersKeepHandoffs DEF storeVars
<1>2. CASE UNCHANGED vars
  BY <1>1, <1>2 DEF vars
<1>3. CASE Fast
  BY <1>1, <1>3 DEF Fast, FastOnly
<1>4. CASE Replaying
  BY <1>1, <1>4 DEF Replaying, ReplayOnly
<1>5. CASE Store
  <2>1. UNCHANGED handoffVars
    BY <1>5 DEF Store, StoreOnly
  <2> QED  BY <1>0, <1>5, <2>1, StoreKeepsSubmissions, OthersKeepHandoffs
<1>6. CASE Feeding
  BY <1>1, <1>6 DEF Feeding, FeedOnly
<1>7. ASSUME NEW p \in cast.procs, Pipeline(p)
      PROVE  HandoffSound'
  <2>1. world # None /\ UNCHANGED handoffVars
    BY <1>7 DEF Pipeline, FastOnly, PipelineOnly
  <2>2. episode = None
    BY <1>0, <2>1 DEF GivenSound
  <2> QED  BY <1>0, <2>1, <2>2, OthersKeepHandoffs
<1>8. ASSUME NEW p \in cast.procs, Handoff(p)
      PROVE  HandoffSound'
  BY <1>0, <1>8, HandoffStep
<1>9. ASSUME NEW e \in cast.executions, Telemetry(e)
      PROVE  HandoffSound'
  BY <1>1, <1>9 DEF Telemetry, TelemetryOnly
<1> QED  BY <1>2, <1>3, <1>4, <1>5, <1>6, <1>7, <1>8, <1>9 DEF Next

\* The pipeline, the fast runner and the replay.
LEMMA RunnersNext ==
    ASSUME NullIsNoFunction, CommandsInv, [Next]_vars, UNCHANGED given
    PROVE  InvocationsSound' /\ FastSound' /\ ReplaySound'
<1>0. /\ InvocationsSound /\ FastSound /\ ReplaySound /\ cast.procs \subseteq Procs
  BY DEF CommandsInv, GivenSound
<1>1. CASE UNCHANGED <<pipelineVars, replayVars>>
  BY <1>0, <1>1, InvocationsFrame, FastFrame, ReplayFrame DEF pipelineVars
<1>2. CASE UNCHANGED vars
  BY <1>1, <1>2 DEF vars
<1>3. CASE Fast
  <2>1. UNCHANGED <<inv, replayVars>>
    BY <1>3 DEF Fast, FastOnly, FastRead, FastStage, LinkHits, LinkTrace, FastRollback,
       FastCrash, RewriteCsv, FastSelect
  <2> QED  BY <1>0, <1>3, <2>1, InvocationsFrame, FastStep, ReplayFrame
<1>4. CASE Replaying
  <2>1. UNCHANGED pipelineVars
    BY <1>4 DEF Replaying, ReplayOnly
  <2> QED  BY <1>0, <1>4, <2>1, InvocationsFrame, FastFrame, ReplayStep DEF pipelineVars
<1>5. CASE Store
  BY <1>1, <1>5 DEF Store, StoreOnly
<1>6. CASE Feeding
  BY <1>1, <1>6 DEF Feeding, FeedOnly
<1>7. ASSUME NEW p \in cast.procs, Pipeline(p)
      PROVE  InvocationsSound' /\ FastSound' /\ ReplaySound'
  <2>1. UNCHANGED <<files, runner, replayVars>>
    BY <1>7 DEF Pipeline, FastOnly, PipelineOnly, Invoke, LoadFast, Persist
  <2> QED  BY <1>0, <1>7, <2>1, InvocationStep, FastFrame, ReplayFrame
<1>8. ASSUME NEW p \in cast.procs, Handoff(p)
      PROVE  InvocationsSound' /\ FastSound' /\ ReplaySound'
  BY <1>1, <1>8 DEF Handoff, HandoffOnly
<1>9. ASSUME NEW e \in cast.executions, Telemetry(e)
      PROVE  InvocationsSound' /\ FastSound' /\ ReplaySound'
  BY <1>1, <1>9 DEF Telemetry, TelemetryOnly
<1> QED  BY <1>2, <1>3, <1>4, <1>5, <1>6, <1>7, <1>8, <1>9 DEF Next

LEMMA CommandsMove ==
    ASSUME NullIsNoFunction, CommandsInv, [Next]_vars
    PROVE  StoreMove /\ StoreInv
BY EveryoneMovesTheStore DEF CommandsInv

LEMMA CommandsNext ==
    ASSUME NullIsNoFunction, CommandsInv, [Next]_vars
    PROVE  CommandsInv'
<1>1. UNCHANGED given
  BY NextKeepsGiven
<1>2. StoreMove /\ StoreInv /\ ReadsAreOfOneHead /\ AnswersHold /\ GivenSound
  BY CommandsMove DEF CommandsInv
<1>3. StoreInv' /\ ReadsAreOfOneHead' /\ AnswersHold' /\ DecisionsStay
  BY <1>2, MoveKeepsStore, MoveKeepsReads, MoveKeepsAnswers, MoveKeepsDecisions
<1>4. GivenSound'
  BY <1>1, <1>2, GivenStays
<1>5. InvocationsSound' /\ FastSound' /\ ReplaySound' /\ HandoffSound'
  BY <1>1, <1>3, RunnersNext, HandoffsNext
<1> QED  BY <1>3, <1>4, <1>5 DEF CommandsInv

LEMMA CommandsInitially ==
    ASSUME Init
    PROVE  CommandsInv
<1>1. StoreEmpty
  BY DEF Init
<1>2. StoreInv /\ ReadsAreOfOneHead
  BY <1>1, EmptyStoreSound, ReadsInitially
<1>3. AnswersHold
  <2>1. tx = [p \in Procs |-> [phase |-> "idle", sub |-> None]]
    BY <1>1 DEF StoreEmpty, Idle
  <2>2. \A p \in Procs : tx[p].phase # "committed"
    BY <2>1
  <2> QED  BY <2>2 DEF AnswersHold
<1> QED  BY <1>2, <1>3, GivenInitially, InvocationsInitially, FastInitially, ReplayInitially,
            HandoffInitially DEF CommandsInv

\* Every command relies on what is there: an invocation past its fusion serves an
\* input of its run, a handoff holds the lock of its directory, publishes the
\* files of its own results, submits the decision it published and records as
\* persisted what the store has; the store, its readers and its answers are sound
\* with these callers.
THEOREM CommandsAreSound ==
    ASSUME NullIsNoFunction
    PROVE  Spec => []CommandsInv
<1>1. CommandsInv /\ [Next]_vars => CommandsInv'
  BY CommandsNext
<1>2. Init => CommandsInv
  BY CommandsInitially
<1> QED  BY <1>1, <1>2, PTL DEF Spec

LEMMA MarkersOfCommands == CommandsInv => MarkerImpliesContent
<1> SUFFICES ASSUME CommandsInv PROVE MarkerImpliesContent
  OBVIOUS
<1>1. world # None /\ files.trace # None => files.hits = files.trace.output
  BY DEF CommandsInv, FastSound
<1>2. replayed.provenance # None => ReplayLoads
  BY DEF CommandsInv, ReplaySound
<1>3. ASSUME NEW d \in Directories, NEW i \in DOMAIN dir[d].trace,
             dir[d].trace[i].stage = "decision_recorded"
      PROVE  /\ FilesMatch(d, dir[d].trace[i])
             /\ dir[d].trace[i].persisted =>
                   /\ decisions[dir[d].trace[i].decision.id] # None
                   /\ decisions[dir[d].trace[i].decision.id].decision = dir[d].trace[i].decision
  <2>1. EntrySound(dir[d].trace[i], dir[d], decisions)
    BY <1>3 DEF CommandsInv, HandoffSound, DirectorySound
  <2> QED  BY <2>1 DEF EntrySound, FilesMatch, InTable
<1> QED  BY <1>1, <1>2, <1>3 DEF MarkerImpliesContent

\* A completion marker announces nothing that is not there, wherever a process or
\* a transaction ended and however a trace was torn: the trace of the fast runner,
\* the provenance of the replay and the decision_recorded records of a handoff.
THEOREM MarkersAreBacked ==
    ASSUME NullIsNoFunction
    PROVE  Spec => []MarkerImpliesContent
BY CommandsAreSound, MarkersOfCommands, PTL

\* The tables behave as one append-only log per scope with the callers there are:
\* S0 invocations and R1 handoffs that read the head, end, repeat and race.
THEOREM SystemKeepsHistory ==
    ASSUME NullIsNoFunction
    PROVE  Spec => HistoryKept
<1>1. Init => History!Init
  BY HistoryInitially DEF Init
<1>2. CommandsInv /\ [Next]_vars => [History!Next]_<<Logged, latest>>
  BY CommandsMove, MoveIsLogged
<1> QED  BY <1>1, <1>2, CommandsAreSound, PTL DEF Spec, HistoryKept, History!Spec

\* A dashboard view is of one decision while those callers commit around it.
THEOREM SystemViewsAreConsistent ==
    ASSUME NullIsNoFunction
    PROVE  Spec => []ViewIsConsistent
<1>1. CommandsInv => ViewIsConsistent
  BY ReadsShowViews DEF CommandsInv
<1> QED  BY <1>1, CommandsAreSound, PTL

\* What was stored under an id stays, whoever commits, repeats or crashes.
THEOREM SystemDecisionsAreFinal ==
    ASSUME NullIsNoFunction
    PROVE  Spec => [][DecisionsStay]_vars
<1>1. CommandsInv /\ [Next]_vars => [DecisionsStay]_vars
  BY CommandsMove, MoveKeepsDecisions
<1> QED  BY <1>1, CommandsAreSound, PTL DEF Spec

\* The history the dashboard rebuilds from the links of the stored payloads is the
\* order of commits while invocations and handoffs end, repeat and race.
THEOREM SystemHistoryIsRebuilt ==
    ASSUME NullIsNoFunction
    PROVE  Spec => []HistoryIsRebuilt
<1>1. CommandsInv => HistoryIsRebuilt
  BY HistoryRebuilt DEF CommandsInv, StoreInv
<1> QED  BY <1>1, CommandsAreSound, PTL

-----------------------------------------------------------------------------
(***************************************************************************)
(* What an R1 handoff finds                                                *)
(***************************************************************************)
R1Points(c) == CausalPoints(c, episode.meta.start, episode.meta.end)

R1Hits(c, at) ==
    [i \in 1..Len(R1Points(c)) |->
        R1Points(c)[i] >= at /\ ReferenceHit(c, episode.pub.restored, R1Points(c)[i])]

R1Fused(c, at) == FusedAt(c, R1Points(c), R1Hits(c, at))

\* A decision over what became available at a time, of a fast status.
R1Right(d, at, c, status) ==
    /\ d.fusion = IF R1Fused(c, at) = None THEN "miss" ELSE "detected"
    /\ d.fusionTime = R1Fused(c, at)
    /\ d.fast = status
    /\ d.te = IF {d.detectorTime, d.fusionTime} \ {None} = {} \/ d.fast = "not_evaluated"
                THEN None ELSE Min({d.detectorTime, d.fusionTime} \ {None})

\* An R1 decision that was made of right results is the expected one.
LEMMA R1RightIsExpected ==
    ASSUME NEW d, NEW basis, R1Right(d, basis.at, basis.config, basis.fast.detection.status)
    PROVE  R1Expected(d, basis)
<1>1. R1Fused(basis.config, basis.at) =
        IF basis.config.k > Len(R1Points(basis.config)) THEN None
        ELSE ReferenceTime(R1Points(basis.config), R1Hits(basis.config, basis.at))[basis.config.k]
  BY DEF R1Fused, FusedAt
<1> QED  BY <1>1, Zenon DEF R1Right, R1Expected, R1Points, R1Hits

\* The inputs of an episode have times, and its configurations are valid.
EpisodeTyped ==
    episode # None =>
        /\ episode.meta.start \in Int /\ IsTime(episode.meta.end) /\ episode.clock \subseteq Int
        /\ episode.pub.restored \in Seq(ToSet(episode.pub.restored))
        /\ \A i \in DOMAIN episode.pub.restored :
              /\ episode.pub.restored[i].timestamp \in Int
              /\ episode.pub.restored[i].id \in Int
        /\ \A a \in episode.commands :
              /\ Numeric(a.config) /\ IsTime(a.fast.detection.time)
              /\ \A b \in episode.commands :
                    b.config.version = a.config.version => b.config = a.config

LEMMA EpisodeInitially ==
    ASSUME Init
    PROVE  EpisodeTyped
<1> SUFFICES ASSUME episode # None
             PROVE  EpisodeTyped
  BY DEF EpisodeTyped
<1>1. PICK s \in Scenarios : episode = s.episode
  BY DEF Init
<1>2. /\ episode.meta.start \in Int /\ episode.meta.end \in Int \cup {None}
      /\ episode.clock \subseteq Int
      /\ episode.pub.restored \in Seq(ToSet(episode.pub.restored))
  BY <1>1, EpisodeAssumption
<1>3. \A i \in DOMAIN episode.pub.restored :
        {episode.pub.restored[i].timestamp, episode.pub.restored[i].id} \subseteq Int
  BY <1>1, EpisodeAssumption
<1>4. \A a \in episode.commands :
        /\ ConfigTyped(a.config) /\ ConfigValid(a.config)
        /\ a.fast.detection.time \in Int \cup {None}
        /\ \A b \in episode.commands :
              b.config.version = a.config.version => b.config = a.config
  BY <1>1, EpisodeAssumption
<1> QED  BY <1>2, <1>3, <1>4, ConfigIsNumeric DEF EpisodeTyped, IsTime

\* What a handoff fuses is what the reference finds at its availability time.
LEMMA HandoffFinds ==
    ASSUME NullIsNoFunction, EpisodeTyped, episode # None,
           NEW cmd \in episode.commands, NEW at \in episode.clock,
           PublishedValid(episode.pub, episode.meta),
           NEW s, s = Scheduled(episode.pub.restored, at),
           CausalAccepts(s, episode.meta.start, episode.meta.end),
           NEW out, out = CausalOutput(cmd.config, s, episode.meta), out.valid
    PROVE  FoundAt(out.fusion, R1Fused(cmd.config, at))
<1> DEFINE items == episode.pub.restored
           c == cmd.config
           start == episode.meta.start
           end == episode.meta.end
<1>1. /\ start \in Int /\ IsTime(end) /\ at \in Int /\ Numeric(c)
      /\ items \in Seq(ToSet(items))
      /\ \A i \in DOMAIN items : items[i].timestamp \in Int /\ items[i].id \in Int
  BY DEF EpisodeTyped
<1>2. end # None /\ \A i, j \in DOMAIN items : i # j => items[i].id # items[j].id
  BY DEF PublishedValid
<1>3. end \in Int /\ end >= start
  BY <1>1, <1>2 DEF IsTime, CausalAccepts
<1>4. ToSet(s) = {[evidence |-> e, available |-> at] : e \in ToSet(items)}
  BY <1>1, <1>2, ScheduleIsAll
<1>5. \A e \in ToSet(items) : e.timestamp \in Int
  BY <1>1 DEF ToSet
<1>6. R1Points(c) = CausalPoints(c, start, end)
  BY DEF R1Points
<1>7. R1Hits(c, at) = [i \in 1..Len(CausalPoints(c, start, end)) |->
                          /\ CausalPoints(c, start, end)[i] >= at
                          /\ ReferenceHit(c, items, CausalPoints(c, start, end)[i])]
  BY Zenon DEF R1Hits, R1Points
<1> HIDE DEF items, c, start, end
<1>8. Finds(CausalReplay(c, s, start, end).stopping,
            FusedAt(c, CausalPoints(c, start, end),
                    [i \in 1..Len(CausalPoints(c, start, end)) |->
                          /\ CausalPoints(c, start, end)[i] >= at
                          /\ ReferenceHit(c, items, CausalPoints(c, start, end)[i])]))
  BY <1>1, <1>3, <1>4, <1>5, CausalReplayIsReference
<1>9. Finds(CausalReplay(c, s, start, end).stopping, R1Fused(c, at))
  BY <1>6, <1>7, <1>8, Zenon DEF R1Fused
<1> QED  BY <1>9, CausalOutputFinds DEF c, start, end

\* A decision combined from what the fusion found and a fast result is right.
LEMMA HandoffDecides ==
    ASSUME NEW c, NEW at, NEW fusion, FoundAt(fusion, R1Fused(c, at)),
           NEW f, CombineAccepts(f, fusion), IsTime(f.detection.time),
           NEW id, NEW config, NEW supersedes, NEW d,
           d = Combine(f, fusion, id, config, supersedes), DecisionValid(d)
    PROVE  R1Right(d, at, c, f.detection.status)
<1>1. /\ d.fast = f.detection.status /\ d.detectorTime = f.detection.time
      /\ d.fusion = FusionJson(fusion).status /\ d.fusionTime = FusionJson(fusion).time
  BY CombinedFields
<1>2. /\ d.fusion = IF R1Fused(c, at) = None THEN "miss" ELSE "detected"
      /\ d.fusionTime = R1Fused(c, at) /\ IsTime(d.fusionTime) /\ IsTime(d.detectorTime)
  BY <1>1 DEF FoundAt
<1>3. d.fast \in Statuses /\ d.fusion \in {"miss", "detected"} /\ d.fusion \in Statuses
  BY <1>1, <1>2 DEF CombineAccepts, DetectionValid, Statuses
<1>4. d.te = EarliestOf(d)
  BY <1>2, <1>3, TeIsEarliest
<1>5. "not_evaluated" \in {d.fast, d.fusion} <=> d.fast = "not_evaluated"
  BY <1>3
<1> QED  BY <1>1, <1>2, <1>4, <1>5 DEF R1Right, EarliestOf

\* What a decision says under an identity, whichever command asks.
AnswersUnder(d, identity) ==
    \A cmd \in episode.commands, at \in episode.clock :
        identity = <<"R1", at, cmd.config.version, cmd.fast.detection.status>> =>
            R1Right(d, at, cmd.config, cmd.fast.detection.status)

\* What is right for a command is a right answer under its identity.
LEMMA IdentityAnswers ==
    ASSUME EpisodeTyped, episode # None, NEW h, h.cmd \in episode.commands,
           h.at \in episode.clock,
           NEW d, R1Right(d, h.at, h.cmd.config, h.cmd.fast.detection.status)
    PROVE  AnswersUnder(d, Identity(h))
<1> SUFFICES ASSUME NEW cmd \in episode.commands, NEW at \in episode.clock,
                    Identity(h) = <<"R1", at, cmd.config.version, cmd.fast.detection.status>>
             PROVE  R1Right(d, at, cmd.config, cmd.fast.detection.status)
  BY DEF AnswersUnder
<1>1. /\ h.at = at /\ h.cmd.config.version = cmd.config.version
      /\ h.cmd.fast.detection.status = cmd.fast.detection.status
  BY DEF Identity
<1>2. h.cmd.config = cmd.config
  BY <1>1 DEF EpisodeTyped
<1> QED  BY <1>1, <1>2

\* A decision under the identity of a command is the one expected of it.
LEMMA AnswersExpected ==
    ASSUME NEW h, h.cmd \in episode.commands, h.at \in episode.clock, NEW d,
           AnswersUnder(d, Identity(h)),
           NEW basis, basis = [path |-> "r1", at |-> h.at, config |-> h.cmd.config,
                               fast |-> h.cmd.fast]
    PROVE  R1Expected(d, basis)
<1>1. R1Right(d, h.at, h.cmd.config, h.cmd.fast.detection.status)
  BY DEF AnswersUnder, Identity
<1>2. basis.at = h.at /\ basis.config = h.cmd.config /\ basis.fast = h.cmd.fast
  OBVIOUS
<1> QED  BY <1>1, <1>2, R1RightIsExpected

-----------------------------------------------------------------------------
(***************************************************************************)
(* A handoff on its way to its answer                                      *)
(***************************************************************************)

\* What a handoff holds is what the reference finds at its time: the result while
\* the decision is not made, then the decision.
BeforeDecision == {"result", "stopping", "completed", "decide"}

RightCommand(h) ==
    /\ h.phase \notin {"input", "reject"} => PublishedValid(episode.pub, episode.meta)
    /\ h.phase \in BeforeDecision => FoundAt(h.out.fusion, R1Fused(h.cmd.config, h.at))
    /\ h.phase \in DecisionMade => AnswersUnder(h.decision, Identity(h))

\* What a directory has recorded answers under the identity of its record.
RightTrace(trace) ==
    \A i \in DOMAIN trace : trace[i].stage = "decision_recorded" =>
        AnswersUnder(trace[i].decision, trace[i].identity)

HandoffsRight ==
    /\ \A d \in Directories : RightTrace(dir[d].trace)
    /\ \A p \in Procs : ho[p].phase # "idle" => RightCommand(ho[p])

\* An episode does not change, nor does what is right in it.
LEMMA RightStays ==
    ASSUME UNCHANGED episode,
           \A d \in Directories : RightTrace(dir'[d].trace),
           \A p \in Procs : ho'[p].phase # "idle" => RightCommand(ho'[p])
    PROVE  HandoffsRight'
<1>1. \A c, at : R1Fused(c, at)' = R1Fused(c, at)
  BY Zenon DEF R1Fused, R1Points, R1Hits
<1>2. \A d, at, c, s : R1Right(d, at, c, s)' <=> R1Right(d, at, c, s)
  BY <1>1, Zenon DEF R1Right
<1>3. \A d, i : AnswersUnder(d, i)' <=> AnswersUnder(d, i)
  BY <1>2, Zenon DEF AnswersUnder
<1> QED  BY <1>1, <1>3, Zenon DEF HandoffsRight, RightTrace, RightCommand

-----------------------------------------------------------------------------
\* The traces of the directories.
TraceMoves(p) ==
    \A d \in Directories :
        \/ dir'[d].trace = dir[d].trace
        \/ /\ d = ho[p].cmd.dir /\ ho[p].phase \in Appending
           /\ dir'[d].trace = Append(dir[d].trace, TraceRecord(ho[p]))

LEMMA StillTraces ==
    ASSUME UNCHANGED dir, NEW p
    PROVE  TraceMoves(p)
BY DEF TraceMoves

LEMMA FileKeepsTraces ==
    ASSUME HandoffSound, NEW p, NEW f \in DirectoryFiles, NEW content, NEW next,
           PublishFile(p, f, content, next)
    PROVE  TraceMoves(p)
<1> SUFFICES ASSUME NEW d \in Directories
             PROVE  dir'[d].trace = dir[d].trace
  BY DEF TraceMoves
<1>1. DOMAIN dir = Directories /\ dir[d] = DirectoryRecord(dir[d])
  BY DEF HandoffSound, HandoffShape, DirectorySound
<1>2. CASE UNCHANGED dir
  BY <1>2
<1>3. CASE dir' = [dir EXCEPT ![ho[p].cmd.dir][f] = content]
  <2>1. CASE d # ho[p].cmd.dir
    BY <1>1, <1>3, <2>1
  <2>2. CASE d = ho[p].cmd.dir
    <3>1. dir'[d] = [dir[d] EXCEPT ![f] = content]
      BY <1>1, <1>3, <2>2
    <3>2. f # "trace"
      BY DEF DirectoryFiles
    <3>3. PICK x : x = dir[d] /\ x = DirectoryRecord(x)
      BY <1>1
    <3>4. [x EXCEPT ![f] = content].trace = x.trace
      BY <3>2, <3>3 DEF DirectoryRecord
    <3> QED  BY <3>1, <3>3, <3>4
  <2> QED  BY <2>1, <2>2
<1> QED  BY <1>2, <1>3 DEF PublishFile

\* An append, whole or torn, adds at most the record of its command.
LEMMA AppendMovesTrace ==
    ASSUME HandoffSound, NEW p, ho[p].phase \in Appending, NEW v,
           dir' = [dir EXCEPT ![ho[p].cmd.dir].trace = Append(@, TraceRecord(ho[p])),
                              ![ho[p].cmd.dir].torn = v]
    PROVE  TraceMoves(p)
<1> SUFFICES ASSUME NEW d \in Directories
             PROVE  \/ dir'[d].trace = dir[d].trace
                    \/ /\ d = ho[p].cmd.dir
                       /\ dir'[d].trace = Append(dir[d].trace, TraceRecord(ho[p]))
  BY Zenon DEF TraceMoves
<1>0. PICK g, r : g = ho[p].cmd.dir /\ r = TraceRecord(ho[p])
  OBVIOUS
<1>1. DOMAIN dir = Directories /\ dir[d] = DirectoryRecord(dir[d])
  BY DEF HandoffSound, HandoffShape, DirectorySound
<1>2. dir' = [dir EXCEPT ![g].trace = Append(@, r), ![g].torn = v]
  BY <1>0, Zenon
<1>3. CASE d # g
  BY <1>1, <1>2, <1>3, Zenon
<1>4. CASE d = g
  <2>1. PICK x : x = dir[d] /\ x = DirectoryRecord(x)
    BY <1>1
  <2>2. PICK t : t = Append(x.trace, r)
    BY Zenon
  <2>3. dir'[d] = [x EXCEPT !.trace = t, !.torn = v]
    BY <1>1, <1>2, <1>4, <2>1, <2>2, Zenon DEF DirectoryRecord
  <2>4. [x EXCEPT !.trace = t, !.torn = v].trace = t
    BY <2>1 DEF DirectoryRecord
  <2> QED  BY <1>0, <1>4, <2>1, <2>2, <2>3, <2>4, Zenon
<1> QED  BY <1>0, <1>3, <1>4, Zenon

\* Every action of a handoff leaves the traces alone or appends to one.
LEMMA HandoffTraces ==
    ASSUME HandoffSound, NEW p \in Procs, Handoff(p)
    PROVE  TraceMoves(p)
<1>1. CASE UNCHANGED dir
  BY <1>1, StillTraces
<1>2. CASE AppendRecord(p)
  <2>1. PICK v : v = IF dir[ho[p].cmd.dir].torn = "newline" THEN "partial" ELSE "no"
    OBVIOUS
  <2>2. /\ ho[p].phase \in Appending
        /\ dir' = [dir EXCEPT ![ho[p].cmd.dir].trace = Append(@, TraceRecord(ho[p])),
                              ![ho[p].cmd.dir].torn = v]
    BY <1>2, <2>1 DEF AppendRecord
  <2> QED  BY <2>2, AppendMovesTrace, Zenon
<1>3. CASE TornAppend(p)
  <2>1. ho[p].phase \in Appending
    BY <1>3 DEF TornAppend
  <2>2. CASE dir' = [dir EXCEPT ![ho[p].cmd.dir].torn = "partial"]
    <3> SUFFICES ASSUME NEW d \in Directories
                 PROVE  dir'[d].trace = dir[d].trace
      BY DEF TraceMoves
    <3>1. DOMAIN dir = Directories /\ dir[d] = DirectoryRecord(dir[d])
      BY DEF HandoffSound, HandoffShape, DirectorySound
    <3>2. PICK x : x = dir[d] /\ x = DirectoryRecord(x)
      BY <3>1
    <3>3. [x EXCEPT !.torn = "partial"].trace = x.trace
      BY <3>2 DEF DirectoryRecord
    <3>4. dir'[d] \in {x, [x EXCEPT !.torn = "partial"]}
      BY <2>2, <3>1, <3>2
    <3> QED  BY <3>2, <3>3, <3>4
  <2>3. CASE dir' = [dir EXCEPT ![ho[p].cmd.dir].trace = Append(@, TraceRecord(ho[p])),
                                ![ho[p].cmd.dir].torn = "newline"]
    BY <2>1, <2>3, AppendMovesTrace, Zenon
  <2> QED  BY <1>3, <2>2, <2>3 DEF TornAppend
<1>4. CASE PublishResult(p) \/ PublishStopping(p) \/ PublishDecision(p)
  <2>1. {"result", "stopping", "decision"} \subseteq DirectoryFiles
    BY DEF DirectoryFiles
  <2> QED  BY <1>4, <2>1, FileKeepsTraces, Zenon
     DEF PublishResult, PublishStopping, PublishDecision
<1> QED  BY <1>1, <1>2, <1>3, <1>4, Zenon DEF Handoff, Acquire, CheckInput, RecordValidation,
            CheckIdentity, AppendFails, Fuse, Decide, PersistHandoff, Persisted, CrashHandoff

\* What is recorded is the decision of the handoff, under its identity, or what
\* its directory has recorded before.
LEMMA RecordAnswers ==
    ASSUME HandoffSound, GivenSound, HandoffsRight, NEW p \in Procs, ho[p].phase \in Appending,
           NEW r, r = TraceRecord(ho[p]), r.stage = "decision_recorded"
    PROVE  AnswersUnder(r.decision, r.identity)
<1>0. ho[p].phase # "idle"
  BY DEF Appending
<1>1. /\ CommandSound(p, ho[p], dir[ho[p].cmd.dir], dirLock, decisions, tx[p])
      /\ DirectorySound(dir[ho[p].cmd.dir], decisions) /\ ho[p].cmd.dir \in Directories
  BY <1>0, Working
<1>2. CASE ho[p].phase = "record" /\ ho[p].prior # None
  <2>1. PICK q : q = ho[p].prior
    OBVIOUS
  <2>2. PICK i \in DOMAIN dir[ho[p].cmd.dir].trace : dir[ho[p].cmd.dir].trace[i] = q
    BY <1>1, <1>2, <2>1 DEF CommandSound, PriorSound
  <2>3. q.stage = "decision_recorded"
    BY <1>1, <1>2, <2>1 DEF CommandSound, PriorSound
  <2>4. q = EntryRecord(q)
    BY <1>1, <2>2, <2>3, Zenon DEF DirectorySound, EntrySound
  <2>5. PICK v : r = [q EXCEPT !.persisted = v]
    BY <1>2, <2>1, Zenon DEF TraceRecord
  <2>6. r.decision = q.decision /\ r.identity = q.identity
    BY <2>4, <2>5 DEF EntryRecord
  <2>7. AnswersUnder(q.decision, q.identity)
    BY <1>1, <2>2, <2>3 DEF HandoffsRight, RightTrace
  <2> QED  BY <2>6, <2>7
<1>3. CASE ~(ho[p].phase = "record" /\ ho[p].prior # None)
  <2>1. r = NewRecord(ho[p])
    BY <1>3 DEF TraceRecord
  <2>2. PICK a, c, d, f : r = [stage |-> StageOf(ho[p].phase), identity |-> a, result |-> c,
                               stopping |-> d, decision |-> ho[p].decision, persisted |-> f]
                          /\ (ho[p].phase = "record" => a = Identity(ho[p]))
    BY <2>1, Zenon DEF NewRecord
  <2>3. r.stage = StageOf(ho[p].phase) /\ r.identity = a /\ r.decision = ho[p].decision
    BY <2>2
  <2>4. ho[p].phase = "record"
    BY <2>3 DEF StageOf, Appending
  <2>5. AnswersUnder(ho[p].decision, Identity(ho[p]))
    BY <1>0, <2>4 DEF HandoffsRight, RightCommand, DecisionMade, FilesMade
  <2> QED  BY <2>2, <2>3, <2>4, <2>5
<1> QED  BY <1>2, <1>3

\* Traces that move so stay right.
LEMMA TracesStayRight ==
    ASSUME HandoffSound, GivenSound, HandoffsRight, NEW p \in Procs, TraceMoves(p)
    PROVE  \A d \in Directories : RightTrace(dir'[d].trace)
<1> SUFFICES ASSUME NEW d \in Directories
             PROVE  RightTrace(dir'[d].trace)
  OBVIOUS
<1>1. RightTrace(dir[d].trace) /\ IsTrace(dir[d].trace)
  BY DEF HandoffsRight, HandoffSound, DirectorySound
<1>2. CASE dir'[d].trace = dir[d].trace
  BY <1>1, <1>2
<1>3. CASE /\ ho[p].phase \in Appending
           /\ dir'[d].trace = Append(dir[d].trace, TraceRecord(ho[p]))
  <2>1. PICK t, r : t = dir[d].trace /\ r = TraceRecord(ho[p])
    OBVIOUS
  <2>2. r.stage = "decision_recorded" => AnswersUnder(r.decision, r.identity)
    BY <1>3, <2>1, RecordAnswers
  <2>3. PICK u : u = Append(t, r)
    OBVIOUS
  <2>4. RightTrace(t) /\ IsTrace(t)
    BY <1>1, <2>1
  <2>5. ASSUME NEW i \in DOMAIN u
        PROVE  u[i] = r \/ (i \in DOMAIN t /\ u[i] = t[i])
    <3>1. Lengthens(u, t, r)
      BY <2>3, <2>4, AppendAny
    <3> QED  BY <2>5, <3>1 DEF Lengthens
  <2>6. RightTrace(u)
    BY <2>2, <2>4, <2>5 DEF RightTrace
  <2> QED  BY <1>3, <2>1, <2>3, <2>6
<1> QED  BY <1>2, <1>3 DEF TraceMoves

-----------------------------------------------------------------------------
\* The commands.
LEMMA GotoRight ==
    ASSUME HandoffSound, HandoffsRight, NEW p \in Procs, ho[p].phase # "idle",
           NEW x, Goto(p, x),
           x \notin {"input", "reject"} => ho[p].phase \notin {"input", "reject"},
           x \in BeforeDecision => ho[p].phase \in BeforeDecision,
           x \in DecisionMade => ho[p].phase \in DecisionMade
    PROVE  RightCommand(ho'[p])
<1>1. RightCommand(ho[p])
  BY DEF HandoffsRight
<1>2. /\ ho'[p].phase = x /\ ho'[p].cmd = ho[p].cmd /\ ho'[p].at = ho[p].at
      /\ ho'[p].out = ho[p].out /\ ho'[p].decision = ho[p].decision
  BY GotoFields
<1>3. Identity(ho'[p]) = Identity(ho[p])
  BY <1>2 DEF Identity
<1> QED  BY <1>1, <1>2, <1>3, Zenon DEF RightCommand

\* Before the fusion nothing is promised but that the set is a published one.
EarlyPhases == {"identity", "validated", "accept", "start", "fuse", "fail"}

LEMMA EarlyRight ==
    ASSUME NEW h, h.phase \in EarlyPhases, PublishedValid(episode.pub, episode.meta)
    PROVE  RightCommand(h)
BY DEF RightCommand, EarlyPhases, BeforeDecision, DecisionMade, FilesMade

LEMMA RejectRight ==
    ASSUME NEW h, h.phase \in {"input", "reject"}
    PROVE  RightCommand(h)
BY DEF RightCommand, BeforeDecision, DecisionMade, FilesMade

LEMMA CheckInputRight ==
    ASSUME HandoffSound, GivenSound, NEW p \in Procs, CheckInput(p)
    PROVE  RightCommand(ho'[p])
<1>1. CASE Goto(p, "reject")
  BY <1>1, GotoFields, RejectRight
<1>2. ASSUME NEW phase \in {"identity", "validated"}, NEW at,
             ho' = [ho EXCEPT ![p].phase = phase, ![p].at = at],
             PublishedValid(episode.pub, episode.meta)
      PROVE  RightCommand(ho'[p])
  <2>1. ho'[p].phase = phase
    BY <1>2, SomeEdits, Zenon DEF Edits
  <2>2. PublishedValid(episode.pub, episode.meta)
    BY <1>2
  <2>3. ho'[p].phase \in EarlyPhases
    BY <2>1 DEF EarlyPhases
  <2> QED  BY <2>2, <2>3, EarlyRight
<1>3. \/ Goto(p, "reject")
      \/ PublishedValid(episode.pub, episode.meta)
         /\ \/ ho' = [ho EXCEPT ![p].phase = "identity", ![p].at = validation]
            \/ \E now : ho' = [ho EXCEPT ![p].phase = "validated", ![p].at = now]
  BY Zenon DEF CheckInput
<1> QED  BY <1>1, <1>2, <1>3

\* A repeated command takes the decision of a record of its own identity.
LEMMA CheckIdentityRight ==
    ASSUME HandoffSound, GivenSound, HandoffsRight, NEW p \in Procs, CheckIdentity(p),
           ho'[p].phase # "idle"
    PROVE  RightCommand(ho'[p])
<1> DEFINE d == ho[p].cmd.dir
           done == Recorded(d, Identity(ho[p]))
           last == dir[d].trace[Max(done)]
           out == [fusion |-> dir[d].result, trace |-> dir[d].stopping]
<1>0. ho[p].phase = "identity"
  BY DEF CheckIdentity
<1>1. DirectorySound(dir[d], decisions) /\ d \in Directories
  BY <1>0, Working
<1>2. CASE Leave(p)
  BY <1>2, LeaveFields
<1>3. PublishedValid(episode.pub, episode.meta)
  BY <1>0 DEF HandoffsRight, RightCommand
<1>4. ASSUME NEW x \in {"reject", "accept"}, Goto(p, x)
      PROVE  RightCommand(ho'[p])
  <2>1. ho'[p].phase = x
    BY <1>4, GotoFields
  <2> QED  BY <1>3, <2>1, EarlyRight, RejectRight DEF EarlyPhases
<1>5. ASSUME done # {},
             ho' = [ho EXCEPT ![p].phase = "persist", ![p].prior = last, ![p].out = out,
                              ![p].decision = last.decision]
      PROVE  RightCommand(ho'[p])
  <2>1. Max(done) \in done
    <3>1. IsTrace(dir[d].trace)
      BY <1>1 DEF DirectorySound
    <3>2. done \subseteq DOMAIN dir[d].trace
      BY DEF Recorded
    <3> QED  BY <1>5, <3>1, <3>2, LastRecorded, Zenon
  <2>2. PICK k : k = Max(done)
    OBVIOUS
  <2>3. /\ k \in DOMAIN dir[d].trace /\ dir[d].trace[k].stage = "decision_recorded"
        /\ dir[d].trace[k].identity = Identity(ho[p])
    BY <2>1, <2>2, Zenon DEF Recorded
  <2>4. PICK r : r = dir[d].trace[k]
    OBVIOUS
  <2>5. AnswersUnder(r.decision, Identity(ho[p]))
    BY <1>1, <2>3, <2>4 DEF HandoffsRight, RightTrace
  <2>6. Edits(p, "persist", ho[p].at, out, r.decision, r)
    <3>1. ho' = [ho EXCEPT ![p].phase = "persist", ![p].prior = r, ![p].out = out,
                           ![p].decision = r.decision]
      BY <1>5, <2>2, <2>4, Zenon
    <3> HIDE DEF out
    <3> QED  BY <3>1, SomeEdits, Zenon
  <2>7. /\ ho'[p].phase = "persist" /\ ho'[p].decision = r.decision
        /\ ho'[p].at = ho[p].at /\ ho'[p].cmd = ho[p].cmd
    BY <2>6 DEF Edits
  <2>8. Identity(ho'[p]) = Identity(ho[p])
    BY <2>7 DEF Identity
  <2>9. AnswersUnder(ho'[p].decision, Identity(ho'[p]))
    BY <2>5, <2>7, <2>8, Zenon
  <2> QED  BY <1>3, <2>7, <2>9 DEF RightCommand, BeforeDecision
<1> QED  BY <1>2, <1>4, <1>5, Zenon DEF CheckIdentity

\* What a command holds after an append is right.
LEMMA AppendRight ==
    ASSUME HandoffSound, GivenSound, HandoffsRight, NEW p \in Procs, AppendRecord(p),
           ho'[p].phase # "idle"
    PROVE  RightCommand(ho'[p])
<1>0. ho[p].phase \in Appending /\ ho[p].phase # "idle"
  BY DEF AppendRecord, Appending
<1>1. CASE Leave(p)
  BY <1>1, LeaveFields
<1>2. CASE Goto(p, AfterAppend(ho[p].phase)) /\ AfterAppend(ho[p].phase) # "idle"
  <2>1. \/ ho[p].phase \in {"accept", "start"} /\ AfterAppend(ho[p].phase) \in {"start", "fuse"}
        \/ ho[p].phase = "completed" /\ AfterAppend(ho[p].phase) = "decide"
    BY <1>0, <1>2 DEF AfterAppend, Appending
  <2>2. PICK x : x = AfterAppend(ho[p].phase)
    OBVIOUS
  <2>3. /\ x \notin {"input", "reject"} /\ ho[p].phase \notin {"input", "reject"}
        /\ x \notin DecisionMade
        /\ x \in BeforeDecision => ho[p].phase \in BeforeDecision
    BY <2>1, <2>2 DEF DecisionMade, FilesMade, BeforeDecision
  <2> QED  BY <1>0, <1>2, <2>2, <2>3, GotoRight
<1> QED  BY <1>1, <1>2 DEF AppendRecord

\* The fusion is what the reference finds at the time of the validation.
LEMMA FuseRight ==
    ASSUME NullIsNoFunction, HandoffSound, GivenSound, EpisodeTyped, HandoffsRight,
           NEW p \in Procs, Fuse(p), ho'[p].phase # "idle"
    PROVE  RightCommand(ho'[p])
<1>0. ho[p].phase = "fuse"
  BY DEF Fuse
<1>1. /\ CommandSound(p, ho[p], dir[ho[p].cmd.dir], dirLock, decisions, tx[p])
      /\ episode # None
  BY <1>0, Working
<1>2. ho[p].cmd \in episode.commands /\ ho[p].at \in episode.clock
  BY <1>0, <1>1 DEF CommandSound
<1>3. PublishedValid(episode.pub, episode.meta)
  BY <1>0 DEF HandoffsRight, RightCommand
<1>4. PICK s : s = Scheduled(episode.pub.restored, ho[p].at)
  OBVIOUS
<1>5. PICK c : c = CausalOutput(ho[p].cmd.config, s, episode.meta)
  OBVIOUS
<1>6. CASE Leave(p)
  BY <1>6, LeaveFields
<1>7. CASE Goto(p, "fail")
  <2>1. ho'[p].phase \in EarlyPhases
    BY <1>7, GotoFields DEF EarlyPhases
  <2> QED  BY <1>3, <2>1, EarlyRight
<1>8. CASE /\ CausalAccepts(s, episode.meta.start, episode.meta.end) /\ c.valid
           /\ ho' = [ho EXCEPT ![p].phase = "result",
                               ![p].out = [fusion |-> c.fusion, trace |-> c.trace]]
  <2>1. FoundAt(c.fusion, R1Fused(ho[p].cmd.config, ho[p].at))
    BY <1>1, <1>2, <1>3, <1>4, <1>5, <1>8, HandoffFinds
  <2>2. PICK out : out = [fusion |-> c.fusion, trace |-> c.trace]
    OBVIOUS
  <2>3. out.fusion = c.fusion
    BY <2>2
  <2>4. ho' = [ho EXCEPT ![p].phase = "result", ![p].out = out]
    BY <1>8, <2>2, Zenon
  <2>5. Edits(p, "result", ho[p].at, out, ho[p].decision, ho[p].prior)
    BY <2>4, SomeEdits, Zenon
  <2>6. /\ ho'[p].phase = "result" /\ ho'[p].out = out /\ ho'[p].cmd = ho[p].cmd
        /\ ho'[p].at = ho[p].at
    BY <2>5 DEF Edits
  <2>7. FoundAt(ho'[p].out.fusion, R1Fused(ho'[p].cmd.config, ho'[p].at))
    BY <2>1, <2>3, <2>6, Zenon
  <2> QED  BY <1>3, <2>6, <2>7 DEF RightCommand, DecisionMade, FilesMade
<1>9. \/ Leave(p) \/ Goto(p, "fail")
      \/ /\ CausalAccepts(s, episode.meta.start, episode.meta.end) /\ c.valid
         /\ ho' = [ho EXCEPT ![p].phase = "result",
                             ![p].out = [fusion |-> c.fusion, trace |-> c.trace]]
  BY <1>4, <1>5, Zenon DEF Fuse
<1> QED  BY <1>6, <1>7, <1>8, <1>9

\* What a command holds after deciding is right.
LEMMA DecideRight ==
    ASSUME NullIsNoFunction, HandoffSound, GivenSound, EpisodeTyped, HandoffsRight,
           NEW p \in Procs, Decide(p), ho'[p].phase # "idle"
    PROVE  RightCommand(ho'[p])
<1>0. ho[p].phase = "decide"
  BY DEF Decide
<1>1. /\ CommandSound(p, ho[p], dir[ho[p].cmd.dir], dirLock, decisions, tx[p])
      /\ episode # None
  BY <1>0, Working
<1>2. ho[p].cmd \in episode.commands /\ ho[p].at \in episode.clock
  BY <1>0, <1>1 DEF CommandSound
<1>3. /\ PublishedValid(episode.pub, episode.meta)
      /\ FoundAt(ho[p].out.fusion, R1Fused(ho[p].cmd.config, ho[p].at))
  BY <1>0 DEF HandoffsRight, RightCommand, BeforeDecision
<1>4. PICK x : x = HandoffDecision(ho[p])
  OBVIOUS
<1>5. CASE Leave(p)
  BY <1>5, LeaveFields
<1>6. CASE /\ CombineAccepts(ho[p].cmd.fast, ho[p].out.fusion) /\ DecisionValid(x)
           /\ ho' = [ho EXCEPT ![p].phase = "decision", ![p].decision = x]
  <2>1. PICK path, s :
          x = Combine(ho[p].cmd.fast, ho[p].out.fusion, Identity(ho[p]), path, s)
    BY <1>4, Zenon DEF HandoffDecision
  <2>2. IsTime(ho[p].cmd.fast.detection.time)
    BY <1>1, <1>2 DEF EpisodeTyped
  <2>3. R1Right(x, ho[p].at, ho[p].cmd.config, ho[p].cmd.fast.detection.status)
    BY <1>3, <1>6, <2>1, <2>2, HandoffDecides
  <2>4. AnswersUnder(x, Identity(ho[p]))
    BY <1>1, <1>2, <2>3, IdentityAnswers
  <2>5. Edits(p, "decision", ho[p].at, ho[p].out, x, ho[p].prior)
    BY <1>6, SomeEdits, Zenon
  <2>6. /\ ho'[p].phase = "decision" /\ ho'[p].decision = x /\ ho'[p].cmd = ho[p].cmd
        /\ ho'[p].at = ho[p].at
    BY <2>5 DEF Edits
  <2>7. Identity(ho'[p]) = Identity(ho[p])
    BY <2>6 DEF Identity
  <2>8. AnswersUnder(ho'[p].decision, Identity(ho'[p]))
    BY <2>4, <2>6, <2>7, Zenon
  <2> QED  BY <1>3, <2>6, <2>8 DEF RightCommand, BeforeDecision
<1>7. \/ Leave(p)
      \/ /\ CombineAccepts(ho[p].cmd.fast, ho[p].out.fusion) /\ DecisionValid(x)
         /\ ho' = [ho EXCEPT ![p].phase = "decision", ![p].decision = x]
  BY <1>4, Zenon DEF Decide
<1> QED  BY <1>5, <1>6, <1>7

\* A step that changes nothing but the phase of its command.
LEMMA FileRight ==
    ASSUME HandoffSound, GivenSound, HandoffsRight, NEW p \in Procs, ho'[p].phase # "idle",
           \/ PublishResult(p) \/ PublishStopping(p) \/ PublishDecision(p)
           \/ PersistHandoff(p) \/ Persisted(p) \/ RecordValidation(p)
    PROVE  RightCommand(ho'[p])
<1>1. ASSUME NEW x, Goto(p, x), ho[p].phase # "idle",
             \/ ho[p].phase = "result" /\ x = "stopping"
             \/ ho[p].phase = "stopping" /\ x = "completed"
             \/ ho[p].phase = "decision" /\ x \in {"persist", "record"}
             \/ ho[p].phase = "persist" /\ x = "persisting"
             \/ ho[p].phase = "persisting" /\ x = "record"
             \/ ho[p].phase = "validated" /\ x \in {"identity", "reject"}
      PROVE  RightCommand(ho'[p])
  <2>1. /\ x \notin {"input", "reject"} => ho[p].phase \notin {"input", "reject"}
        /\ x \in BeforeDecision => ho[p].phase \in BeforeDecision
        /\ x \in DecisionMade => ho[p].phase \in DecisionMade
    BY <1>1 DEF BeforeDecision, DecisionMade, FilesMade
  <2> QED  BY <1>1, <2>1, GotoRight
<1>2. CASE Leave(p)
  BY <1>2, LeaveFields
<1>3. CASE PublishResult(p)
  BY <1>1, <1>2, <1>3 DEF PublishResult, PublishFile
<1>4. CASE PublishStopping(p)
  BY <1>1, <1>2, <1>4 DEF PublishStopping, PublishFile
<1>5. CASE PublishDecision(p)
  <2>1. PICK x : x = IF ho[p].cmd.connected THEN "persist" ELSE "record"
    OBVIOUS
  <2>2. x \in {"persist", "record"} /\ ho[p].phase = "decision"
    BY <1>5, <2>1 DEF PublishDecision
  <2>3. Goto(p, x) \/ Leave(p)
    BY <1>5, <2>1, Zenon DEF PublishDecision, PublishFile
  <2> QED  BY <1>1, <1>2, <2>2, <2>3
<1>6. CASE PersistHandoff(p)
  BY <1>1, <1>2, <1>6 DEF PersistHandoff
<1>7. CASE Persisted(p)
  BY <1>1, <1>2, <1>7 DEF Persisted
<1>8. CASE RecordValidation(p)
  BY <1>1, <1>8 DEF RecordValidation
<1> QED  BY <1>3, <1>4, <1>5, <1>6, <1>7, <1>8

LEMMA AcquireRight ==
    ASSUME HandoffSound, NEW p \in Procs, NEW cmd, Acquire(p, cmd)
    PROVE  RightCommand(ho'[p])
<1>1. PICK h : h = [NoCommand EXCEPT !.phase = "input", !.cmd = cmd, !.count = ho[p].count + 1]
  OBVIOUS
<1>2. ho' = [ho EXCEPT ![p] = h] /\ h.phase = "input"
  BY <1>1 DEF Acquire, NoCommand
<1>3. ho'[p].phase = "input"
  BY <1>2 DEF HandoffSound, HandoffShape
<1> QED  BY <1>3, RejectRight

\* A step of one command leaves what the others hold.
LEMMA OtherHandoffsStay ==
    ASSUME HandoffSound, NEW p \in Procs, Handoff(p)
    PROVE  \A q \in Procs \ {p} : ho'[q] = ho[q]
<1> SUFFICES ASSUME NEW q \in Procs \ {p}
             PROVE  ho'[q] = ho[q]
  OBVIOUS
<1>1. CASE \E x : Goto(p, x)
  BY <1>1 DEF Goto
<1>2. CASE Leave(p)
  BY <1>2, LeaveFields
<1>3. CASE \E cmd \in episode.commands : Acquire(p, cmd)
  BY <1>3 DEF Acquire
<1>4. ASSUME NEW phase, NEW at, NEW out, NEW decision, NEW prior,
             \/ ho' = [ho EXCEPT ![p].phase = phase, ![p].at = at]
             \/ ho' = [ho EXCEPT ![p].phase = phase, ![p].out = out]
             \/ ho' = [ho EXCEPT ![p].phase = phase, ![p].decision = decision]
             \/ ho' = [ho EXCEPT ![p].phase = phase, ![p].prior = prior, ![p].out = out,
                                 ![p].decision = decision]
      PROVE  ho'[q] = ho[q]
  <2>1. \/ Edits(p, phase, at, ho[p].out, ho[p].decision, ho[p].prior)
        \/ Edits(p, phase, ho[p].at, out, ho[p].decision, ho[p].prior)
        \/ Edits(p, phase, ho[p].at, ho[p].out, decision, ho[p].prior)
        \/ Edits(p, phase, ho[p].at, out, decision, prior)
    BY <1>4, SomeEdits, Zenon
  <2> QED  BY <2>1 DEF Edits
<1>5. CASE CheckInput(p) \/ RecordValidation(p)
  <2>1. CASE RecordValidation(p)
    BY <1>1, <2>1 DEF RecordValidation
  <2>2. CASE CheckInput(p)
    <3>1. \/ \E x : Goto(p, x)
          \/ \E x, at : ho' = [ho EXCEPT ![p].phase = x, ![p].at = at]
      BY <2>2, Zenon DEF CheckInput
    <3> QED  BY <1>1, <1>4, <3>1, Zenon
  <2> QED  BY <1>5, <2>1, <2>2
<1>6. CASE CheckIdentity(p)
  <2> DEFINE f == dir[ho[p].cmd.dir]
             last == f.trace[Max(Recorded(ho[p].cmd.dir, Identity(ho[p])))]
  <2>1. \/ Leave(p) \/ Goto(p, "reject") \/ Goto(p, "accept")
        \/ ho' = [ho EXCEPT ![p].phase = "persist", ![p].prior = last,
                            ![p].out = [fusion |-> f.result, trace |-> f.stopping],
                            ![p].decision = last.decision]
    BY <1>6, Zenon DEF CheckIdentity
  <2>2. PICK r, o, d : /\ r = last /\ d = last.decision
                       /\ o = [fusion |-> f.result, trace |-> f.stopping]
    OBVIOUS
  <2>3. \/ Leave(p) \/ Goto(p, "reject") \/ Goto(p, "accept")
        \/ ho' = [ho EXCEPT ![p].phase = "persist", ![p].prior = r, ![p].out = o,
                            ![p].decision = d]
    BY <2>1, <2>2, Zenon
  <2> HIDE DEF f, last
  <2>4. CASE ho' = [ho EXCEPT ![p].phase = "persist", ![p].prior = r, ![p].out = o,
                              ![p].decision = d]
    BY <1>4, <2>4, Zenon
  <2> QED  BY <1>1, <1>2, <2>3, <2>4
<1>7. CASE AppendRecord(p) \/ AppendFails(p) \/ TornAppend(p) \/ CrashHandoff(p)
  BY <1>1, <1>2, <1>7, Zenon DEF AppendRecord, AppendFails, TornAppend, CrashHandoff
<1>8. CASE Fuse(p)
  <2>1. \/ Leave(p) \/ (\E x : Goto(p, x))
        \/ \E a : ho' = [ho EXCEPT ![p].phase = "result", ![p].out = a]
    BY <1>8, Zenon DEF Fuse
  <2> QED  BY <1>1, <1>2, <1>4, <2>1, Zenon
<1>9. CASE PublishResult(p) \/ PublishStopping(p) \/ PublishDecision(p)
  BY <1>1, <1>2, <1>9 DEF PublishResult, PublishStopping, PublishDecision, PublishFile
<1>10. CASE Decide(p)
  <2>1. Leave(p) \/ \E a : ho' = [ho EXCEPT ![p].phase = "decision", ![p].decision = a]
    BY <1>10, Zenon DEF Decide
  <2> QED  BY <1>2, <1>4, <2>1, Zenon
<1>11. CASE PersistHandoff(p) \/ Persisted(p)
  BY <1>1, <1>2, <1>11 DEF PersistHandoff, Persisted
<1> QED  BY <1>3, <1>5, <1>6, <1>7, <1>8, <1>9, <1>10, <1>11 DEF Handoff

\* Every action of a handoff keeps the handoffs right.
LEMMA HandoffRight ==
    ASSUME NullIsNoFunction, HandoffSound, GivenSound, EpisodeTyped, HandoffsRight,
           UNCHANGED given, NEW p \in Procs, Handoff(p)
    PROVE  HandoffsRight'
<1>1. UNCHANGED episode
  BY DEF given
<1>2. \A d \in Directories : RightTrace(dir'[d].trace)
  BY HandoffTraces, TracesStayRight
<1>3. ASSUME ho'[p].phase # "idle"
      PROVE  RightCommand(ho'[p])
  <2>1. ~Leave(p)
    BY <1>3, LeaveFields
  <2>2. CASE \E cmd \in episode.commands : Acquire(p, cmd)
    BY <2>2, AcquireRight
  <2>3. CASE CheckInput(p) \/ CheckIdentity(p) \/ AppendRecord(p)
    BY <1>3, <2>3, CheckInputRight, CheckIdentityRight, AppendRight
  <2>4. CASE AppendFails(p) \/ TornAppend(p) \/ CrashHandoff(p)
    BY <2>1, <2>4 DEF AppendFails, TornAppend, CrashHandoff
  <2>5. CASE Fuse(p) \/ Decide(p)
    BY <1>3, <2>5, FuseRight, DecideRight
  <2>6. CASE \/ PublishResult(p) \/ PublishStopping(p) \/ PublishDecision(p)
             \/ PersistHandoff(p) \/ Persisted(p) \/ RecordValidation(p)
    BY <1>3, <2>6, FileRight
  <2> QED  BY <2>2, <2>3, <2>4, <2>5, <2>6 DEF Handoff
<1>4. ASSUME NEW q \in Procs, ho'[q].phase # "idle"
      PROVE  RightCommand(ho'[q])
  <2>1. CASE q = p
    BY <1>3, <1>4, <2>1
  <2>2. CASE q # p
    BY <1>4, <2>2, OtherHandoffsStay DEF HandoffsRight
  <2> QED  BY <2>1, <2>2
<1> QED  BY <1>1, <1>2, <1>4, RightStays

LEMMA HandoffsRightFrame ==
    ASSUME HandoffsRight, UNCHANGED given, UNCHANGED handoffVars
    PROVE  HandoffsRight'
<1>1. UNCHANGED episode /\ dir' = dir /\ ho' = ho
  BY DEF given, handoffVars
<1>2. /\ \A d \in Directories : RightTrace(dir'[d].trace)
      /\ \A p \in Procs : ho'[p].phase # "idle" => RightCommand(ho'[p])
  BY <1>1 DEF HandoffsRight
<1> QED  BY <1>1, <1>2, RightStays

LEMMA HandoffsRightInitially ==
    ASSUME Init
    PROVE  HandoffsRight
<1>1. /\ dir = [d \in Directories |-> EmptyDirectory]
      /\ ho = [p \in Procs |-> NoCommand]
  BY DEF Init, HandoffInit
<1>2. \A d \in Directories : dir[d].trace = <<>>
  BY <1>1 DEF EmptyDirectory
<1>3. \A p \in Procs : ho[p].phase = "idle"
  BY <1>1 DEF NoCommand
<1> QED  BY <1>2, <1>3 DEF HandoffsRight, RightTrace

-----------------------------------------------------------------------------
(***************************************************************************)
(* An S0 run on its way to its decision                                    *)
(***************************************************************************)

\* What an S0 run was collected from.
WorldTyped ==
    world # None =>
        /\ world.meta.start \in Int /\ world.meta.end \in Int /\ ConfigTyped(world.fusionConfig)
        /\ world.jsonl \in Seq(ToSet(world.jsonl))
        /\ \A n \in DOMAIN world.jsonl :
              /\ world.jsonl[n].time \in Int
              /\ world.jsonl[n].image \in {"powershell", "script_host", "other"}
        /\ RowsTyped(world.export)

HitsTyped(hits) == \A i \in DOMAIN hits : hits[i].time \in Int

\* A selection is one the tool made over the hits of the rows the trace names.
SelectionMade(fs) ==
    /\ fs.trace # None
    /\ fs.hits = FastHits(world.meta.run, fs.trace.input, fs.config)
    /\ \E owner : fs.selection = Select(fs, world.policy, owner)

\* What is in the fast directory, and what the runner is about to put there.
FilesRight ==
    world # None =>
        /\ RowsTyped(files.csv)
        /\ files.hits # None => HitsTyped(files.hits)
        /\ runner.phase # "idle" => RowsTyped(runner.rows)
        /\ runner.phase \in {"staged", "linked"} => HitsTyped(runner.trace.output)
        /\ files.selection # None /\ ~world.hand => SelectionMade(files)

LEMMA WorldInitially ==
    ASSUME Init
    PROVE  WorldTyped
<1> SUFFICES ASSUME world # None
             PROVE  WorldTyped
  BY DEF WorldTyped
<1>1. PICK s \in Scenarios : world = s.world
  BY DEF Init
<1>2. /\ {world.meta.start, world.meta.end} \subseteq Int /\ ConfigTyped(world.fusionConfig)
      /\ world.jsonl \in Seq(ToSet(world.jsonl)) /\ RowsTyped(world.export)
  BY <1>1, RunAssumption
<1>3. \A n \in DOMAIN world.jsonl :
         world.jsonl[n].time \in Int /\ world.jsonl[n].image \in {"powershell", "script_host", "other"}
  BY <1>1, RunAssumption
<1> QED  BY <1>2, <1>3 DEF WorldTyped

\* fast_selection makes a selection of the very rows and hits beside it.
LEMMA AcceptedIsMade ==
    ASSUME NEW fs, NEW entity, SelectAccepts(fs, world.policy, world.meta.run, entity),
           NEW g, g.trace = fs.trace, g.hits = fs.hits, g.config = fs.config,
           g.selection = Select(fs, world.policy, entity)
    PROVE  SelectionMade(g)
<1>1. /\ fs.trace # None /\ fs.trace.input = fs.csv
      /\ fs.hits = FastHits(world.meta.run, fs.csv, fs.config)
  BY DEF SelectAccepts, HandoffValid, InputsUnchanged
<1>2. Select(g, world.policy, entity) = Select(fs, world.policy, entity)
  BY Zenon DEF Select, Owned, EarliestOwned
<1> QED  BY <1>1, <1>2, Zenon DEF SelectionMade

LEMMA FilesInitially ==
    ASSUME Init
    PROVE  FilesRight
<1> SUFFICES ASSUME world # None
             PROVE  FilesRight
  BY DEF FilesRight
<1>1. PICK s \in Scenarios : world = s.world /\ files = s.files
  BY DEF Init
<1>2. runner.phase = "idle"
  BY DEF Init, PipelineInit, RunnerIdle
<1>3. /\ RowsTyped(files.csv)
      /\ files.hits # None => \A i \in DOMAIN files.hits : files.hits[i].time \in Int
  BY <1>1, RunAssumption
<1>4. ASSUME files.selection # None, ~world.hand
      PROVE  SelectionMade(files)
  <2>1. PICK entity : /\ SelectAccepts(files, world.policy, world.meta.run, entity)
                      /\ files.selection = Select(files, world.policy, entity)
    BY <1>1, <1>4, RunAssumption
  <2> QED  BY <2>1, AcceptedIsMade
<1> QED  BY <1>2, <1>3, <1>4 DEF FilesRight, HitsTyped

\* The directory of a run keeps its configuration; a step changes one file.
LEMMA FastKeepsConfig ==
    ASSUME FastSound, Fast
    PROVE  files'.config = files.config
<1>1. DOMAIN files = FastFields
  BY DEF Fast, FastOnly, FastSound, FastFields
<1>2. "config" \in FastFields /\ {"csv", "hits", "trace", "selection"} \subseteq FastFields
  BY DEF FastFields
<1>3. \/ files' = files
      \/ \E x \in {"csv", "hits", "trace", "selection"} : \E v : files' = [files EXCEPT ![x] = v]
  BY Zenon DEF Fast, FastRead, FastStage, LinkHits, LinkTrace, FastRollback, FastCrash,
     RewriteCsv, FastSelect
<1> QED  BY <1>1, <1>2, <1>3, FileChange

\* Hits have times.
LEMMA HitsOfRows ==
    ASSUME NEW csv, RowsTyped(csv), NEW run, NEW config
    PROVE  HitsTyped(FastHits(run, csv, config))
<1>1. PICK hits : hits = FastHits(run, csv, config)
  OBVIOUS
<1>2. \A h \in ToSet(hits) : h.time \in Int
  <2>1. PICK host : host = 0
    OBVIOUS
  <2>2. \A h \in ToSet(FastHits(run, csv, config)) : h.time \in Int
    BY TimesOfHits
  <2> QED  BY <1>1, <2>2
<1>3. \A i \in DOMAIN hits : hits[i] \in ToSet(hits)
  BY DEF ToSet
<1> QED  BY <1>1, <1>2, <1>3 DEF HitsTyped

LEMMA MadeStays ==
    ASSUME UNCHANGED world, SelectionMade(files),
           files'.trace = files.trace, files'.hits = files.hits, files'.config = files.config,
           files'.selection = files.selection
    PROVE  SelectionMade(files)'
<1>1. PICK owner : files.selection = Select(files, world.policy, owner)
  BY DEF SelectionMade
<1>2. Select(files, world.policy, owner)' = Select(files, world.policy, owner)
  BY Zenon DEF Select, Owned, EarliestOwned
<1>3. files'.selection = Select(files', world'.policy, owner)
  BY <1>1, <1>2
<1>4. /\ files'.trace # None
      /\ files'.hits = FastHits(world'.meta.run, files'.trace.input, files'.config)
  BY DEF SelectionMade
<1> QED  BY <1>3, <1>4, Zenon DEF SelectionMade

LEMMA FilesFrame ==
    ASSUME FilesRight, UNCHANGED <<files, runner, given>>
    PROVE  FilesRight'
<1>1. UNCHANGED world
  BY DEF given
<1> SUFFICES ASSUME world # None
             PROVE  FilesRight'
  BY <1>1 DEF FilesRight
<1>2. files'.selection # None /\ ~world'.hand => SelectionMade(files)'
  BY <1>1, MadeStays DEF FilesRight
<1> QED  BY <1>1, <1>2 DEF FilesRight

\* The steps of the fast runner and of fast_selection keep the files right.
LEMMA FilesStep ==
    ASSUME FastSound, FilesRight, WorldTyped, UNCHANGED given, Fast
    PROVE  FilesRight'
<1>0. /\ world # None /\ world' = world /\ DOMAIN files = FastFields
      /\ runner = RunnerRecord(runner)
      /\ runner.phase # "idle" => files.trace = None
  BY DEF Fast, FastOnly, FastSound, given, FastFields
<1>1. /\ RowsTyped(files.csv) /\ RowsTyped(world.export)
      /\ files.hits # None => HitsTyped(files.hits)
      /\ runner.phase # "idle" => RowsTyped(runner.rows)
      /\ runner.phase \in {"staged", "linked"} => HitsTyped(runner.trace.output)
      /\ files.selection # None /\ ~world.hand => SelectionMade(files)
  BY <1>0 DEF FilesRight, WorldTyped
<1>f. {"csv", "config", "hits", "trace", "selection"} = FastFields
  BY DEF FastFields
<1>r. RunnerIdle.phase = "idle"
  BY DEF RunnerIdle
<1>w. ASSUME runner.phase # "idle", ~world.hand
      PROVE  files.selection = None
  BY <1>0, <1>1, <1>w, Zenon DEF SelectionMade
<1> SUFFICES /\ RowsTyped(files'.csv)
             /\ files'.hits # None => HitsTyped(files'.hits)
             /\ runner'.phase # "idle" => RowsTyped(runner'.rows)
             /\ runner'.phase \in {"staged", "linked"} => HitsTyped(runner'.trace.output)
             /\ files'.selection # None /\ ~world.hand => SelectionMade(files)'
  BY <1>0 DEF FilesRight
<1>s. ASSUME files'.trace = files.trace, files'.hits = files.hits, files'.config = files.config,
             files'.selection = files.selection
      PROVE  files'.selection # None /\ ~world.hand => SelectionMade(files)'
  BY <1>0, <1>1, <1>s, MadeStays
<1>2. CASE FastRead
  <2>1. files' = files /\ runner' = [phase |-> "read", rows |-> files.csv, trace |-> None]
    BY <1>2 DEF FastRead
  <2>2. runner'.phase = "read" /\ runner'.rows = files.csv
    BY <2>1
  <2> QED  BY <1>1, <1>s, <2>1, <2>2
<1>3. CASE FastStage
  <2>1. PICK t : t = FastTrace(world.meta.run, runner.rows, files.config, files.csv, files.config)
    OBVIOUS
  <2>2. /\ files' = files /\ runner.phase = "read"
        /\ runner' = [phase |-> "staged", rows |-> runner.rows, trace |-> t]
    BY <1>3, <2>1 DEF FastStage
  <2>3. runner'.phase = "staged" /\ runner'.rows = runner.rows /\ runner'.trace = t
    BY <2>2
  <2>4. t.output = FastHits(world.meta.run, runner.rows, files.config)
    <3>1. PICK a, b, c, d, e : t = [run |-> a, input |-> b, config |-> c,
                output |-> FastHits(world.meta.run, runner.rows, files.config),
                rows |-> d, count |-> e, hits |-> t.hits]
      BY <2>1, Zenon DEF FastTrace
    <3> QED  BY <3>1
  <2>5. HitsTyped(t.output)
    BY <1>1, <2>2, <2>4, HitsOfRows
  <2> QED  BY <1>1, <1>s, <2>2, <2>3, <2>5
<1>4. CASE LinkHits
  <2>1. /\ runner.phase = "staged" /\ files' = [files EXCEPT !["hits"] = runner.trace.output]
        /\ runner' = [runner EXCEPT !.phase = "linked"]
    BY <1>4 DEF LinkHits
  <2>2. /\ files'.hits = runner.trace.output /\ files'.csv = files.csv
        /\ files'.selection = files.selection
    BY <1>0, <1>f, <2>1, FileChange
  <2>3. PICK r : r = runner /\ r = RunnerRecord(r)
    BY <1>0
  <2>4. runner'.rows = runner.rows /\ runner'.trace = runner.trace
    BY <2>1, <2>3 DEF RunnerRecord
  <2> QED  BY <1>1, <1>w, <2>1, <2>2, <2>4
<1>5. CASE LinkTrace
  <2>1. /\ runner.phase = "linked" /\ files' = [files EXCEPT !["trace"] = runner.trace]
        /\ runner' = RunnerIdle
    BY <1>5 DEF LinkTrace
  <2>2. /\ files'.hits = files.hits /\ files'.csv = files.csv
        /\ files'.selection = files.selection
    BY <1>0, <1>f, <2>1, FileChange
  <2> QED  BY <1>1, <1>r, <1>w, <2>1, <2>2
<1>6. CASE FastRollback
  <2>1. /\ runner.phase = "linked" /\ files' = [files EXCEPT !["hits"] = None]
        /\ runner' = RunnerIdle
    BY <1>6 DEF FastRollback
  <2>2. /\ files'.hits = None /\ files'.csv = files.csv /\ files'.selection = files.selection
    BY <1>0, <1>f, <2>1, FileChange
  <2> QED  BY <1>1, <1>r, <1>w, <2>1, <2>2
<1>7. CASE FastCrash
  BY <1>1, <1>r, <1>s, <1>7 DEF FastCrash
<1>8. CASE RewriteCsv
  <2>1. files' = [files EXCEPT !["csv"] = world.export] /\ runner' = runner
    BY <1>8 DEF RewriteCsv
  <2>2. /\ files'.csv = world.export /\ files'.hits = files.hits /\ files'.trace = files.trace
        /\ files'.selection = files.selection /\ files'.config = files.config
    BY <1>0, <1>f, <2>1, FileChange
  <2> QED  BY <1>1, <1>s, <2>1, <2>2
<1>9. CASE FastSelect(world.meta.target)
  <2>1. PICK v : v = Select(files, world.policy, world.meta.target)
    OBVIOUS
  <2>2. /\ runner' = runner /\ files' = [files EXCEPT !["selection"] = v]
        /\ SelectAccepts(files, world.policy, world.meta.run, world.meta.target)
    BY <1>9, <2>1 DEF FastSelect
  <2>3. /\ files'.csv = files.csv /\ files'.hits = files.hits /\ files'.trace = files.trace
        /\ files'.selection = v /\ files'.config = files.config
    BY <1>0, <1>f, <2>2, FileChange
  <2>4. PICK g : g = files'
    OBVIOUS
  <2>5. SelectionMade(g)
    BY <2>1, <2>2, <2>3, <2>4, AcceptedIsMade
  <2>6. SelectionMade(files)'
    BY <1>0, <2>4, <2>5 DEF SelectionMade
  <2> QED  BY <1>1, <2>2, <2>3, <2>6
<1> QED  BY <1>2, <1>3, <1>4, <1>5, <1>6, <1>7, <1>8, <1>9 DEF Fast

\* What an invocation holds is what the references find: its fusion, then its
\* fast result as well.
FusionRight(i) ==
    /\ S0Found(i.fusion.fusion, world.meta, world.jsonl, world.fusionConfig)
    /\ i.fusion.fusion.entity = i.input.entity

FastRight(i) ==
    /\ i.basis.path = "s0"
    /\ i.fast.detection.status # "not_evaluated" /\ IsTime(i.fast.detection.time)
    /\ ~world.hand => FastFound(i.fast, i.basis.csv, files.config, i.input.entity)

InvocationRight(i) ==
    /\ i.phase \in {"fused", "ready"} => FusionRight(i)
    /\ i.phase = "ready" => FastRight(i)

InvocationsRight == \A p \in Procs : InvocationRight(inv[p])

LEMMA InvocationRightStays ==
    ASSUME UNCHANGED given, files'.config = files.config, NEW i
    PROVE  InvocationRight(i)' <=> InvocationRight(i)
<1>1. world' = world
  BY DEF given
<1> QED  BY <1>1, Zenon DEF InvocationRight, FusionRight, FastRight

LEMMA InvocationsRightFrame ==
    ASSUME InvocationsRight, UNCHANGED given, files'.config = files.config, inv' = inv
    PROVE  InvocationsRight'
<1> SUFFICES ASSUME NEW p \in Procs
             PROVE  InvocationRight(inv[p])'
  BY DEF InvocationsRight
<1>1. PICK i : i = inv[p]
  OBVIOUS
<1>2. InvocationRight(i)
  BY <1>1 DEF InvocationsRight
<1>3. InvocationRight(i)'
  BY <1>2, InvocationRightStays
<1>4. inv'[p] = i
  BY <1>1
<1> QED  BY <1>3, <1>4, Zenon DEF InvocationRight, FusionRight, FastRight

LEMMA InvocationRightOfOne ==
    ASSUME InvocationsSound, InvocationsRight, UNCHANGED given, files'.config = files.config,
           NEW p \in Procs, NEW i, inv' = [inv EXCEPT ![p] = i], InvocationRight(i)
    PROVE  InvocationsRight'
<1> SUFFICES ASSUME NEW q \in Procs
             PROVE  InvocationRight(inv[q])'
  BY DEF InvocationsRight
<1>1. PICK j : j = inv'[q]
  OBVIOUS
<1>2. InvocationRight(j)
  <2>1. DOMAIN inv = Procs
    BY DEF InvocationsSound
  <2>2. CASE q = p
    BY <1>1, <2>1, <2>2
  <2>3. CASE q # p
    BY <1>1, <2>1, <2>3 DEF InvocationsRight
  <2> QED  BY <2>2, <2>3
<1>3. InvocationRight(j)'
  BY <1>2, InvocationRightStays
<1> QED  BY <1>1, <1>3, Zenon DEF InvocationRight, FusionRight, FastRight

\* The fusion an invocation begins with is that of its raw records.
LEMMA InvokeRight ==
    ASSUME NullIsNoFunction, WorldTyped, world # None, NEW p, NEW entity, FusionStageOK(entity),
           NEW out, out = FusionOutput(entity), StoppingTraceValid(out.trace.points)
    PROVE  /\ S0Found(out.fusion, world.meta, world.jsonl, world.fusionConfig)
           /\ out.fusion.entity = entity
<1> DEFINE jsonl == world.jsonl
           meta == world.meta
           c == world.fusionConfig
           raw == RawLogId(world.manifest)
<1>1. RecordsTyped(jsonl)
  <2>1. /\ jsonl \in Seq(ToSet(jsonl))
        /\ \A n \in DOMAIN jsonl : /\ jsonl[n].time \in Int
                                   /\ jsonl[n].image \in {"powershell", "script_host", "other"}
    BY DEF WorldTyped
  <2>2. \A n \in DOMAIN jsonl : jsonl[n].eventId \in {1, 3}
    BY DEF FusionStageOK, RecordValid
  <2>3. DOMAIN jsonl = 1..Len(jsonl)
    BY <2>1
  <2> HIDE DEF jsonl
  <2> QED  BY <2>1, <2>2, <2>3 DEF RecordsTyped
<1>2. meta.start \in Int /\ meta.end \in Int /\ ConfigTyped(c)
  BY DEF WorldTyped
<1>3. PICK evs : evs = S0Events
  OBVIOUS
<1>4. evs = Normalized(meta.run, raw, jsonl)
  BY <1>3, Zenon DEF S0Events, NormalizedEvents, Normalized
<1>5. FusionAccepts(meta, evs, c, entity)
  BY <1>3 DEF FusionStageOK
<1>6. out = S0Fusion(meta, evs, c, entity)
  BY <1>3, Zenon DEF FusionOutput
<1>7. PICK run : run = meta.run
  OBVIOUS
<1> HIDE DEF meta, jsonl, c, raw
<1>8. evs = Normalized(run, raw, jsonl)
  BY <1>4, <1>7
<1>9. S0Found(out.fusion, meta, jsonl, c) /\ out.fusion.entity = entity
  BY <1>1, <1>2, <1>5, <1>6, <1>8, S0FusionIsReference
<1> QED  BY <1>9 DEF meta, jsonl, c

\* A fast result that is loaded says what the rows say, unless the selection was
\* written by hand; its time is that of a hit.
LEMMA LoadRight ==
    ASSUME FastSound, FilesRight, world # None, NEW entity, FastStageOK(entity),
           NEW out, out = Adapt(files, entity, files.selection)
    PROVE  /\ out.detection.status # "not_evaluated" /\ IsTime(out.detection.time)
           /\ ~world.hand => FastFound(out, files.csv, files.config, entity)
<1> DEFINE sel == files.selection
<1>1. /\ HandoffValid(files, world.meta.run)
      /\ AdaptAccepts(files, entity, sel, DirectMap(files.hits))
      /\ sel # None /\ files.hits # None /\ files.trace.input = files.csv
  BY DEF FastStageOK, HandoffValid, InputsUnchanged
<1>2. /\ RowsTyped(files.csv) /\ HitsTyped(files.hits)
      /\ ~world.hand => SelectionMade(files)
  BY <1>1, Zenon DEF FilesRight
<1>3. /\ out.detection.status = sel.status
      /\ out.detection.time =
            IF sel.status = "detected"
              THEN (CHOOSE h \in ToSet(files.hits) : h.id = sel.hit).time ELSE None
  BY AdaptedFields
<1>4. sel.status # "not_evaluated"
  BY <1>1 DEF AdaptAccepts
<1>5. IsTime(out.detection.time)
  <2>1. CASE sel.status = "detected"
    <3>1. PICK i \in DOMAIN files.hits : files.hits[i].id = sel.hit
      BY <1>1, <2>1 DEF AdaptAccepts, DetectionAccepted
    <3>2. files.hits[i] \in ToSet(files.hits)
      BY DEF ToSet
    <3>3. PICK hit : hit = CHOOSE h \in ToSet(files.hits) : h.id = sel.hit
      OBVIOUS
    <3>4. hit \in ToSet(files.hits)
      BY <3>1, <3>2, <3>3
    <3>5. hit.time \in Int
      BY <1>2, <3>4 DEF HitsTyped, ToSet
    <3> QED  BY <1>3, <2>1, <3>3, <3>5 DEF IsTime
  <2>2. CASE sel.status # "detected"
    BY <1>3, <2>2 DEF IsTime
  <2> QED  BY <2>1, <2>2
<1>6. ASSUME ~world.hand
      PROVE  FastFound(out, files.csv, files.config, entity)
  <2>1. PICK owner : /\ files.hits = FastHits(world.meta.run, files.csv, files.config)
                     /\ sel = Select(files, world.policy, owner)
    BY <1>1, <1>2, <1>6, Zenon DEF SelectionMade
  <2>2. PICK fs, run, policy : fs = files /\ run = world.meta.run /\ policy = world.policy
    OBVIOUS
  <2>3. PICK s : s = sel
    OBVIOUS
  <2>4. /\ fs.hits = FastHits(run, fs.csv, fs.config) /\ RowsTyped(fs.csv)
        /\ s = Select(fs, policy, owner) /\ AdaptAccepts(fs, entity, s, DirectMap(fs.hits))
        /\ out = Adapt(fs, entity, s)
    BY <1>1, <1>2, <2>1, <2>2, <2>3
  <2>5. FastFound(out, fs.csv, fs.config, entity)
    BY <2>4, FastPathIsReference
  <2> QED  BY <2>2, <2>5
<1> QED  BY <1>3, <1>4, <1>5, <1>6, Zenon

LEMMA GoneIsRight == \A n : InvocationRight([NoInvocation EXCEPT !.count = n])
<1> SUFFICES ASSUME NEW n
             PROVE  InvocationRight([NoInvocation EXCEPT !.count = n])
  OBVIOUS
<1>1. PICK i : i = [NoInvocation EXCEPT !.count = n]
  BY Zenon
<1>2. i.phase = "idle"
  BY <1>1 DEF NoInvocation
<1> QED  BY <1>1, <1>2 DEF InvocationRight

\* Every step of an S0 invocation keeps the invocations right.
LEMMA PipelineRight ==
    ASSUME NullIsNoFunction, WorldTyped, FastSound, FilesRight, InvocationsSound,
           InvocationsRight, UNCHANGED given, NEW p \in Procs, Pipeline(p)
    PROVE  InvocationsRight' /\ files' = files
<1>0. world # None /\ files' = files
  BY DEF Pipeline, FastOnly, PipelineOnly, Invoke, LoadFast, Persist
<1>e. ASSUME NEW n, inv' = [inv EXCEPT ![p] = [NoInvocation EXCEPT !.count = n]]
      PROVE  InvocationsRight'
  <2>1. PICK i : i = [NoInvocation EXCEPT !.count = n]
    OBVIOUS
  <2>2. InvocationRight(i)
    BY <2>1, GoneIsRight
  <2> QED  BY <1>0, <1>e, <2>1, <2>2, InvocationRightOfOne
<1>1. CASE \E input \in world.inputs : Invoke(p, input)
  <2>1. PICK input \in world.inputs : Invoke(p, input)
    BY <1>1
  <2>2. PICK out : out = FusionOutput(input.entity)
    OBVIOUS
  <2>3. PICK i : i = [phase |-> "fused", input |-> input, fusion |-> out,
                      fast |-> None, basis |-> None, count |-> inv[p].count + 1]
    OBVIOUS
  <2>4. \/ inv' = [inv EXCEPT ![p] = [NoInvocation EXCEPT !.count = inv[p].count + 1]]
        \/ /\ FusionStageOK(input.entity) /\ StoppingTraceValid(out.trace.points)
           /\ inv' = [inv EXCEPT ![p] = i]
    BY <2>1, <2>2, <2>3, Zenon DEF Invoke
  <2>5. CASE /\ FusionStageOK(input.entity) /\ StoppingTraceValid(out.trace.points)
             /\ inv' = [inv EXCEPT ![p] = i]
    <3>1. PICK entity : entity = input.entity
      OBVIOUS
    <3>2. /\ S0Found(out.fusion, world.meta, world.jsonl, world.fusionConfig)
          /\ out.fusion.entity = entity
      BY <1>0, <2>2, <2>5, <3>1, InvokeRight
    <3>3. i.phase = "fused" /\ i.fusion = out /\ i.input = input
      BY <2>3
    <3>4. FusionRight(i)
      BY <3>1, <3>2, <3>3 DEF FusionRight
    <3>5. InvocationRight(i)
      BY <3>3, <3>4 DEF InvocationRight
    <3> QED  BY <1>0, <2>5, <3>5, InvocationRightOfOne
  <2> QED  BY <1>0, <1>e, <2>4, <2>5
<1>2. CASE LoadFast(p)
  <2>1. CASE inv' = [inv EXCEPT ![p] = Gone(p)]
    BY <1>0, <1>e, <2>1 DEF Gone
  <2>2. PICK entity : entity = inv[p].input.entity
    OBVIOUS
  <2>3. PICK out : out = Adapt(files, entity, files.selection)
    OBVIOUS
  <2>4. PICK b : b = [path |-> "s0", csv |-> files.csv]
    OBVIOUS
  <2>5. CASE /\ FastStageOK(entity)
             /\ inv' = [inv EXCEPT ![p] = [inv[p] EXCEPT !.phase = "ready", !.fast = out,
                                                          !.basis = b]]
    <3>1. PICK j : j = inv[p] /\ j = InvocationRecord(j)
      BY DEF InvocationsSound
    <3>2. PICK i : i = [j EXCEPT !.phase = "ready", !.fast = out, !.basis = b]
      OBVIOUS
    <3>3. /\ i.phase = "ready" /\ i.fast = out /\ i.basis = b
          /\ i.fusion = j.fusion /\ i.input = j.input
      BY <3>1, <3>2 DEF InvocationRecord
    <3>4. FusionRight(j)
      <4>1. j.phase = "fused"
        BY <1>2, <3>1 DEF LoadFast
      <4> QED  BY <3>1, <4>1 DEF InvocationsRight, InvocationRight
    <3>5. FusionRight(i)
      BY <3>3, <3>4 DEF FusionRight
    <3>6. /\ out.detection.status # "not_evaluated" /\ IsTime(out.detection.time)
          /\ ~world.hand => FastFound(out, files.csv, files.config, entity)
      BY <1>0, <2>3, <2>5, LoadRight
    <3>7. b.path = "s0" /\ b.csv = files.csv
      BY <2>4
    <3>8. FastRight(i)
      BY <2>2, <3>1, <3>3, <3>6, <3>7, Zenon DEF FastRight
    <3>9. InvocationRight(i)
      BY <3>5, <3>8 DEF InvocationRight
    <3>10. inv' = [inv EXCEPT ![p] = i]
      BY <2>5, <3>1, <3>2
    <3> QED  BY <1>0, <3>9, <3>10, InvocationRightOfOne
  <2>6. \/ inv' = [inv EXCEPT ![p] = Gone(p)]
        \/ /\ FastStageOK(entity)
           /\ inv' = [inv EXCEPT ![p] = [inv[p] EXCEPT !.phase = "ready", !.fast = out,
                                                        !.basis = b]]
    BY <1>2, <2>2, <2>3, <2>4, Zenon DEF LoadFast
  <2> QED  BY <2>1, <2>5, <2>6
<1>3. CASE Persist(p)
  <2>1. inv' = [inv EXCEPT ![p] = Gone(p)]
    BY <1>3 DEF Persist
  <2> QED  BY <1>0, <1>e, <2>1 DEF Gone
<1> QED  BY <1>0, <1>1, <1>2, <1>3 DEF Pipeline

\* What an invocation decides is what its inputs say.
LEMMA PersistExpects ==
    ASSUME NEW i, i.phase = "ready", InvocationRight(i), HybridStageOK(i),
           NEW d, d = S0Decision(i)
    PROVE  S0Expected(d, i.basis.csv)
<1> DEFINE fusion == i.fusion.fusion
           f == i.fast
           fused == ReferenceS0Time(world.meta, world.jsonl, world.fusionConfig)
           times == FastTimes(i.basis.csv, files.config, d.entity)
<1>1. FusionRight(i) /\ FastRight(i)
  BY DEF InvocationRight
<1>2. PICK id, config, supersedes : d = Combine(f, fusion, id, config, supersedes)
  BY Zenon DEF S0Decision
<1>3. /\ d.entity = fusion.entity
      /\ d.fast = f.detection.status /\ d.detectorTime = f.detection.time
      /\ d.fusion = FusionJson(fusion).status /\ d.fusionTime = FusionJson(fusion).time
  BY <1>2, CombinedFields
<1>4. CombineAccepts(f, fusion) /\ DecisionValid(d)
  BY DEF HybridStageOK
<1>5. /\ d.entity = i.input.entity /\ IsTime(d.detectorTime)
      /\ d.fast # "not_evaluated" /\ d.fast \in Statuses
  BY <1>1, <1>3, <1>4 DEF FusionRight, FastRight, CombineAccepts, DetectionValid
<1>6. /\ d.fusion = IF ~Covered(world.meta) THEN "not_evaluated"
                    ELSE IF fused = None THEN "miss" ELSE "detected"
      /\ d.fusionTime = IF Covered(world.meta) THEN fused ELSE None
      /\ IsTime(d.fusionTime)
  <2>1. S0Found(fusion, world.meta, world.jsonl, world.fusionConfig)
    BY <1>1 DEF FusionRight
  <2> HIDE DEF fused, fusion
  <2>2. CASE Covered(world.meta)
    <3>1. FoundAt(fusion, fused)
      BY <2>1, <2>2 DEF S0Found, fused
    <3> QED  BY <1>3, <2>2, <3>1 DEF FoundAt
  <2>3. CASE ~Covered(world.meta)
    <3>1. FusionJson(fusion).status = "not_evaluated" /\ FusionJson(fusion).time = None
      BY <2>1, <2>3 DEF S0Found
    <3> QED  BY <1>3, <2>3, <3>1 DEF IsTime
  <2> QED  BY <2>2, <2>3
<1> HIDE DEF fused
<1>7. d.fusion \in Statuses
  BY <1>6 DEF Statuses
<1>8. d.te = EarliestOf(d)
  BY <1>4, <1>5, <1>6, <1>7, TeIsEarliest
<1>9. d.te = LET known == {d.detectorTime, d.fusionTime} \ {None}
             IN  IF known = {} \/ d.fusion = "not_evaluated" THEN None ELSE Min(known)
  BY <1>5, <1>8 DEF EarliestOf
<1>10. ASSUME ~world.hand
       PROVE  /\ d.fast = IF times = {} THEN "miss" ELSE "detected"
              /\ d.detectorTime = IF times = {} THEN None ELSE Min(times)
  <2>1. FastFound(f, i.basis.csv, files.config, d.entity)
    BY <1>1, <1>5, <1>10 DEF FastRight
  <2> QED  BY <1>3, <2>1, Zenon DEF FastFound
<1>11. times = ReferenceFastTimes(i.basis.csv, files.config,
                  [h \in {i.basis.csv[n].host : n \in DOMAIN i.basis.csv} |-> h], d.entity)
  BY Zenon DEF FastTimes, DirectHosts
<1> HIDE DEF times
<1> QED  BY <1>6, <1>9, <1>10, <1>11, Zenon DEF S0Expected, fused

-----------------------------------------------------------------------------
(***************************************************************************)
(* What is submitted and stored                                            *)
(***************************************************************************)

\* A submission says what its inputs say.
Stands(x) ==
    IF x.basis.path = "s0" THEN S0Expected(x.decision, x.basis.csv)
                           ELSE R1Expected(x.decision, x.basis)

StoredRight ==
    /\ \A p \in Procs : tx[p].sub # None => Stands(tx[p].sub)
    /\ \A i \in Ids : decisions[i] # None => Stands(decisions[i])

\* A decision that stands does not depend on what the steps change.
LEMMA StandsStays ==
    ASSUME UNCHANGED given, files'.config = files.config, NEW x
    PROVE  Stands(x)' <=> Stands(x)
<1>1. world' = world /\ episode' = episode
  BY DEF given
<1>2. S0Expected(x.decision, x.basis.csv)' <=> S0Expected(x.decision, x.basis.csv)
  BY <1>1, Zenon DEF S0Expected
<1>3. R1Expected(x.decision, x.basis)' <=> R1Expected(x.decision, x.basis)
  BY <1>1, Zenon DEF R1Expected
<1> QED  BY <1>2, <1>3, Zenon DEF Stands

LEMMA StoredStays ==
    ASSUME UNCHANGED given, files'.config = files.config,
           \A p \in Procs : tx'[p].sub # None => Stands(tx'[p].sub),
           \A i \in Ids : decisions'[i] # None => Stands(decisions'[i])
    PROVE  StoredRight'
<1>1. ASSUME NEW p \in Procs, tx'[p].sub # None
      PROVE  Stands(tx[p].sub)'
  <2>1. PICK x : x = tx'[p].sub
    OBVIOUS
  <2>2. Stands(x)'
    BY <1>1, <2>1, StandsStays
  <2> QED  BY <2>1, <2>2, Zenon DEF Stands
<1>2. ASSUME NEW i \in Ids, decisions'[i] # None
      PROVE  Stands(decisions[i])'
  <2>1. PICK x : x = decisions'[i]
    OBVIOUS
  <2>2. Stands(x)'
    BY <1>2, <2>1, StandsStays
  <2> QED  BY <2>1, <2>2, Zenon DEF Stands
<1> QED  BY <1>1, <1>2, Zenon DEF StoredRight

LEMMA StoredInitially ==
    ASSUME Init
    PROVE  StoredRight
<1>1. /\ decisions = [i \in Ids |-> None]
      /\ tx = [p \in Procs |-> [phase |-> "idle", sub |-> None]]
  BY DEF Init, StoreEmpty, Idle
<1> QED  BY <1>1 DEF StoredRight

LEMMA StoredFrame ==
    ASSUME StoredRight, UNCHANGED given, files'.config = files.config, UNCHANGED storeVars
    PROVE  StoredRight'
<1>1. tx' = tx /\ decisions' = decisions
  BY DEF storeVars
<1> QED  BY <1>1, StoredStays DEF StoredRight

\* A transaction stores what was submitted.
LEMMA StoreRight ==
    ASSUME GivenSound, StoreInv, StoredRight, UNCHANGED given, files'.config = files.config, Store
    PROVE  StoredRight'
<1>1. \A p \in Procs : tx'[p].sub # None => Stands(tx'[p].sub)
  BY StoreKeepsSubmissions DEF StoredRight
<1>2. cast.procs \subseteq Procs /\ cast.readers \subseteq Readers
  BY DEF GivenSound
<1>3. CASE decisions' = decisions
  BY <1>1, <1>3, StoredStays DEF StoredRight
<1>4. CASE \E p \in cast.procs : Commit(p)
  <2>1. PICK p \in Procs : Commit(p)
    BY <1>2, <1>4
  <2>2. PICK sub : sub = tx[p].sub
    OBVIOUS
  <2>3. decisions' = [decisions EXCEPT ![sub.id] = sub] /\ IsSubmission(sub)
    BY <2>1, <2>2, CommitEffect
  <2>4. Stands(sub)
    BY <2>2, <2>3 DEF StoredRight, IsSubmission
  <2>5. \A i \in Ids : decisions'[i] # None => Stands(decisions'[i])
    <3> SUFFICES ASSUME NEW i \in Ids, decisions'[i] # None
                 PROVE  Stands(decisions'[i])
      OBVIOUS
    <3>1. DOMAIN decisions = Ids
      BY DEF StoreInv, TablesInv, StoreTypeOK, StoreShape
    <3>2. decisions'[i] = sub \/ decisions'[i] = decisions[i]
      BY <2>3, <3>1
    <3> QED  BY <2>4, <3>2 DEF StoredRight
  <2> QED  BY <1>1, <2>5, StoredStays
<1> QED  BY <1>3, <1>4 DEF Store, AcquireIdLock, AcquireScopeLock, CheckExisting, CheckHead,
            Lose, OpenRead, ReadBefore, ReadRow, ReadAfter, tables

\* A submission of a right decision leaves rows and transactions right.
LEMMA SubmitRight ==
    ASSUME StoreInv, StoredRight, UNCHANGED given, files'.config = files.config,
           NEW p \in Procs, NEW sub, Submit(p, sub), Stands(sub)
    PROVE  StoredRight'
<1>1. tx' = [tx EXCEPT ![p] = [phase |-> "begin", sub |-> sub]] /\ decisions' = decisions
  BY DEF Submit, tables
<1>2. DOMAIN tx = Procs
  BY DEF StoreInv, TablesInv, StoreTypeOK, StoreShape
<1>3. \A q \in Procs : tx'[q].sub = sub \/ tx'[q] = tx[q]
  BY <1>1, <1>2
<1>4. \A q \in Procs : tx'[q].sub # None => Stands(tx'[q].sub)
  BY <1>3 DEF StoredRight
<1> QED  BY <1>1, <1>4, StoredStays DEF StoredRight

\* What an S0 invocation submits is what the references expect of it.
LEMMA PersistRight ==
    ASSUME StoreInv, InvocationsRight, StoredRight, UNCHANGED given,
           files'.config = files.config, NEW p \in Procs, Persist(p)
    PROVE  StoredRight'
<1>1. CASE UNCHANGED storeVars
  BY <1>1, StoredFrame
<1>2. CASE HybridStageOK(inv[p]) /\ Submit(p, S0Submission(inv[p]))
  <2>1. PICK i : i = inv[p]
    OBVIOUS
  <2>2. i.phase = "ready" /\ InvocationRight(i)
    BY <2>1 DEF Persist, InvocationsRight
  <2>3. PICK d : d = S0Decision(i)
    OBVIOUS
  <2>4. S0Expected(d, i.basis.csv)
    BY <1>2, <2>1, <2>2, <2>3, PersistExpects
  <2>5. PICK sub : sub = S0Submission(i)
    OBVIOUS
  <2>6. sub.decision = d /\ sub.basis = i.basis
    <3>1. PICK a, c, s, r, u, m, v, ev, o :
            S0Submission(i) =
              [id |-> a, scope |-> c, supersedes |-> s, decision |-> S0Decision(i),
               runtime |-> r, run |-> u, meta |-> m, saveRun |-> v, events |-> ev,
               coherent |-> o, basis |-> i.basis]
      BY Zenon DEF S0Submission
    <3> QED  BY <2>3, <2>5, <3>1
  <2>7. i.basis.path = "s0"
    BY <2>2 DEF InvocationRight, FastRight
  <2>8. Stands(sub)
    BY <2>4, <2>6, <2>7 DEF Stands
  <2> QED  BY <1>2, <2>1, <2>5, <2>8, SubmitRight
<1> QED  BY <1>1, <1>2 DEF Persist

\* What a handoff submits is what the references expect of it.
LEMMA PersistHandoffRight ==
    ASSUME StoreInv, GivenSound, HandoffSound, HandoffsRight, StoredRight, UNCHANGED given,
           files'.config = files.config, NEW p \in Procs, PersistHandoff(p)
    PROVE  StoredRight'
<1>1. CASE UNCHANGED storeVars
  BY <1>1, StoredFrame
<1>2. CASE Submit(p, HandoffSubmission(ho[p]))
  <2>0. ho[p].phase = "persist"
    BY DEF PersistHandoff
  <2>1. PICK h : h = ho[p]
    OBVIOUS
  <2>2. AnswersUnder(h.decision, Identity(h))
    BY <2>0, <2>1 DEF HandoffsRight, RightCommand, DecisionMade, FilesMade
  <2>3. h.cmd \in episode.commands /\ h.at \in episode.clock
    BY <2>0, <2>1, Working DEF CommandSound
  <2>4. PICK b : b = [path |-> "r1", at |-> h.at, config |-> h.cmd.config, fast |-> h.cmd.fast]
    OBVIOUS
  <2>5. R1Expected(h.decision, b)
    BY <2>2, <2>3, <2>4, AnswersExpected
  <2>6. PICK sub : sub = HandoffSubmission(h)
    OBVIOUS
  <2>7. sub.decision = h.decision /\ sub.basis = b
    <3>1. PICK a, c, s, r, u, m, v, ev, o :
            HandoffSubmission(h) =
              [id |-> a, scope |-> c, supersedes |-> s, decision |-> h.decision,
               runtime |-> r, run |-> u, meta |-> m, saveRun |-> v, events |-> ev,
               coherent |-> o, basis |-> b]
      BY <2>4, Zenon DEF HandoffSubmission
    <3> QED  BY <2>6, <3>1
  <2>8. b.path = "r1"
    BY <2>4
  <2>9. Stands(sub)
    BY <2>5, <2>7, <2>8 DEF Stands
  <2> QED  BY <1>2, <2>1, <2>6, <2>9, SubmitRight
<1> QED  BY <1>1, <1>2 DEF PersistHandoff

-----------------------------------------------------------------------------
(***************************************************************************)
(* Decisions are what the references say                                   *)
(***************************************************************************)
AnswersRight ==
    /\ EpisodeTyped /\ WorldTyped
    /\ FilesRight /\ InvocationsRight /\ HandoffsRight /\ StoredRight

LEMMA TypedStays ==
    ASSUME EpisodeTyped, WorldTyped, UNCHANGED given
    PROVE  EpisodeTyped' /\ WorldTyped'
<1>1. world' = world /\ episode' = episode
  BY DEF given
<1> QED  BY <1>1, Zenon DEF EpisodeTyped, WorldTyped

\* In an initial state nobody has answered.
LEMMA AnswersInitially ==
    ASSUME Init
    PROVE  AnswersRight
<1>1. InvocationsRight
  <2>1. \A p \in Procs : inv[p] = NoInvocation
    BY DEF Init, PipelineInit
  <2> QED  BY <2>1 DEF InvocationsRight, InvocationRight, NoInvocation
<1> QED  BY <1>1, EpisodeInitially, WorldInitially, FilesInitially, HandoffsRightInitially,
            StoredInitially DEF AnswersRight

\* Every action of the system keeps the answers right.
LEMMA AnswersNext ==
    ASSUME NullIsNoFunction, CommandsInv, AnswersRight, [Next]_vars
    PROVE  AnswersRight'
<1>0. /\ GivenSound /\ InvocationsSound /\ FastSound /\ HandoffSound /\ StoreInv
      /\ cast.procs \subseteq Procs
  BY DEF CommandsInv, GivenSound
<1>1. EpisodeTyped /\ WorldTyped /\ FilesRight /\ InvocationsRight /\ HandoffsRight /\ StoredRight
  BY DEF AnswersRight
<1>2. UNCHANGED given
  BY NextKeepsGiven
<1>3. EpisodeTyped' /\ WorldTyped'
  BY <1>1, <1>2, TypedStays
<1> DEFINE Rest == FilesRight' /\ InvocationsRight' /\ HandoffsRight' /\ StoredRight'
<1>4. CASE UNCHANGED <<storeVars, pipelineVars, handoffVars>>
  <2>1. files' = files /\ runner' = runner /\ inv' = inv
    BY <1>4 DEF pipelineVars
  <2> QED  BY <1>1, <1>2, <1>3, <1>4, <2>1, FilesFrame, InvocationsRightFrame,
              HandoffsRightFrame, StoredFrame DEF AnswersRight
<1>5. CASE UNCHANGED vars
  BY <1>4, <1>5 DEF vars
<1>6. CASE Replaying
  BY <1>4, <1>6 DEF Replaying, ReplayOnly
<1>7. CASE Feeding
  BY <1>4, <1>7 DEF Feeding, FeedOnly
<1>8. ASSUME NEW e \in cast.executions, Telemetry(e)
      PROVE  AnswersRight'
  BY <1>4, <1>8 DEF Telemetry, TelemetryOnly
<1>9. CASE Fast
  <2>1. UNCHANGED <<storeVars, handoffVars>> /\ inv' = inv
    BY <1>9 DEF Fast, FastOnly, FastRead, FastStage, LinkHits, LinkTrace, FastRollback,
       FastCrash, RewriteCsv, FastSelect
  <2>2. files'.config = files.config
    BY <1>0, <1>9, FastKeepsConfig
  <2> QED  BY <1>0, <1>1, <1>2, <1>3, <1>9, <2>1, <2>2, FilesStep, InvocationsRightFrame,
              HandoffsRightFrame, StoredFrame DEF AnswersRight
<1>10. CASE Store
  <2>1. UNCHANGED <<pipelineVars, handoffVars>>
    BY <1>10 DEF Store, StoreOnly
  <2>2. files' = files /\ runner' = runner /\ inv' = inv
    BY <2>1 DEF pipelineVars
  <2> QED  BY <1>0, <1>1, <1>2, <1>3, <1>10, <2>1, <2>2, FilesFrame, InvocationsRightFrame,
              HandoffsRightFrame, StoreRight DEF AnswersRight
<1>11. ASSUME NEW p \in cast.procs, Pipeline(p)
       PROVE  AnswersRight'
  <2>0. p \in Procs
    BY <1>0
  <2>1. UNCHANGED handoffVars /\ runner' = runner
    BY <1>11 DEF Pipeline, FastOnly, PipelineOnly, Invoke, LoadFast, Persist
  <2>2. InvocationsRight' /\ files' = files
    BY <1>0, <1>1, <1>2, <1>11, <2>0, PipelineRight
  <2>3. StoredRight'
    <3>1. Persist(p) \/ UNCHANGED storeVars
      BY <1>11 DEF Pipeline, FastOnly
    <3> QED  BY <1>0, <1>1, <1>2, <2>0, <2>2, <3>1, PersistRight, StoredFrame
  <2> QED  BY <1>1, <1>2, <1>3, <2>1, <2>2, <2>3, FilesFrame, HandoffsRightFrame DEF AnswersRight
<1>12. ASSUME NEW p \in cast.procs, Handoff(p)
       PROVE  AnswersRight'
  <2>0. p \in Procs
    BY <1>0
  <2>1. UNCHANGED pipelineVars
    BY <1>12 DEF Handoff, HandoffOnly
  <2>2. files' = files /\ runner' = runner /\ inv' = inv
    BY <2>1 DEF pipelineVars
  <2>3. HandoffsRight'
    BY <1>0, <1>1, <1>2, <1>12, <2>0, HandoffRight
  <2>4. StoredRight'
    <3>1. PersistHandoff(p) \/ UNCHANGED storeVars
      BY <1>12 DEF Handoff
    <3> QED  BY <1>0, <1>1, <1>2, <2>0, <2>2, <3>1, PersistHandoffRight, StoredFrame
  <2> QED  BY <1>1, <1>2, <1>3, <2>2, <2>3, <2>4, FilesFrame, InvocationsRightFrame DEF AnswersRight
<1> QED  BY <1>5, <1>6, <1>7, <1>8, <1>9, <1>10, <1>11, <1>12 DEF Next

\* The inductive invariant behind DecisionIsReference: what the CLI invocations, the
\* offline replay, the files of a run, the R1 handoffs and the stored rows hold on
\* their way is what the references find in the input it was computed from.
THEOREM AnswersAreRight ==
    ASSUME NullIsNoFunction
    PROVE  Spec => []AnswersRight
<1>1. CommandsInv /\ AnswersRight /\ [Next]_vars => AnswersRight'
  BY AnswersNext
<1>2. Init => AnswersRight
  BY AnswersInitially
<1>3. Spec => []CommandsInv
  BY CommandsAreSound
<1> QED  BY <1>1, <1>2, <1>3, PTL DEF Spec

\* With right answers the store holds what the references find.
LEMMA RightIsReference == CommandsInv /\ AnswersRight => DecisionIsReference
<1> SUFFICES ASSUME CommandsInv, AnswersRight
             PROVE  DecisionIsReference
  OBVIOUS
<1>1. DOMAIN decisions = Ids
  BY DEF CommandsInv, StoreInv, TablesInv, StoreTypeOK, StoreShape
<1>2. \A i \in Ids : decisions[i] # None => Stands(decisions[i])
  BY DEF AnswersRight, StoredRight
<1> QED  BY <1>1, <1>2, Zenon DEF DecisionIsReference, Stands

\* Every decision the store holds (decision_repository.py), whichever command made
\* and saved it, says of its run and entity what the references find: the fusion
\* time, the fast detection time and the earlier of the two with its trigger.
THEOREM DecisionsAreReference ==
    ASSUME NullIsNoFunction
    PROVE  Spec => []DecisionIsReference
BY CommandsAreSound, AnswersAreRight, RightIsReference, PTL

-----------------------------------------------------------------------------
(***************************************************************************)
(* The evidence of a Run: what Role2 holds, and what is on disk            *)
(***************************************************************************)
\* Chunks of one partition are told apart by id and by number, and their events agree.
ChunksAgree(chunks) ==
    \A c, d \in chunks : c.part = d.part /\ c # d =>
        /\ c.id # d.id /\ c.seq # d.seq
        /\ \A e \in c.events, x \in d.events : e.id = x.id => e = x

\* Role2's transaction is open only between a call and its commit, and never on a
\* closed Run.
LedgerSound ==
    /\ ledger = [chunks |-> ledger.chunks, close |-> ledger.close]
    /\ ledger.chunks \cup uncommitted \subseteq feed.chunks
    /\ ChunksAgree(ledger.chunks \cup uncommitted)
    /\ ledger.close \in feed.closes \cup {None}
    /\ ledger.close # None => uncommitted = {}
    /\ todo \in {"", "summary"} => uncommitted = {}
    /\ role2 = None => todo = ""

\* A state is what one call makes of the chunks and the close it holds.
Derived(s) ==
    LET h == Holding(s.chunks, s.closed)
    IN  \/ s = h
        \/ /\ s.closed # None /\ feed.contract
           /\ \E p \in feed.proofs, at, ready \in feed.clock : s = AfterProof(h, p, at, ready)
        \/ s.closed # None /\ \E end \in feed.ends : s = AfterRunEnd(h, end)
        \/ \E why \in {"close", "coverage", "proof"} : s = FailClosed(h, why)

\* What is so of a state whatever the ledger holds.
StateOwn(s) ==
    /\ s.chunks \subseteq feed.chunks /\ ChunksAgree(s.chunks)
    /\ PolicyFound(feed.registry, feed.policy)
    /\ feed.contract => \A c \in s.chunks : IsSelectorPartition(c.part)
    /\ Derived(s)

\* A state with a close holds nothing that the closed ledger does not.
UnderLedger(s, l) == s.closed # None => s.closed = l.close /\ s.chunks \subseteq l.chunks

StateSound(s) == StateOwn(s) /\ UnderLedger(s, ledger)

Role2Sound ==
    role2 # None => StateSound(role2) /\ role2.chunks \subseteq ledger.chunks \cup uncommitted

CheckpointSound == checkpoint # None => StateSound(checkpoint)

\* A saved final state stays.
FinalSound ==
    checkpoint # None /\ checkpoint.snap.status = "finalized" =>
        role2 \in {None, checkpoint} /\ todo # "write"

SavedVerified ==
    /\ checkpoint # None /\ checkpoint.snap.status = "finalized"
    /\ checkpoint.snap.mode = "verified_close_proof"

\* The files come from the saved state.
ArtifactsSound ==
    /\ artifacts = [evidence |-> artifacts.evidence, summary |-> artifacts.summary]
    /\ todo = "summary" \/ artifacts.summary # None =>
          SavedVerified /\ artifacts.evidence = FilesOf(checkpoint).evidence
    /\ todo = "summary" => role2 = checkpoint
    /\ artifacts.summary # None => artifacts.summary = FilesOf(checkpoint).summary

EvidenceSound ==
    IF feed = None
      THEN role2 = None /\ checkpoint = None /\ artifacts = NoFiles
      ELSE /\ FeedTyped(feed)
           /\ LedgerSound /\ Role2Sound /\ CheckpointSound /\ FinalSound /\ ArtifactsSound

-----------------------------------------------------------------------------
(***************************************************************************)
(* What a call makes of a state                                            *)
(***************************************************************************)
IsState(s) ==
    s = [chunks |-> s.chunks, closed |-> s.closed, proof |-> s.proof, receipt |-> s.receipt,
         validated |-> s.validated, snap |-> s.snap]

SameInputs(s, t) ==
    /\ s.chunks = t.chunks /\ s.closed = t.closed /\ s.proof = t.proof
    /\ s.receipt = t.receipt /\ s.validated = t.validated

LEMMA SnapshotFields ==
    ASSUME NEW a, NEW b, NEW c, NEW d, NEW e, NEW f, NEW g, NEW p, p = Snapshot(a, b, c, d, e, f, g)
    PROVE  /\ p.status = a /\ p.mode = b /\ p.boundary = c /\ p.available = d
           /\ p.evidences = e /\ p.input = f /\ p.why = g
BY DEF Snapshot

LEMMA HoldingFields ==
    ASSUME NEW c, NEW x, NEW h, h = Holding(c, x)
    PROVE  /\ IsState(h) /\ h.chunks = c /\ h.closed = x /\ h.proof = None /\ h.receipt = None
           /\ h.validated = None
           /\ h.snap.status \in {"provisional", "accumulating"} /\ h.snap.mode = None
           /\ h.snap.why = None /\ h.snap.evidences = {} /\ ~Terminal(h)
<1>1. /\ IsState(h) /\ h.chunks = c /\ h.closed = x /\ h.proof = None /\ h.receipt = None
      /\ h.validated = None /\ h.snap = ProvisionalSnapshot(c)
  BY DEF Holding, IsState
<1>2. \E status \in {"provisional", "accumulating"} :
         ProvisionalSnapshot(c) = Snapshot(status, None, None, None, {}, None, None)
  BY DEF ProvisionalSnapshot
<1>3. PICK status \in {"provisional", "accumulating"} :
         h.snap = Snapshot(status, None, None, None, {}, None, None)
  BY <1>1, <1>2
<1>4. h.snap.status = status /\ h.snap.mode = None /\ h.snap.why = None /\ h.snap.evidences = {}
  BY <1>3, SnapshotFields
<1> QED  BY <1>1, <1>4 DEF Terminal

LEMMA WithSnap ==
    ASSUME NEW s, IsState(s), NEW p, NEW t, t = [s EXCEPT !.snap = p]
    PROVE  IsState(t) /\ SameInputs(t, s) /\ t.snap = p
BY DEF IsState, SameInputs

LEMMA FailedFields ==
    ASSUME NEW s, IsState(s), NEW why, NEW t, t = FailClosed(s, why)
    PROVE  /\ IsState(t) /\ SameInputs(t, s)
           /\ t.snap.status = "failed_closed" /\ t.snap.why = why /\ t.snap.available = None
           /\ feed.contract => t.snap.mode = "verified_close_proof"
           /\ ~feed.contract => t.snap.mode = s.snap.mode
           /\ Terminal(t)
<1> DEFINE p == Snapshot("failed_closed", IF feed.contract THEN "verified_close_proof" ELSE s.snap.mode,
                         None, None, {}, None, why)
<1>1. t = [s EXCEPT !.snap = p]
  BY Zenon DEF FailClosed
<1>2. /\ p.status = "failed_closed" /\ p.why = why /\ p.available = None
      /\ p.mode = IF feed.contract THEN "verified_close_proof" ELSE s.snap.mode
  BY SnapshotFields
<1> HIDE DEF p
<1>3. IsState(t) /\ SameInputs(t, s) /\ t.snap = p
  BY <1>1, WithSnap
<1> QED  BY <1>2, <1>3 DEF Terminal

Refused(r) == r.selection.why # None \/ r.extraction.diagnostics # {}

\* The four ways finalization ends.
LEMMA FinalizeEnds ==
    ASSUME NEW s, IsState(s), NEW r, NEW mode, NEW boundary, NEW available, NEW ready, NEW v,
           v = FinalizeWith(r, s, mode, boundary, available, ready),
           NEW at, at = IF ready = None THEN available ELSE ready
    PROVE  /\ IsState(v) /\ SameInputs(v, s)
           /\ \/ Refused(r)
                 /\ v.snap = Snapshot("failed_closed", mode, boundary, available, {}, r.input, "unclear")
              \/ ~Refused(r) /\ at < available /\ v = FailClosed(s, "clock")
              \/ /\ ~Refused(r) /\ ~(at < available)
                 /\ \E e \in r.extraction.evidences : e.time > at
                 /\ v.snap = Snapshot("failed_closed", mode, boundary, at, {}, r.input, "future")
              \/ /\ ~Refused(r) /\ ~(at < available)
                 /\ \A e \in r.extraction.evidences : ~(e.time > at)
                 /\ v.snap = Snapshot("finalized", mode, boundary, at, r.extraction.evidences,
                                      r.input, None)
<1> DEFINE p1 == Snapshot("failed_closed", mode, boundary, available, {}, r.input, "unclear")
           p2 == Snapshot("failed_closed", mode, boundary, at, {}, r.input, "future")
           p3 == Snapshot("finalized", mode, boundary, at, r.extraction.evidences, r.input, None)
           future == \E e \in r.extraction.evidences : e.time > at
<1>1. v = IF Refused(r) THEN [s EXCEPT !.snap = p1]
          ELSE IF at < available THEN FailClosed(s, "clock")
          ELSE IF future THEN [s EXCEPT !.snap = p2]
          ELSE [s EXCEPT !.snap = p3]
  BY Zenon DEF FinalizeWith, Refused
<1> HIDE DEF p1, p2, p3, future
<1>2. CASE Refused(r)
  <2>1. v = [s EXCEPT !.snap = p1]
    BY <1>1, <1>2
  <2>2. IsState(v) /\ SameInputs(v, s) /\ v.snap = p1
    BY <2>1, WithSnap
  <2> QED  BY <1>2, <2>2 DEF p1
<1>3. CASE ~Refused(r) /\ at < available
  <2>1. v = FailClosed(s, "clock")
    BY <1>1, <1>3
  <2>2. IsState(v) /\ SameInputs(v, s)
    BY <2>1, FailedFields
  <2> QED  BY <1>3, <2>1, <2>2
<1>4. CASE ~Refused(r) /\ ~(at < available) /\ future
  <2>1. v = [s EXCEPT !.snap = p2]
    BY <1>1, <1>4
  <2>2. IsState(v) /\ SameInputs(v, s) /\ v.snap = p2
    BY <2>1, WithSnap
  <2> QED  BY <1>4, <2>2 DEF p2, future
<1>5. CASE ~Refused(r) /\ ~(at < available) /\ ~future
  <2>1. v = [s EXCEPT !.snap = p3]
    BY <1>1, <1>5
  <2>2. IsState(v) /\ SameInputs(v, s) /\ v.snap = p3
    BY <2>1, WithSnap
  <2>3. \A e \in r.extraction.evidences : ~(e.time > at)
    BY <1>5, Zenon DEF future
  <2> QED  BY <1>5, <2>2, <2>3 DEF p3
<1> QED  BY <1>2, <1>3, <1>4, <1>5

Proven(s, p, q, a) == [s EXCEPT !.proof = p, !.receipt = q, !.validated = a]

LEMMA WithProof ==
    ASSUME NEW s, IsState(s), NEW p, NEW q, NEW a, NEW t, t = Proven(s, p, q, a)
    PROVE  /\ IsState(t) /\ t.chunks = s.chunks /\ t.closed = s.closed /\ t.snap = s.snap
           /\ t.proof = p /\ t.receipt = q /\ t.validated = a
<1>1. PICK t1 : t1 = [s EXCEPT !.proof = p]
  OBVIOUS
<1>2. t1 = [chunks |-> s.chunks, closed |-> s.closed, proof |-> p, receipt |-> s.receipt,
            validated |-> s.validated, snap |-> s.snap]
  BY <1>1 DEF IsState
<1>3. PICK t2 : t2 = [t1 EXCEPT !.receipt = q]
  OBVIOUS
<1>4. t2 = [chunks |-> s.chunks, closed |-> s.closed, proof |-> p, receipt |-> q,
            validated |-> s.validated, snap |-> s.snap]
  BY <1>2, <1>3
<1>5. PICK t3 : t3 = [t2 EXCEPT !.validated = a]
  OBVIOUS
<1>6. t3 = [chunks |-> s.chunks, closed |-> s.closed, proof |-> p, receipt |-> q,
            validated |-> a, snap |-> s.snap]
  BY <1>4, <1>5
<1>7. t = t3
  BY <1>1, <1>3, <1>5, Zenon DEF Proven
<1> QED  BY <1>6, <1>7 DEF IsState

\* A finalized state of an extraction, and one that refused it.
FinalAs(s, r, mode, boundary, at) ==
    /\ s.snap.why = "unclear" => Refused(r)
    /\ s.snap.status = "finalized" =>
          /\ ~Refused(r) /\ s.snap.why = None /\ s.snap.boundary = boundary
          /\ s.snap.available = at /\ s.snap.input = r.input
          /\ s.snap.evidences = r.extraction.evidences
          /\ \A e \in r.extraction.evidences : ~(e.time > at)

\* What finalization makes of a state, whichever way it ends.
LEMMA FinalizeGives ==
    ASSUME NEW k, IsState(k), NEW r, NEW mode, NEW boundary,
           NEW available \in Int, NEW ready, ready \in Int \cup {None},
           ready # None => feed.contract /\ mode = "verified_close_proof",
           NEW v, v = FinalizeWith(r, k, mode, boundary, available, ready),
           NEW at, at = IF ready = None THEN available ELSE ready
    PROVE  /\ IsState(v) /\ SameInputs(v, k) /\ Terminal(v) /\ v.snap.mode = mode
           /\ v.snap.available \in {None, available, at}
           /\ ready = None => v.snap.boundary = boundary
           /\ v.snap.status = "finalized" => available <= at
           /\ FinalAs(v, r, mode, boundary, at)
<1> DEFINE Ends == /\ Terminal(v) /\ v.snap.mode = mode
                   /\ v.snap.available \in {None, available, at}
                   /\ ready = None => v.snap.boundary = boundary
                   /\ v.snap.status = "finalized" => available <= at
                   /\ FinalAs(v, r, mode, boundary, at)
<1>1. at \in Int
  OBVIOUS
<1>2. /\ IsState(v) /\ SameInputs(v, k)
      /\ \/ Refused(r)
            /\ v.snap = Snapshot("failed_closed", mode, boundary, available, {}, r.input, "unclear")
         \/ ~Refused(r) /\ at < available /\ v = FailClosed(k, "clock")
         \/ /\ ~Refused(r) /\ ~(at < available)
            /\ \E e \in r.extraction.evidences : e.time > at
            /\ v.snap = Snapshot("failed_closed", mode, boundary, at, {}, r.input, "future")
         \/ /\ ~Refused(r) /\ ~(at < available)
            /\ \A e \in r.extraction.evidences : ~(e.time > at)
            /\ v.snap = Snapshot("finalized", mode, boundary, at, r.extraction.evidences,
                                 r.input, None)
  BY FinalizeEnds
<1>3. ASSUME Refused(r),
             v.snap = Snapshot("failed_closed", mode, boundary, available, {}, r.input, "unclear")
      PROVE  Ends
  <2>1. /\ v.snap.status = "failed_closed" /\ v.snap.mode = mode /\ v.snap.boundary = boundary
        /\ v.snap.available = available
    BY <1>3, SnapshotFields
  <2> QED  BY <1>3, <2>1 DEF Terminal, FinalAs
<1>4. ASSUME ~Refused(r), at < available, v = FailClosed(k, "clock")
      PROVE  Ends
  <2>1. ready # None
    BY <1>4
  <2>2. /\ v.snap.status = "failed_closed" /\ v.snap.why = "clock" /\ v.snap.available = None
        /\ v.snap.mode = mode /\ Terminal(v)
    BY <1>4, <2>1, FailedFields
  <2> QED  BY <2>1, <2>2 DEF FinalAs
<1>5. ASSUME v.snap = Snapshot("failed_closed", mode, boundary, at, {}, r.input, "future")
      PROVE  Ends
  <2>1. /\ v.snap.status = "failed_closed" /\ v.snap.mode = mode /\ v.snap.boundary = boundary
        /\ v.snap.available = at /\ v.snap.why = "future"
    BY <1>5, SnapshotFields
  <2> QED  BY <2>1 DEF Terminal, FinalAs
<1>6. ASSUME ~Refused(r), ~(at < available), \A e \in r.extraction.evidences : ~(e.time > at),
             v.snap = Snapshot("finalized", mode, boundary, at, r.extraction.evidences, r.input, None)
      PROVE  Ends
  <2>1. /\ v.snap.status = "finalized" /\ v.snap.mode = mode /\ v.snap.boundary = boundary
        /\ v.snap.available = at /\ v.snap.evidences = r.extraction.evidences
        /\ v.snap.input = r.input /\ v.snap.why = None
    BY <1>6, SnapshotFields
  <2>2. FinalAs(v, r, mode, boundary, at)
    BY <1>6, <2>1, NoneIsNoOutcome, Zenon DEF FinalAs
  <2>3. available <= at
    BY <1>1, <1>6
  <2> QED  BY <2>1, <2>2, <2>3 DEF Terminal
<1> HIDE DEF Ends
<1>7. Ends
  BY <1>2, <1>3, <1>4, <1>5, <1>6
<1> QED  BY <1>2, <1>7 DEF Ends

MadeOf(batch) == SelectAndExtract(batch, ThePolicy, feed.start)

EndOfProof(s, h, c, x, p, at, ready) ==
    /\ IsState(s) /\ s.chunks = c /\ s.closed = x /\ Terminal(s)
    /\ s.snap.mode = "verified_close_proof" /\ s.snap.available \in feed.clock \cup {None}
    /\ \/ /\ \E why \in {"close", "coverage", "proof"} :
                s = FailClosed(h, why) /\ s.snap.why = why
          /\ s.proof = None /\ s.snap.status = "failed_closed"
       \/ /\ s.proof = p /\ p # None /\ s.validated = at /\ s.receipt = Trust.receipt
          /\ x = Trust.close /\ ChunksCovered(h) /\ ProofAcceptable(h, p, at)
          /\ s.snap.status = "finalized" => at <= ready
          /\ FinalAs(s, MadeOf(EventsOf(c)), "verified_close_proof", p.boundary, ready)

\* What comes of a proof: it is refused before it is kept, or kept and finalized with.
LEMMA ProofEnds ==
    ASSUME FeedTyped(feed), feed.contract, NEW c, NEW x, NEW h, h = Holding(c, x),
           NEW p \in feed.proofs, NEW at \in feed.clock, NEW ready \in feed.clock,
           NEW s, s = AfterProof(h, p, at, ready)
    PROVE  EndOfProof(s, h, c, x, p, at, ready)
<1>1. /\ IsState(h) /\ h.chunks = c /\ h.closed = x /\ h.proof = None /\ h.snap.mode = None
  BY HoldingFields
<1>2. p # None /\ at \in Int /\ ready \in Int /\ ready # None
  BY NoneIsNoTime DEF FeedTyped
<1>3. ASSUME NEW why \in {"close", "coverage", "proof"}, s = FailClosed(h, why)
      PROVE  /\ IsState(s) /\ s.chunks = c /\ s.closed = x /\ Terminal(s)
             /\ s.snap.mode = "verified_close_proof" /\ s.snap.available = None
             /\ s.snap.why = why /\ s.proof = None /\ s.snap.status = "failed_closed"
  <2>1. /\ IsState(s) /\ SameInputs(s, h) /\ s.snap.status = "failed_closed" /\ s.snap.why = why
        /\ s.snap.available = None /\ s.snap.mode = "verified_close_proof" /\ Terminal(s)
    BY <1>1, <1>3, FailedFields
  <2> QED  BY <1>1, <2>1 DEF SameInputs
<1> DEFINE k == Proven(h, p, Trust.receipt, at)
           r == MadeOf(EventsOf(c))
           f == Finalize(k, "verified_close_proof", p.boundary, at, None, ready)
<1>4. /\ IsState(k) /\ k.chunks = c /\ k.closed = x
      /\ k.proof = p /\ k.receipt = Trust.receipt /\ k.validated = at
  <2> HIDE DEF k
  <2>1. k = Proven(h, p, Trust.receipt, at)
    BY Zenon DEF k
  <2> QED  BY <1>1, <2>1, WithProof
<1>5. s = IF h.closed # Trust.close THEN FailClosed(h, "close")
          ELSE IF ~ChunksCovered(h) THEN FailClosed(h, "coverage")
          ELSE IF ~ProofAcceptable(h, p, at) THEN FailClosed(h, "proof")
          ELSE f
  BY Zenon DEF AfterProof, Proven
<1> HIDE DEF k, r, f
<1>6. CASE x # Trust.close \/ ~ChunksCovered(h) \/ ~ProofAcceptable(h, p, at)
  <2>1. PICK why \in {"close", "coverage", "proof"} : s = FailClosed(h, why)
    BY <1>1, <1>5, <1>6
  <2> QED  BY <1>3, <2>1 DEF EndOfProof
<1>7. CASE x = Trust.close /\ ChunksCovered(h) /\ ProofAcceptable(h, p, at)
  <2>1. s = f
    BY <1>1, <1>5, <1>7
  <2>2. {e \in EventsOf(k.chunks) : None # None => e.time <= None} = EventsOf(c)
    BY <1>4
  <2>3. s = FinalizeWith(r, k, "verified_close_proof", p.boundary, at, ready)
    BY <2>1, <2>2, Zenon DEF Finalize, r, MadeOf, f
  <2>4. /\ IsState(s) /\ SameInputs(s, k) /\ Terminal(s) /\ s.snap.mode = "verified_close_proof"
        /\ s.snap.available \in {None, at, ready}
        /\ s.snap.status = "finalized" => at <= ready
        /\ FinalAs(s, r, "verified_close_proof", p.boundary, ready)
    <3>1. ready = IF ready = None THEN at ELSE ready
      BY <1>2
    <3> QED  BY <1>2, <1>4, <2>3, <3>1, FinalizeGives
  <2>5. /\ s.chunks = c /\ s.closed = x /\ s.proof = p /\ s.validated = at
        /\ s.receipt = Trust.receipt
    BY <1>4, <2>4 DEF SameInputs
  <2>6. FinalAs(s, MadeOf(EventsOf(c)), "verified_close_proof", p.boundary, ready)
    BY <2>4, Zenon DEF r
  <2> QED  BY <1>2, <1>7, <2>4, <2>5, <2>6 DEF EndOfProof
<1> QED  BY <1>6, <1>7

EndOfRun(s, h, c, x, end) ==
    /\ IsState(s) /\ s.chunks = c /\ s.closed = x /\ Terminal(s) /\ s.proof = None
    /\ s.snap.mode = "authoritative_run_end_fallback" /\ s.snap.boundary = end
    /\ s.snap.status = "finalized" \/ s.snap.why = "unclear" => ChunksCovered(h)
    /\ FinalAs(s, MadeOf({e \in EventsOf(c) : e.time <= end}),
               "authoritative_run_end_fallback", end, end)

\* What comes of a Run that has ended without a proof.
LEMMA RunEnds ==
    ASSUME FeedTyped(feed), NEW c, NEW x, NEW h, h = Holding(c, x),
           NEW end \in feed.ends, NEW s, s = AfterRunEnd(h, end)
    PROVE  EndOfRun(s, h, c, x, end)
<1>1. /\ IsState(h) /\ h.chunks = c /\ h.closed = x /\ h.proof = None
  BY HoldingFields
<1>2. end \in Int /\ end # None
  BY NoneIsNoTime DEF FeedTyped
<1> DEFINE mode == "authoritative_run_end_fallback"
           r == MadeOf({e \in EventsOf(c) : e.time <= end})
           lost == Snapshot("failed_closed", mode, end, end, {}, None, "coverage")
           f == Finalize(h, mode, end, end, end, None)
<1>3. s = IF ~ChunksCovered(h) THEN [h EXCEPT !.snap = lost] ELSE f
  BY Zenon DEF AfterRunEnd
<1> HIDE DEF r, lost, f
<1>4. CASE ~ChunksCovered(h)
  <2>1. s = [h EXCEPT !.snap = lost]
    BY <1>3, <1>4
  <2>2. IsState(s) /\ SameInputs(s, h) /\ s.snap = lost
    BY <1>1, <2>1, WithSnap
  <2>3. /\ s.snap.status = "failed_closed" /\ s.snap.mode = mode /\ s.snap.boundary = end
        /\ s.snap.why = "coverage"
    BY <2>2, SnapshotFields DEF lost
  <2> QED  BY <1>1, <1>4, <2>2, <2>3 DEF SameInputs, Terminal, FinalAs, EndOfRun
<1>5. CASE ChunksCovered(h)
  <2>1. s = f
    BY <1>3, <1>5
  <2>2. {e \in EventsOf(h.chunks) : end # None => e.time <= end} = {e \in EventsOf(c) : e.time <= end}
    BY <1>1, <1>2
  <2>3. s = FinalizeWith(r, h, mode, end, end, None)
    BY <2>1, <2>2, Zenon DEF Finalize, r, MadeOf, f
  <2>4. /\ IsState(s) /\ SameInputs(s, h) /\ Terminal(s) /\ s.snap.mode = mode
        /\ s.snap.boundary = end /\ FinalAs(s, r, mode, end, end)
    <3>1. end = IF None = None THEN end ELSE None
      OBVIOUS
    <3> QED  BY <1>1, <1>2, <2>3, <3>1, FinalizeGives
  <2>5. FinalAs(s, MadeOf({e \in EventsOf(c) : e.time <= end}), mode, end, end)
    BY <2>4, Zenon DEF r
  <2> QED  BY <1>1, <1>5, <2>4, <2>5 DEF SameInputs, EndOfRun
<1> QED  BY <1>4, <1>5

HeldBy(s) == Holding(s.chunks, s.closed)

\* How a state with a proof ends, and how one without does.
ProvenFinal(s) ==
    /\ feed.contract /\ s.closed # None
    /\ \E p \in feed.proofs, at, ready \in feed.clock :
          /\ s = AfterProof(HeldBy(s), p, at, ready)
          /\ s.proof = p /\ p # None /\ s.validated = at /\ s.receipt = Trust.receipt
          /\ s.closed = Trust.close /\ ChunksCovered(HeldBy(s)) /\ ProofAcceptable(HeldBy(s), p, at)
          /\ s.snap.available \in feed.clock \cup {None}
          /\ s.snap.mode = "verified_close_proof"
          /\ s.snap.status = "finalized" => at <= ready
          /\ FinalAs(s, MadeOf(EventsOf(s.chunks)), "verified_close_proof", p.boundary, ready)

EndedFinal(s) ==
    /\ s.closed # None /\ s.proof = None
    /\ \E end \in feed.ends :
          /\ s = AfterRunEnd(HeldBy(s), end)
          /\ s.snap.mode = "authoritative_run_end_fallback" /\ s.snap.boundary = end
          /\ s.snap.status = "finalized" \/ s.snap.why = "unclear" => ChunksCovered(HeldBy(s))
          /\ FinalAs(s, MadeOf({e \in EventsOf(s.chunks) : e.time <= end}),
                     "authoritative_run_end_fallback", end, end)

RefusedFinal(s) ==
    /\ s.proof = None /\ s.snap.status = "failed_closed"
    /\ feed.contract => s.snap.mode = "verified_close_proof"
    /\ ~feed.contract => s.snap.mode = None
    /\ s.snap.why \in {"close", "coverage", "proof"} /\ s = FailClosed(HeldBy(s), s.snap.why)

LEMMA DerivedIs ==
    ASSUME FeedTyped(feed), NEW s, Derived(s)
    PROVE  /\ IsState(s)
           /\ \/ s = HeldBy(s) /\ ~Terminal(s)
              \/ ProvenFinal(s) /\ Terminal(s)
              \/ EndedFinal(s) /\ Terminal(s)
              \/ RefusedFinal(s) /\ Terminal(s)
<1> DEFINE h == HeldBy(s)
<1>1. h = Holding(s.chunks, s.closed)
  BY DEF HeldBy
<1>2. IsState(h) /\ h.proof = None /\ h.snap.mode = None /\ ~Terminal(h)
  BY <1>1, HoldingFields
<1>3. \/ s = h
      \/ /\ s.closed # None /\ feed.contract
         /\ \E p \in feed.proofs, at, ready \in feed.clock : s = AfterProof(h, p, at, ready)
      \/ s.closed # None /\ \E end \in feed.ends : s = AfterRunEnd(h, end)
      \/ \E why \in {"close", "coverage", "proof"} : s = FailClosed(h, why)
  BY Zenon DEF Derived, HeldBy
<1> HIDE DEF h
<1>4. CASE s = h
  BY <1>2, <1>4 DEF h
<1>5. ASSUME NEW why \in {"close", "coverage", "proof"}, s = FailClosed(h, why)
      PROVE  IsState(s) /\ RefusedFinal(s) /\ Terminal(s)
  <2>1. /\ IsState(s) /\ SameInputs(s, h) /\ s.snap.status = "failed_closed" /\ s.snap.why = why
        /\ feed.contract => s.snap.mode = "verified_close_proof"
        /\ ~feed.contract => s.snap.mode = h.snap.mode
        /\ Terminal(s)
    BY <1>2, <1>5, FailedFields
  <2>2. s = FailClosed(HeldBy(s), s.snap.why)
    BY <1>5, <2>1 DEF h
  <2> QED  BY <1>2, <2>1, <2>2 DEF RefusedFinal, SameInputs
<1>6. ASSUME s.closed # None, feed.contract, NEW p \in feed.proofs, NEW at \in feed.clock,
             NEW ready \in feed.clock, s = AfterProof(h, p, at, ready)
      PROVE  IsState(s) /\ (ProvenFinal(s) \/ RefusedFinal(s)) /\ Terminal(s)
  <2>1. /\ IsState(s) /\ Terminal(s)
        /\ s.snap.mode = "verified_close_proof" /\ s.snap.available \in feed.clock \cup {None}
        /\ \/ /\ \E why \in {"close", "coverage", "proof"} :
                    s = FailClosed(h, why) /\ s.snap.why = why
              /\ s.proof = None /\ s.snap.status = "failed_closed"
           \/ /\ s.proof = p /\ p # None /\ s.validated = at /\ s.receipt = Trust.receipt
              /\ s.closed = Trust.close /\ ChunksCovered(h) /\ ProofAcceptable(h, p, at)
              /\ s.snap.status = "finalized" => at <= ready
              /\ FinalAs(s, MadeOf(EventsOf(s.chunks)), "verified_close_proof", p.boundary, ready)
    <3>1. EndOfProof(s, h, s.chunks, s.closed, p, at, ready)
      BY <1>1, <1>6, ProofEnds
    <3> QED  BY <3>1, Zenon DEF EndOfProof
  <2>2. CASE \E why \in {"close", "coverage", "proof"} : s = FailClosed(h, why)
    BY <1>5, <2>2
  <2>3. CASE ~ \E why \in {"close", "coverage", "proof"} : s = FailClosed(h, why)
    BY <1>6, <2>1, <2>3, Zenon DEF ProvenFinal, h
  <2> QED  BY <2>2, <2>3
<1>7. ASSUME s.closed # None, NEW end \in feed.ends, s = AfterRunEnd(h, end)
      PROVE  IsState(s) /\ EndedFinal(s) /\ Terminal(s)
  <2>1. /\ IsState(s) /\ Terminal(s) /\ s.proof = None
        /\ s.snap.mode = "authoritative_run_end_fallback" /\ s.snap.boundary = end
        /\ s.snap.status = "finalized" \/ s.snap.why = "unclear" => ChunksCovered(h)
        /\ FinalAs(s, MadeOf({e \in EventsOf(s.chunks) : e.time <= end}),
                   "authoritative_run_end_fallback", end, end)
    <3>1. EndOfRun(s, h, s.chunks, s.closed, end)
      BY <1>1, <1>7, RunEnds
    <3> QED  BY <3>1, Zenon DEF EndOfRun
  <2> QED  BY <1>7, <2>1, Zenon DEF EndedFinal, h
<1> QED  BY <1>3, <1>4, <1>5, <1>6, <1>7, Zenon

\* What recovery computes is what a call can make of the inputs that were saved; from
\* a saved final state it is that state.
LEMMA ReplayedIs ==
    ASSUME FeedTyped(feed), NEW c, Derived(c), NEW now \in feed.clock, NEW r, r = Replayed(c, now)
    PROVE  /\ Derived(r) /\ r.chunks = c.chunks /\ r.closed = c.closed
           /\ c.snap.status = "finalized" => r = c
<1> DEFINE h == HeldBy(c)
<1>0. /\ IsState(h) /\ h.chunks = c.chunks /\ h.closed = c.closed /\ h.snap.mode = None
      /\ h = Holding(c.chunks, c.closed) /\ ~Terminal(h)
  BY HoldingFields DEF HeldBy
<1>1. r = IF c.snap.mode = "authoritative_run_end_fallback" THEN AfterRunEnd(h, c.snap.boundary)
          ELSE IF c.snap.mode = "verified_close_proof"
            THEN IF c.proof = None THEN FailClosed(h, c.snap.why)
                 ELSE AfterProof(h, c.proof, c.validated, RecoveryClock(c, now))
          ELSE h
  BY Zenon DEF Replayed, HeldBy
<1> HIDE DEF h
<1>2. None # "authoritative_run_end_fallback" /\ None # "verified_close_proof"
  BY NoneIsNoOutcome
<1>3. Derived(c) /\ (c.snap.status = "finalized" => Terminal(c))
  BY DEF Terminal
<1>4. ASSUME r = h, ~(c.snap.status = "finalized")
      PROVE  /\ Derived(r) /\ r.chunks = c.chunks /\ r.closed = c.closed
             /\ c.snap.status = "finalized" => r = c
  BY <1>0, <1>4 DEF Derived
<1>5. CASE c = HeldBy(c) /\ ~Terminal(c)
  <2>1. r = h
    BY <1>0, <1>1, <1>2, <1>5 DEF h
  <2> QED  BY <1>3, <1>4, <1>5, <2>1
<1>6. CASE ProvenFinal(c)
  <2>1. PICK p \in feed.proofs, at \in feed.clock, ready \in feed.clock :
            /\ c = AfterProof(h, p, at, ready)
            /\ c.proof = p /\ p # None /\ c.validated = at
            /\ c.snap.available \in feed.clock \cup {None}
            /\ c.snap.mode = "verified_close_proof"
            /\ FinalAs(c, MadeOf(EventsOf(c.chunks)), "verified_close_proof", p.boundary, ready)
    BY <1>6, Zenon DEF ProvenFinal, h
  <2> DEFINE clock == RecoveryClock(c, now)
  <2>2. clock \in feed.clock
    BY <2>1 DEF RecoveryClock
  <2>3. c.snap.status = "finalized" => clock = ready
    <3>1. ready # None
      BY NoneIsNoTime DEF FeedTyped
    <3> QED  BY <2>1, <3>1 DEF RecoveryClock, FinalAs
  <2> HIDE DEF clock
  <2>4. r = AfterProof(h, p, at, clock)
    BY <1>1, <2>1 DEF clock
  <2>5. feed.contract /\ c.closed # None
    BY <1>6 DEF ProvenFinal
  <2>6. r.chunks = c.chunks /\ r.closed = c.closed
    <3>1. EndOfProof(r, h, c.chunks, c.closed, p, at, clock)
      BY <1>0, <2>2, <2>4, <2>5, ProofEnds
    <3> QED  BY <3>1 DEF EndOfProof
  <2>7. h = Holding(r.chunks, r.closed)
    BY <1>0, <2>6
  <2>8. Derived(r)
    BY <2>2, <2>4, <2>5, <2>6, <2>7, Zenon DEF Derived
  <2> QED  BY <2>1, <2>3, <2>4, <2>6, <2>8
<1>7. CASE EndedFinal(c)
  <2>1. PICK end \in feed.ends :
            /\ c = AfterRunEnd(h, end)
            /\ c.snap.mode = "authoritative_run_end_fallback" /\ c.snap.boundary = end
    BY <1>7, Zenon DEF EndedFinal, h
  <2>2. r = c
    BY <1>1, <2>1
  <2> QED  BY <2>2
<1>8. CASE RefusedFinal(c)
  <2>1. /\ c.proof = None /\ c.snap.status = "failed_closed"
        /\ feed.contract => c.snap.mode = "verified_close_proof"
        /\ ~feed.contract => c.snap.mode = None
        /\ c = FailClosed(h, c.snap.why)
    BY <1>8 DEF RefusedFinal, h
  <2>2. CASE feed.contract
    <3>1. r = c
      BY <1>1, <2>1, <2>2
    <3> QED  BY <3>1
  <2>3. CASE ~feed.contract
    <3>1. r = h
      BY <1>1, <1>2, <2>1, <2>3
    <3> QED  BY <1>4, <2>1, <3>1
  <2> QED  BY <2>2, <2>3
<1> QED  BY <1>5, <1>6, <1>7, <1>8, DerivedIs

-----------------------------------------------------------------------------
LEMMA BatchOfChunks ==
    ASSUME FeedTyped(feed), NEW chunks \in SUBSET feed.chunks, ChunksAgree(chunks),
           NEW batch \in SUBSET EventsOf(chunks)
    PROVE  IsBatch(batch)
<1> DEFINE own == {c \in chunks : IsSelectorPartition(c.part)}
           sets == {c.events : c \in own}
<1>1. EventsOf(chunks) = UNION sets
  BY Zenon DEF EventsOf
<1>2. \A c \in own : /\ c \in feed.chunks /\ c \in chunks
                     /\ c.part = [run |-> feed.run, host |-> feed.entity, source |-> "sysmon"]
                     /\ c.part.run = feed.run /\ c.part.host = feed.entity
  BY DEF IsSelectorPartition
<1>3. IsFiniteSet(own)
  <2>1. IsFiniteSet(feed.chunks) /\ own \subseteq feed.chunks
    BY DEF FeedTyped
  <2> HIDE DEF own
  <2> QED  BY <2>1, FS_Subset
<1>4. \A c \in feed.chunks :
          /\ IsFiniteSet(c.events)
          /\ \A e \in c.events :
                /\ e.run = c.part.run /\ e.host = c.part.host /\ {e.time, e.ingest} \subseteq Int
                /\ e.name # None /\ e.name[1] = "" => e.name = <<"", "">>
          /\ \A e, x \in c.events : e.id = x.id => e = x
  BY DEF FeedTyped
<1> HIDE DEF own
<1>5. IsFiniteSet(UNION sets)
  <2>1. IsFiniteSet(sets)
    <3> DEFINE f == [c \in own |-> c.events]
    <3>1. sets = {f[c] : c \in own}
      OBVIOUS
    <3> HIDE DEF f, sets
    <3> QED  BY <1>3, <3>1, FiniteValues
  <2>2. \A t \in sets : IsFiniteSet(t)
    BY <1>2, <1>4
  <2> HIDE DEF sets
  <2> QED  BY <2>1, <2>2, FS_UNION
<1>6. \A e \in UNION sets : \E c \in own : e \in c.events
  OBVIOUS
<1> HIDE DEF sets
<1>7. IsFiniteSet(batch)
  BY <1>1, <1>5, FS_Subset
<1>8. \A e \in batch : \E c \in own : e \in c.events
  BY <1>1, <1>6
<1>9. ASSUME NEW e \in batch
      PROVE  /\ e.time \in Int /\ e.run = feed.run /\ e.host = feed.entity
             /\ e.name # None /\ e.name[1] = "" => e.name = <<"", "">>
  <2>1. PICK c \in own : e \in c.events
    BY <1>8
  <2>2. {e.time, e.ingest} \subseteq Int /\ e.run = c.part.run /\ e.host = c.part.host
    BY <1>2, <1>4, <2>1
  <2>3. e.name # None /\ e.name[1] = "" => e.name = <<"", "">>
    BY <1>2, <1>4, <2>1
  <2> QED  BY <1>2, <2>1, <2>2, <2>3
<1>10. ASSUME NEW e \in batch, NEW x \in batch, e.id = x.id
       PROVE  e = x
  <2>1. PICK c \in own : e \in c.events
    BY <1>8
  <2>2. PICK d \in own : x \in d.events
    BY <1>8
  <2>3. c.part = d.part /\ c \in chunks /\ d \in chunks
    BY <1>2
  <2>4. CASE c = d
    BY <1>2, <1>4, <1>10, <2>1, <2>2, <2>4
  <2>5. CASE c # d
    BY <1>10, <2>1, <2>2, <2>3, <2>5 DEF ChunksAgree
  <2> QED  BY <2>4, <2>5
<1> QED  BY <1>7, <1>9, <1>10 DEF IsBatch

\* The events of covered chunks are those under the close.
LEMMA CoveredAreSealed ==
    ASSUME FeedTyped(feed), ledger.chunks \subseteq feed.chunks, ChunksAgree(ledger.chunks),
           NEW s, s.closed \in feed.closes, s.chunks \subseteq ledger.chunks, ChunksCovered(s)
    PROVE  /\ s.snap.mode = "verified_close_proof" => SealedEvents(s) = EventsOf(s.chunks)
           /\ s.snap.mode = "authoritative_run_end_fallback" =>
                 SealedEvents(s) = {e \in EventsOf(s.chunks) : e.time <= s.snap.boundary}
<1> DEFINE sealed(c) == \E f \in s.closed.finals : f.part = c.part /\ c.seq <= f.covered
           held == {c \in ledger.chunks : sealed(c)}
<1>1. ASSUME NEW c \in s.chunks, IsSelectorPartition(c.part)
      PROVE  sealed(c)
  BY <1>1 DEF ChunksCovered
<1>2. ASSUME NEW c \in ledger.chunks, sealed(c), IsSelectorPartition(c.part)
      PROVE  c \in s.chunks
  <2>1. PICK f \in s.closed.finals : f.part = c.part /\ c.seq <= f.covered
    BY <1>2
  <2>2. c.seq \in Nat \ {0} /\ f.covered \in Nat
    BY DEF FeedTyped
  <2>3. c.seq \in 1..f.covered
    BY <2>1, <2>2
  <2>4. PICK d \in s.chunks : d.part = f.part /\ d.seq = c.seq
    BY <1>2, <2>1, <2>3 DEF ChunksCovered
  <2> QED  BY <2>1, <2>4 DEF ChunksAgree
<1>3. {c \in held : IsSelectorPartition(c.part)} = {c \in s.chunks : IsSelectorPartition(c.part)}
  <2> HIDE DEF sealed
  <2> QED  BY <1>1, <1>2
<1>4. EventsOf(held) = EventsOf(s.chunks)
  <2> HIDE DEF held
  <2> QED  BY <1>3, Zenon DEF EventsOf
<1>5. SealedEvents(s) = {e \in EventsOf(held) : s.snap.mode = "authoritative_run_end_fallback" =>
                                                  e.time <= s.snap.boundary}
  BY Zenon DEF SealedEvents
<1> HIDE DEF held
<1> QED  BY <1>4, <1>5

LEMMA LargestOfFinite ==
    ASSUME NEW S, IsFiniteSet(S), S \subseteq Int, S # {}
    PROVE  Max(S) \in Int /\ \A y \in S : y <= Max(S)
<1> DEFINE Good == {T \in SUBSET S : T = {} \/ \E x \in T : \A y \in T : x >= y}
<1>1. {} \in Good
  OBVIOUS
<1>2. ASSUME NEW T \in Good, NEW x \in S, x \notin T
      PROVE  T \cup {x} \in Good
  <2>1. CASE T = {}
    <3>1. x \in T \cup {x} /\ \A y \in T \cup {x} : x >= y
      BY <2>1
    <3> QED  BY <2>1, <3>1
  <2>2. CASE T # {}
    <3>1. PICK m \in T : \A y \in T : m >= y
      BY <1>2, <2>2
    <3>2. CASE m >= x
      <4>1. m \in T \cup {x} /\ \A y \in T \cup {x} : m >= y
        BY <3>1, <3>2
      <4> QED  BY <1>2, <4>1
    <3>3. CASE ~(m >= x)
      <4>1. \A y \in T \cup {x} : x >= y
        BY <1>2, <3>1, <3>3
      <4> QED  BY <1>2, <4>1
    <3> QED  BY <3>2, <3>3
  <2> QED  BY <2>1, <2>2
<1>3. S \in Good
  <2>1. Good \in SUBSET SUBSET S
    OBVIOUS
  <2> HIDE DEF Good
  <2> QED  BY <1>1, <1>2, <2>1, FiniteInduction
<1>4. PICK m \in S : \A y \in S : m >= y
  BY <1>3
<1>5. Max(S) \in S /\ \A y \in S : Max(S) >= y
  BY <1>4, Zenon DEF Max
<1> QED  BY <1>5

\* The policy of a Run has a lineage.
LEMMA PolicyIs ==
    ASSUME FeedTyped(feed), PolicyFound(feed.registry, feed.policy)
    PROVE  /\ feed.start \in Int
           /\ Len(ThePolicy.lineage) \in Nat \ {0}
           /\ DOMAIN ThePolicy.lineage = 1..Len(ThePolicy.lineage)
<1> DEFINE policies == feed.registry.policies
<1>1. PICK i \in DOMAIN policies : policies[i].id = feed.policy
  BY DEF PolicyFound
<1>2. ThePolicy \in Range(policies)
  <2>1. ThePolicy = CHOOSE p \in Range(policies) : p.id = feed.policy
    BY Zenon DEF ThePolicy, ApprovedPolicy
  <2>2. policies[i] \in Range(policies)
    BY <1>1 DEF Range
  <2> HIDE DEF policies
  <2> QED  BY <1>1, <2>1, <2>2
<1>3. PICK j \in DOMAIN policies : ThePolicy = policies[j]
  BY <1>2 DEF Range
<1>4. policies[j].lineage # <<>>
  BY <1>3 DEF PolicyFound, RegistryLoads
<1>5. policies[j].lineage \in Seq(ToSet(policies[j].lineage))
  BY <1>3 DEF FeedTyped
<1> DEFINE lineage == policies[j].lineage
<1>6. lineage \in Seq(ToSet(lineage)) /\ lineage # <<>>
  BY <1>4, <1>5
<1> HIDE DEF lineage
<1>7. Len(lineage) \in Nat \ {0} /\ DOMAIN lineage = 1..Len(lineage)
  BY <1>6
<1>8. ThePolicy.lineage = lineage
  BY <1>3 DEF lineage
<1> QED  BY <1>7, <1>8 DEF FeedTyped

\* A batch of a Run is refused if it is not clear, and else is as expected.
LEMMA BatchIs ==
    ASSUME FeedTyped(feed), PolicyFound(feed.registry, feed.policy),
           NEW chunks \in SUBSET feed.chunks, ChunksAgree(chunks),
           NEW batch \in SUBSET EventsOf(chunks), NEW r, r = MadeOf(batch),
           NEW count, count = Len(ThePolicy.lineage)
    PROVE  /\ Refused(r) <=> ~Clear(batch, count, feed.start)
           /\ ~Refused(r) =>
                 /\ Shape(r.extraction.evidences) = EvidenceExpected(batch, ThePolicy, feed.start)
                 /\ \E l : /\ LineFound(batch, feed.start, count, l) /\ Named(Reverse(l))
                           /\ r.input = LineageInput(Selected(l, feed.start), ThePolicy)
                           /\ r.extraction.evidences = EvidenceMade(batch, feed.start, l, ThePolicy)
                 /\ \A e \in r.extraction.evidences : e.time \in Int
<1>1. IsBatch(batch)
  BY BatchOfChunks
<1>2. /\ feed.start \in Int /\ count \in Nat \ {0} /\ DOMAIN ThePolicy.lineage = 1..count
      /\ Len(ThePolicy.lineage) = count
  BY PolicyIs
<1>3. r = SelectAndExtract(batch, ThePolicy, feed.start)
  BY DEF MadeOf
<1>4. /\ Clear(batch, count, feed.start) <=> r.selection.why = None /\ r.extraction.diagnostics = {}
      /\ Clear(batch, count, feed.start) =>
            Shape(r.extraction.evidences) = EvidenceExpected(batch, ThePolicy, feed.start)
  BY <1>1, <1>2, <1>3, ExtractionIsReference
<1>5. ASSUME Clear(batch, count, feed.start)
      PROVE  \E l : /\ LineFound(batch, feed.start, count, l) /\ Named(Reverse(l))
                    /\ r.input = LineageInput(Selected(l, feed.start), ThePolicy)
                    /\ r.extraction.evidences = EvidenceMade(batch, feed.start, l, ThePolicy)
  <2>1. PICK l : /\ LineFound(batch, feed.start, count, l) /\ Named(Reverse(l))
                 /\ r.input = LineageInput(Selected(l, feed.start), ThePolicy)
                 /\ r.extraction = Extraction(EvidenceMade(batch, feed.start, l, ThePolicy), {})
    BY <1>1, <1>2, <1>3, <1>5, ExtractionIsLine
  <2>2. r.extraction.evidences = EvidenceMade(batch, feed.start, l, ThePolicy)
    BY <2>1 DEF Extraction
  <2> QED  BY <2>1, <2>2
<1>6. Refused(r) <=> ~Clear(batch, count, feed.start)
  BY <1>4 DEF Refused
<1>7. ASSUME ~Refused(r)
      PROVE  \A e \in r.extraction.evidences : e.time \in Int
  <2>1. PICK l : /\ LineFound(batch, feed.start, count, l)
                 /\ r.extraction.evidences = EvidenceMade(batch, feed.start, l, ThePolicy)
    BY <1>5, <1>6, <1>7
  <2> QED  BY <2>1, MadeAreTold
<1> QED  BY <1>4, <1>5, <1>6, <1>7

\* A proof is accepted with its trusted boundary, after all that it is made from.
LEMMA AcceptedIs ==
    ASSUME FeedTyped(feed), NEW h, h.chunks \subseteq feed.chunks, NEW p \in feed.proofs,
           NEW at \in feed.clock, ProofAcceptable(h, p, at)
    PROVE  /\ p.boundary = BoundaryOf(Trust.projection)
           /\ \A e \in EventsOf(h.chunks) : e.ingest <= at
<1> DEFINE own == {f.part : f \in {f \in p.sealed :
                                    f.part.run = feed.run /\ f.part.host = feed.entity}}
           ingests == {e.ingest : e \in EventsOf(h.chunks)}
           times == {Trust.close.emitted, p.boundary, p.verifiedAt, p.createdAt, at, LatestIngest(h)}
<1>1. /\ own # {} /\ \A part \in own : CloseProofAccepted(p, Trust, feed.run, feed.family, part, at)
      /\ at = Max(times)
  BY Zenon DEF ProofAcceptable
<1>2. ProjectionTrusted(p, Trust)
  <2> HIDE DEF own
  <2>1. PICK part \in own : CloseProofAccepted(p, Trust, feed.run, feed.family, part, at)
    BY <1>1
  <2> QED  BY <2>1 DEF CloseProofAccepted
<1>3. p.boundary = BoundaryOf(Trust.projection)
  <2>1. Trust.projection = <<p.seal, p.run, p.host, p.family, p.policy, p.close, p.boundary,
                             p.sealed, p.verifiedAt>>
    BY <1>2 DEF ProjectionTrusted, ProofProjection, Projection
  <2> QED  BY <2>1 DEF BoundaryOf
<1>4. IsFiniteSet(ingests) /\ ingests \subseteq Int
  <2>1. IsFiniteSet(EventsOf(h.chunks)) /\ \A e \in EventsOf(h.chunks) : e.ingest \in Int
    <3> DEFINE kept == {c \in h.chunks : IsSelectorPartition(c.part)}
               sets == {c.events : c \in kept}
               f == [c \in kept |-> c.events]
    <3>1. EventsOf(h.chunks) = UNION sets
      BY Zenon DEF EventsOf
    <3>2. IsFiniteSet(kept)
      <4>1. IsFiniteSet(feed.chunks) /\ kept \subseteq feed.chunks
        BY DEF FeedTyped
      <4> HIDE DEF kept
      <4> QED  BY <4>1, FS_Subset
    <3>3. \A c \in kept : IsFiniteSet(c.events) /\ \A e \in c.events : e.ingest \in Int
      BY DEF FeedTyped
    <3> HIDE DEF kept
    <3>4. sets = {f[c] : c \in kept}
      OBVIOUS
    <3>5. (\A t \in sets : IsFiniteSet(t)) /\ \A e \in UNION sets : e.ingest \in Int
      BY <3>3
    <3> HIDE DEF sets, f
    <3>6. IsFiniteSet(sets)
      BY <3>2, <3>4, FiniteValues
    <3> QED  BY <3>1, <3>5, <3>6, FS_UNION
  <2> DEFINE E == EventsOf(h.chunks)
             g == [e \in E |-> e.ingest]
             I == {e.ingest : e \in E}
  <2> HIDE DEF E
  <2>2. I = {g[e] : e \in E}
    OBVIOUS
  <2>3. I \subseteq Int /\ IsFiniteSet(E)
    BY <2>1 DEF E
  <2> HIDE DEF g, I
  <2>4. IsFiniteSet(I)
    BY <2>2, <2>3, FiniteValues
  <2>5. ingests = I
    BY Zenon DEF I, E
  <2> QED  BY <2>3, <2>4, <2>5
<1>5. LatestIngest(h) \in Int /\ \A y \in ingests : y <= LatestIngest(h)
  <2>1. LatestIngest(h) = IF ingests = {} THEN feed.start ELSE Max(ingests)
    BY Zenon DEF LatestIngest
  <2>2. feed.start \in Int
    BY DEF FeedTyped
  <2> HIDE DEF ingests
  <2>3. CASE ingests = {}
    BY <2>1, <2>2, <2>3
  <2>4. CASE ingests # {}
    BY <1>4, <2>1, <2>4, LargestOfFinite
  <2> QED  BY <2>3, <2>4
<1>6. LatestIngest(h) <= at
  <2>1. times \subseteq Int
    BY <1>5 DEF FeedTyped, Trust
  <2>2. IsFiniteSet(times) /\ LatestIngest(h) \in times
    <3>1. times = {Trust.close.emitted} \cup {p.boundary} \cup {p.verifiedAt} \cup {p.createdAt}
                    \cup {at} \cup {LatestIngest(h)}
      OBVIOUS
    <3> HIDE DEF times
    <3> QED  BY <3>1, FS_Singleton, FS_Union
  <2> HIDE DEF times
  <2> QED  BY <1>1, <2>1, <2>2, LargestOfFinite
<1>7. ASSUME NEW e \in EventsOf(h.chunks)
      PROVE  e.ingest <= at
  <2>1. e.ingest \in ingests
    OBVIOUS
  <2>2. at \in Int
    BY DEF FeedTyped
  <2> HIDE DEF ingests
  <2>3. e.ingest \in Int /\ e.ingest <= LatestIngest(h) /\ LatestIngest(h) \in Int
    BY <1>4, <1>5, <2>1
  <2> QED  BY <1>6, <2>2, <2>3
<1> QED  BY <1>3, <1>7

\* What EvidenceIsReference says of one state.
StateRight(s) ==
    LET batch == SealedEvents(s)
        count == Len(ThePolicy.lineage)
    IN  /\ s.snap.status = "finalized" =>
              /\ Clear(batch, count, feed.start)
              /\ Shape(s.snap.evidences) = EvidenceExpected(batch, ThePolicy, feed.start)
              /\ \A e \in s.snap.evidences : e.time <= s.snap.available
              /\ s.snap.mode = "verified_close_proof" =>
                    /\ s.snap.boundary = BoundaryOf(Trust.projection)
                    /\ \A e \in batch : e.ingest <= s.snap.available
        /\ s.snap.why = "unclear" => ~Clear(batch, count, feed.start)

\* A final state made of a batch of its own.
LEMMA FinalIsRight ==
    ASSUME FeedTyped(feed), NEW s, StateSound(s), NEW batch \in SUBSET EventsOf(s.chunks),
           batch = SealedEvents(s), NEW mode, NEW boundary, NEW at \in Int,
           FinalAs(s, MadeOf(batch), mode, boundary, at),
           s.snap.mode = mode,
           mode = "verified_close_proof" /\ s.snap.status = "finalized" =>
              /\ boundary = BoundaryOf(Trust.projection)
              /\ \A e \in batch : e.ingest <= at
    PROVE  StateRight(s)
<1> DEFINE r == MadeOf(batch)
           count == Len(ThePolicy.lineage)
<1>1. /\ s.chunks \subseteq feed.chunks /\ ChunksAgree(s.chunks)
      /\ PolicyFound(feed.registry, feed.policy)
  BY DEF StateSound, StateOwn, UnderLedger
<1>2. /\ Refused(r) <=> ~Clear(batch, count, feed.start)
      /\ ~Refused(r) =>
            /\ Shape(r.extraction.evidences) = EvidenceExpected(batch, ThePolicy, feed.start)
            /\ \A e \in r.extraction.evidences : e.time \in Int
  BY <1>1, BatchIs
<1> HIDE DEF r, count
<1>3. /\ s.snap.why = "unclear" => Refused(r)
      /\ s.snap.status = "finalized" =>
          /\ ~Refused(r) /\ s.snap.boundary = boundary /\ s.snap.available = at
          /\ s.snap.evidences = r.extraction.evidences
          /\ \A e \in r.extraction.evidences : ~(e.time > at)
  BY Zenon DEF FinalAs, r
<1>4. s.snap.status = "finalized" => \A e \in s.snap.evidences : e.time <= s.snap.available
  BY <1>2, <1>3
<1>5. s.snap.status = "finalized" =>
         /\ Clear(batch, count, feed.start)
         /\ Shape(s.snap.evidences) = EvidenceExpected(batch, ThePolicy, feed.start)
         /\ s.snap.mode = "verified_close_proof" =>
               /\ s.snap.boundary = BoundaryOf(Trust.projection)
               /\ \A e \in batch : e.ingest <= s.snap.available
  BY <1>2, <1>3
<1> QED  BY <1>2, <1>3, <1>4, <1>5, Zenon DEF StateRight, count

LEMMA CoveredSame ==
    ASSUME NEW s, NEW h, h = HeldBy(s)
    PROVE  /\ h.chunks = s.chunks /\ h.closed = s.closed
           /\ ChunksCovered(h) => ChunksCovered(s)
<1>1. h.chunks = s.chunks /\ h.closed = s.closed
  <2>1. h = Holding(s.chunks, s.closed)
    BY DEF HeldBy
  <2> QED  BY <2>1 DEF Holding
<1>2. ASSUME ChunksCovered(h)
      PROVE  ChunksCovered(s)
  <2> HIDE DEF HeldBy
  <2> QED  BY <1>1, <1>2 DEF ChunksCovered
<1> QED  BY <1>1, <1>2

LEMMA StateIsRight ==
    ASSUME FeedTyped(feed), LedgerSound, NEW s, StateSound(s)
    PROVE  StateRight(s)
<1>1. /\ s.chunks \subseteq feed.chunks /\ ChunksAgree(s.chunks)
      /\ s.closed # None => s.closed = ledger.close /\ s.chunks \subseteq ledger.chunks
      /\ Derived(s)
  BY DEF StateSound, StateOwn, UnderLedger
<1>2. /\ ledger.chunks \subseteq feed.chunks /\ ChunksAgree(ledger.chunks)
      /\ ledger.close \in feed.closes \cup {None}
  <2>1. ChunksAgree(ledger.chunks)
    BY DEF LedgerSound, ChunksAgree
  <2> QED  BY <2>1 DEF LedgerSound
<1>3. HeldBy(s).chunks = s.chunks /\ (ChunksCovered(HeldBy(s)) => ChunksCovered(s))
  BY CoveredSame
<1>4. ASSUME ~(s.snap.status = "finalized"), s.snap.why # "unclear"
      PROVE  StateRight(s)
  BY <1>4, Zenon DEF StateRight
<1>5. CASE s = HeldBy(s) /\ ~Terminal(s)
  <2>1. s.snap.why = None
    BY <1>5, HoldingFields DEF HeldBy
  <2>2. s.snap.why # "unclear"
    BY <2>1, NoneIsNoOutcome
  <2>3. ~(s.snap.status = "finalized")
    BY <1>5 DEF Terminal
  <2> QED  BY <1>4, <2>2, <2>3
<1>6. CASE RefusedFinal(s)
  BY <1>4, <1>6 DEF RefusedFinal
<1>7. CASE ProvenFinal(s)
  <2>1. PICK p \in feed.proofs, at \in feed.clock, ready \in feed.clock :
          /\ ChunksCovered(HeldBy(s)) /\ ProofAcceptable(HeldBy(s), p, at)
          /\ s.snap.mode = "verified_close_proof"
          /\ s.snap.status = "finalized" => at <= ready
          /\ FinalAs(s, MadeOf(EventsOf(s.chunks)), "verified_close_proof", p.boundary, ready)
    BY <1>7, Zenon DEF ProvenFinal
  <2>2. s.closed \in feed.closes /\ s.chunks \subseteq ledger.chunks
    BY <1>1, <1>2, <1>7 DEF ProvenFinal
  <2>3. SealedEvents(s) = EventsOf(s.chunks)
    BY <1>2, <1>3, <2>1, <2>2, CoveredAreSealed
  <2>4. at \in Int /\ ready \in Int
    BY DEF FeedTyped
  <2> DEFINE batch == EventsOf(s.chunks)
  <2> HIDE DEF batch
  <2>5. p.boundary = BoundaryOf(Trust.projection) /\ \A e \in batch : e.ingest <= at
    BY <1>1, <1>3, <2>1, AcceptedIs DEF batch
  <2>6. s.snap.status = "finalized" => \A e \in batch : e.ingest <= ready
    <3> SUFFICES ASSUME s.snap.status = "finalized", NEW e \in batch
                 PROVE  e.ingest <= ready
      OBVIOUS
    <3>1. e.ingest \in Int
      <4>1. PICK c \in s.chunks : e \in c.events
        BY DEF batch, EventsOf
      <4> QED  BY <1>1, <4>1 DEF FeedTyped
    <3>2. e.ingest <= at /\ at <= ready
      BY <2>1, <2>5
    <3> QED  BY <2>4, <3>1, <3>2
  <2>7. batch \subseteq EventsOf(s.chunks) /\ batch = SealedEvents(s)
    BY <2>3 DEF batch
  <2>8. FinalAs(s, MadeOf(batch), "verified_close_proof", p.boundary, ready)
    BY <2>1, Zenon DEF batch
  <2> QED  BY <2>1, <2>4, <2>5, <2>6, <2>7, <2>8, FinalIsRight
<1>8. CASE EndedFinal(s)
  <2>1. PICK end \in feed.ends :
          /\ s.snap.mode = "authoritative_run_end_fallback" /\ s.snap.boundary = end
          /\ s.snap.status = "finalized" \/ s.snap.why = "unclear" => ChunksCovered(HeldBy(s))
          /\ FinalAs(s, MadeOf({e \in EventsOf(s.chunks) : e.time <= end}),
                     "authoritative_run_end_fallback", end, end)
    BY <1>8, Zenon DEF EndedFinal
  <2>2. s.closed \in feed.closes /\ s.chunks \subseteq ledger.chunks
    BY <1>1, <1>2, <1>8 DEF EndedFinal
  <2> DEFINE batch == {e \in EventsOf(s.chunks) : e.time <= end}
             mode == "authoritative_run_end_fallback"
  <2>3. CASE ChunksCovered(HeldBy(s))
    <3>1. SealedEvents(s) = batch
      BY <1>2, <1>3, <2>1, <2>2, <2>3, CoveredAreSealed
    <3>2. batch \subseteq EventsOf(s.chunks) /\ FinalAs(s, MadeOf(batch), mode, end, end)
      BY <2>1
    <3>3. end \in Int /\ mode # "verified_close_proof"
      BY DEF FeedTyped
    <3> HIDE DEF batch, mode
    <3>4. s.snap.mode = mode
      BY <2>1 DEF mode
    <3> QED  BY <3>1, <3>2, <3>3, <3>4, FinalIsRight
  <2>4. CASE ~ChunksCovered(HeldBy(s))
    BY <1>4, <2>1, <2>4
  <2> QED  BY <2>3, <2>4
<1> QED  BY <1>1, <1>5, <1>6, <1>7, <1>8, DerivedIs

\* A saved final state is restored as it is.
LEMMA SavedReturns ==
    ASSUME FeedTyped(feed), NEW c, StateSound(c), c.snap.status = "finalized",
           NEW now \in feed.clock
    PROVE  RestoreReturns(c, now) /\ Replayed(c, now) = c
<1>1. Derived(c) /\ (c.closed # None => c.chunks \subseteq ledger.chunks)
  BY DEF StateSound, StateOwn, UnderLedger
<1>2. Replayed(c, now) = c
  BY <1>1, ReplayedIs
<1>3. Terminal(c)
  BY DEF Terminal
<1>4. ProvenFinal(c) \/ EndedFinal(c)
  <2>1. ~RefusedFinal(c)
    BY DEF RefusedFinal
  <2>2. \/ c = HeldBy(c) /\ ~Terminal(c)
        \/ ProvenFinal(c) /\ Terminal(c)
        \/ EndedFinal(c) /\ Terminal(c)
        \/ RefusedFinal(c) /\ Terminal(c)
    BY <1>1, DerivedIs
  <2> QED  BY <1>3, <2>1, <2>2
<1>5. /\ c.closed # None /\ c.snap.why = None
      /\ c.proof # None => c.receipt = Trust.receipt
  <2>1. CASE ProvenFinal(c)
    <3>1. /\ c.closed # None
          /\ \E r, mode, boundary, at :
                c.receipt = Trust.receipt /\ FinalAs(c, r, mode, boundary, at)
      BY <2>1, Zenon DEF ProvenFinal
    <3> QED  BY <3>1, Zenon DEF FinalAs
  <2>2. CASE EndedFinal(c)
    <3>1. /\ c.closed # None /\ c.proof = None
          /\ \E r, mode, boundary, at : FinalAs(c, r, mode, boundary, at)
      BY <2>2, Zenon DEF EndedFinal
    <3> QED  BY <3>1, Zenon DEF FinalAs
  <2> QED  BY <1>4, <2>1, <2>2
<1>6. \A d \in c.chunks : d \in ledger.chunks
  BY <1>1, <1>5
<1>7. RestoredAs(c, c)
  <2>1. c.snap.why \notin {"close", "proof", "clock"}
    BY <1>5, NoneIsNoOutcome
  <2>2. \A d \in c.chunks : LedgerAdmits(d) /\ \A s : ~KnownToLedgerOnly(s, d)
    BY <1>6, Zenon DEF LedgerAdmits, KnownToLedgerOnly
  <2> QED  BY <1>5, <2>1, <2>2, Zenon DEF RestoredAs
<1> QED  BY <1>2, <1>7, Zenon DEF RestoreReturns

\* The files of a saved final state hold its Evidence, and load.
LEMMA FilesAreRight ==
    ASSUME NullIsNoFunction, NullHoldsNoFunction, FeedTyped(feed),
           NEW c, StateSound(c), c.snap.status = "finalized", c.snap.mode = "verified_close_proof"
    PROVE  ArtifactsLoad(FilesOf(c)) /\ FilesOf(c).evidence = c.snap.evidences
<1>1. /\ c.chunks \subseteq feed.chunks /\ ChunksAgree(c.chunks)
      /\ PolicyFound(feed.registry, feed.policy)
      /\ feed.contract => \A k \in c.chunks : IsSelectorPartition(k.part)
      /\ Derived(c)
  BY DEF StateSound, StateOwn, UnderLedger
<1>2. ProvenFinal(c)
  <2>1. ~RefusedFinal(c) /\ Terminal(c)
    BY DEF RefusedFinal, Terminal
  <2>2. ~EndedFinal(c)
    <3> SUFFICES ASSUME EndedFinal(c)
                 PROVE  FALSE
      OBVIOUS
    <3>1. c.snap.mode = "authoritative_run_end_fallback"
      BY Zenon DEF EndedFinal
    <3> QED  BY <3>1
  <2>3. \/ c = HeldBy(c) /\ ~Terminal(c)
        \/ ProvenFinal(c) /\ Terminal(c)
        \/ EndedFinal(c) /\ Terminal(c)
        \/ RefusedFinal(c) /\ Terminal(c)
    BY <1>1, DerivedIs
  <2> QED  BY <2>1, <2>2, <2>3
<1> DEFINE batch == EventsOf(c.chunks)
           r == MadeOf(batch)
           count == Len(ThePolicy.lineage)
           selector == [status |-> "selected", diagnostics |-> {}]
<1>3. PICK boundary, at : FinalAs(c, r, "verified_close_proof", boundary, at)
  BY <1>2, Zenon DEF ProvenFinal
<1>4. feed.contract
  BY <1>2 DEF ProvenFinal
<1>5. UNION {k.events : k \in c.chunks} = batch
  <2>1. {k \in c.chunks : IsSelectorPartition(k.part)} = c.chunks
    BY <1>1, <1>4
  <2> QED  BY <2>1, Zenon DEF EventsOf
<1>6. \A e \in batch : e.run = feed.run
  <2> SUFFICES ASSUME NEW e \in batch
               PROVE  e.run = feed.run
    OBVIOUS
  <2>1. PICK k \in c.chunks : e \in k.events
    BY <1>5
  <2>2. k.part = [run |-> feed.run, host |-> feed.entity, source |-> "sysmon"]
    BY <1>1, <1>4 DEF IsSelectorPartition
  <2>3. k.part.run = feed.run
    BY <2>2
  <2> QED  BY <1>1, <2>1, <2>3 DEF FeedTyped
<1>7. /\ ~Refused(r) =>
           \E l : /\ LineFound(batch, feed.start, count, l) /\ Named(Reverse(l))
                  /\ r.input = LineageInput(Selected(l, feed.start), ThePolicy)
                  /\ r.extraction.evidences = EvidenceMade(batch, feed.start, l, ThePolicy)
  <2> HIDE DEF batch
  <2>1. batch \subseteq EventsOf(c.chunks)
    BY DEF batch
  <2> QED  BY <1>1, <2>1, BatchIs
<1>8. DOMAIN ThePolicy.lineage = 1..count
  BY <1>1, PolicyIs
<1>9. FilesOf(c) = ArtifactsOf(batch, feed.run, c.snap.input, selector)
  BY <1>5, Zenon DEF FilesOf
<1> HIDE DEF batch, r, count
<1>10. /\ ~Refused(r) /\ c.snap.input = r.input /\ c.snap.evidences = r.extraction.evidences
  BY <1>3, Zenon DEF FinalAs
<1>11. PICK l : /\ LineFound(batch, feed.start, count, l) /\ Named(Reverse(l))
                /\ r.input = LineageInput(Selected(l, feed.start), ThePolicy)
                /\ r.extraction.evidences = EvidenceMade(batch, feed.start, l, ThePolicy)
  BY <1>7, <1>10
<1> DEFINE in == c.snap.input
           published == FilesOf(c)
<1>12. in = LineageInput(Selected(l, feed.start), ThePolicy)
  BY <1>10, <1>11
<1>13. published = ArtifactsOf(batch, feed.run, in, [status |-> "selected", diagnostics |-> {}])
  BY <1>9
<1> HIDE DEF in, published
<1>14. ArtifactsLoad(published) /\ published.evidence = EvidenceMade(batch, feed.start, l, ThePolicy)
  BY <1>6, <1>8, <1>11, <1>12, <1>13, FilesOfLine
<1> QED  BY <1>10, <1>11, <1>14 DEF published

\* The inductive invariant says what the invariant says.
LEMMA SoundIsReference ==
    ASSUME NullIsNoFunction, NullHoldsNoFunction, EvidenceSound
    PROVE  EvidenceIsReference
<1>1. CASE feed = None
  <2>1. role2 = None /\ checkpoint = None /\ artifacts = NoFiles
    BY <1>1 DEF EvidenceSound
  <2>2. artifacts.summary = None
    BY <2>1 DEF NoFiles
  <2> QED  BY <2>1, <2>2 DEF EvidenceIsReference
<1>2. CASE feed # None
  <2>1. /\ FeedTyped(feed)
        /\ LedgerSound /\ Role2Sound /\ CheckpointSound /\ FinalSound /\ ArtifactsSound
    BY <1>2 DEF EvidenceSound
  <2>2. \A s \in {role2, checkpoint} \ {None} : StateSound(s)
    BY <2>1 DEF Role2Sound, CheckpointSound
  <2>3. \A s \in {role2, checkpoint} \ {None} : StateRight(s)
    BY <2>1, <2>2, StateIsRight
  <2>4. checkpoint # None /\ checkpoint.snap.status = "finalized" =>
          \A now \in feed.clock :
              RestoreReturns(checkpoint, now) /\ Replayed(checkpoint, now) = checkpoint
    BY <2>1, SavedReturns DEF CheckpointSound
  <2>5. ASSUME artifacts.summary # None
        PROVE  ArtifactsLoad(artifacts) /\ artifacts.evidence = checkpoint.snap.evidences
    <3>1. /\ checkpoint # None /\ checkpoint.snap.status = "finalized"
          /\ checkpoint.snap.mode = "verified_close_proof"
          /\ artifacts.evidence = FilesOf(checkpoint).evidence
          /\ artifacts.summary = FilesOf(checkpoint).summary
      BY <2>1, <2>5 DEF ArtifactsSound, SavedVerified
    <3>2. StateSound(checkpoint)
      BY <2>1, <3>1 DEF CheckpointSound
    <3>3. ArtifactsLoad(FilesOf(checkpoint)) /\ FilesOf(checkpoint).evidence = checkpoint.snap.evidences
      BY <2>1, <3>1, <3>2, FilesAreRight
    <3> QED  BY <3>1, <3>3, Zenon DEF ArtifactsLoad
  <2> QED  BY <2>3, <2>4, <2>5, Zenon DEF EvidenceIsReference, StateRight
<1> QED  BY <1>1, <1>2

-----------------------------------------------------------------------------
(***************************************************************************)
(* The evidence of a Run: every step keeps it sound                        *)
(***************************************************************************)
\* What a call makes of a state depends on the feed alone.
LEMMA CallsStay ==
    ASSUME feed' = feed
    PROVE  /\ \A s : StateOwn(s)' <=> StateOwn(s)
           /\ \A s : FilesOf(s)' = FilesOf(s)
<1>1. ThePolicy' = ThePolicy /\ Trust' = Trust
  BY Zenon DEF ThePolicy, Trust
<1>2. \A part : IsSelectorPartition(part)' <=> IsSelectorPartition(part)
  BY Zenon DEF IsSelectorPartition
<1>3. \A c : EventsOf(c)' = EventsOf(c)
  BY <1>2 DEF EventsOf
<1>4. \A c, x : Holding(c, x)' = Holding(c, x)
  <2>1. \A c : ProvisionalSnapshot(c)' = ProvisionalSnapshot(c)
    BY <1>1, <1>3, Zenon DEF ProvisionalSnapshot
  <2> QED  BY <2>1, Zenon DEF Holding
<1>5. \A s, why : FailClosed(s, why)' = FailClosed(s, why)
  BY Zenon DEF FailClosed
<1>6. \A s : ChunksCovered(s)' <=> ChunksCovered(s)
  BY <1>2, Zenon DEF ChunksCovered
<1>7. \A s, p, at : ProofAcceptable(s, p, at)' <=> ProofAcceptable(s, p, at)
  <2>1. \A s, b : WatermarksCover(s, b)' <=> WatermarksCover(s, b)
    BY <1>2, Zenon DEF WatermarksCover
  <2>2. \A s : LatestIngest(s)' = LatestIngest(s)
    BY <1>3, Zenon DEF LatestIngest
  <2> QED  BY <1>1, <1>2, <2>1, <2>2, Zenon DEF ProofAcceptable
<1>8. \A s, m, b, a, x, r : Finalize(s, m, b, a, x, r)' = Finalize(s, m, b, a, x, r)
  <2>1. \A r, s, m, b, a, x : FinalizeWith(r, s, m, b, a, x)' = FinalizeWith(r, s, m, b, a, x)
    <3> SUFFICES ASSUME NEW r, NEW s, NEW m, NEW b, NEW a, NEW x
                 PROVE  FinalizeWith(r, s, m, b, a, x)' = FinalizeWith(r, s, m, b, a, x)
      OBVIOUS
    <3>1. FailClosed(s, "clock")' = FailClosed(s, "clock")
      BY <1>5
    <3> QED  BY <3>1, Zenon DEF FinalizeWith
  <2> QED  BY <1>1, <1>3, <2>1, Zenon DEF Finalize
<1>9. \A s, p, at, ready : AfterProof(s, p, at, ready)' = AfterProof(s, p, at, ready)
  <2> SUFFICES ASSUME NEW s, NEW p, NEW at, NEW ready
               PROVE  AfterProof(s, p, at, ready)' = AfterProof(s, p, at, ready)
    OBVIOUS
  <2>1. /\ FailClosed(s, "close")' = FailClosed(s, "close")
        /\ FailClosed(s, "coverage")' = FailClosed(s, "coverage")
        /\ FailClosed(s, "proof")' = FailClosed(s, "proof")
        /\ ChunksCovered(s)' <=> ChunksCovered(s)
        /\ ProofAcceptable(s, p, at)' <=> ProofAcceptable(s, p, at)
    BY <1>5, <1>6, <1>7
  <2> DEFINE k == [s EXCEPT !.proof = p, !.receipt = Trust.receipt, !.validated = at]
             f == Finalize(k, "verified_close_proof", p.boundary, at, None, ready)
  <2>2. k' = k
    BY <1>1, Zenon
  <2>3. f' = f
    BY <1>8, <2>2, Zenon
  <2>4. AfterProof(s, p, at, ready) = IF s.closed # Trust.close THEN FailClosed(s, "close")
                                      ELSE IF ~ChunksCovered(s) THEN FailClosed(s, "coverage")
                                      ELSE IF ~ProofAcceptable(s, p, at) THEN FailClosed(s, "proof")
                                      ELSE f
    BY Zenon DEF AfterProof
  <2>5. AfterProof(s, p, at, ready)' =
          IF s.closed # Trust'.close THEN FailClosed(s, "close")'
          ELSE IF ~ChunksCovered(s)' THEN FailClosed(s, "coverage")'
          ELSE IF ~ProofAcceptable(s, p, at)' THEN FailClosed(s, "proof")'
          ELSE f'
    BY Zenon DEF AfterProof
  <2> HIDE DEF k, f
  <2> QED  BY <1>1, <2>1, <2>3, <2>4, <2>5
<1>10. \A s, end : AfterRunEnd(s, end)' = AfterRunEnd(s, end)
  BY <1>6, <1>8, Zenon DEF AfterRunEnd
<1>11. \A s : Derived(s)' <=> Derived(s)
  BY <1>4, <1>5, <1>9, <1>10, Zenon DEF Derived
<1>12. \A s : StateOwn(s)' <=> StateOwn(s)
  BY <1>2, <1>11, Zenon DEF StateOwn
<1>13. \A s : FilesOf(s)' = FilesOf(s)
  BY Zenon DEF FilesOf
<1> QED  BY <1>12, <1>13

\* The parts of the invariant over a feed.
FeedSound ==
    /\ FeedTyped(feed)
    /\ LedgerSound /\ Role2Sound /\ CheckpointSound /\ FinalSound /\ ArtifactsSound

LEMMA SoundStays ==
    ASSUME EvidenceSound, UNCHANGED <<feedVars, feed>>
    PROVE  EvidenceSound'
<1>1. /\ feed' = feed /\ ledger' = ledger /\ role2' = role2 /\ uncommitted' = uncommitted
      /\ todo' = todo /\ checkpoint' = checkpoint /\ artifacts' = artifacts
  BY DEF feedVars
<1>2. (\A s : StateOwn(s)' <=> StateOwn(s)) /\ \A s : FilesOf(s)' = FilesOf(s)
  BY <1>1, CallsStay
<1>3. \A s : StateSound(s)' <=> StateSound(s)
  BY <1>1, <1>2, Zenon DEF StateSound
<1>4. CASE feed = None
  <2>1. role2' = None /\ checkpoint' = None /\ artifacts' = NoFiles /\ feed' = None
    BY <1>1, <1>4 DEF EvidenceSound
  <2> QED  BY <2>1 DEF EvidenceSound, NoFiles
<1>5. CASE feed # None
  <2>1. FeedSound
    BY <1>5 DEF EvidenceSound, FeedSound
  <2>2. FeedTyped(feed) /\ LedgerSound'
    BY <1>1, <2>1, Zenon DEF FeedSound, LedgerSound
  <2>3. Role2Sound' /\ CheckpointSound'
    BY <1>1, <1>3, <2>1, Zenon DEF FeedSound, Role2Sound, CheckpointSound
  <2>4. FinalSound'
    BY <1>1, <2>1, Zenon DEF FeedSound, FinalSound
  <2>5. ArtifactsSound'
    BY <1>1, <1>2, <2>1, Zenon DEF FeedSound, ArtifactsSound, SavedVerified
  <2> QED  BY <1>1, <1>5, <2>2, <2>3, <2>4, <2>5, Zenon DEF EvidenceSound
<1> QED  BY <1>4, <1>5

\* Chunks that agree with a set of chunks that agree.
Agrees(c, d) ==
    c.part = d.part => /\ c.id # d.id /\ c.seq # d.seq
                       /\ \A e \in c.events, x \in d.events : e.id = x.id => e = x

LEMMA ChunksJoin ==
    ASSUME NEW S, NEW T, ChunksAgree(S), ChunksAgree(T), \A c \in T \ S, d \in S : Agrees(c, d)
    PROVE  ChunksAgree(S \cup T)
<1> SUFFICES ASSUME NEW c \in S \cup T, NEW d \in S \cup T, c.part = d.part, c # d
             PROVE  Agrees(c, d)
  BY DEF ChunksAgree, Agrees
<1>1. CASE c \in S /\ d \in S
  BY <1>1 DEF ChunksAgree, Agrees
<1>2. CASE c \in T /\ d \in T
  BY <1>2 DEF ChunksAgree, Agrees
<1>3. CASE c \in T \ S /\ d \in S
  BY <1>3
<1>4. CASE c \in S /\ d \in T \ S
  <2>1. Agrees(d, c)
    BY <1>4
  <2> QED  BY <2>1 DEF Agrees
<1> QED  BY <1>1, <1>2, <1>3, <1>4

LEMMA OneAgrees ==
    ASSUME NEW c, \A e, x \in c.events : e.id = x.id => e = x
    PROVE  ChunksAgree({c})
BY DEF ChunksAgree

\* A chunk that the ledger admits agrees with it.
LEMMA AdmittedAgree ==
    ASSUME NEW T, ChunksAgree(T), ChunksAgree(ledger.chunks), \A c \in T : LedgerAdmits(c)
    PROVE  ChunksAgree(ledger.chunks \cup T)
<1>1. \A c \in T \ ledger.chunks, d \in ledger.chunks : Agrees(c, d)
  BY DEF LedgerAdmits, Agrees
<1> QED  BY <1>1, ChunksJoin

\* The next state of a step over a feed.
LEMMA SoundNext ==
    ASSUME feed' = feed, feed # None, FeedTyped(feed), LedgerSound',
           role2' # None => /\ StateOwn(role2') /\ UnderLedger(role2', ledger')
                            /\ role2'.chunks \subseteq ledger'.chunks \cup uncommitted',
           checkpoint' # None => StateOwn(checkpoint') /\ UnderLedger(checkpoint', ledger'),
           FinalSound',
           artifacts' = [evidence |-> artifacts'.evidence, summary |-> artifacts'.summary],
           todo' = "summary" \/ artifacts'.summary # None =>
              /\ checkpoint' # None /\ checkpoint'.snap.status = "finalized"
              /\ checkpoint'.snap.mode = "verified_close_proof"
              /\ artifacts'.evidence = FilesOf(checkpoint').evidence,
           todo' = "summary" => role2' = checkpoint',
           artifacts'.summary # None => artifacts'.summary = FilesOf(checkpoint').summary
    PROVE  EvidenceSound'
<1>1. (\A s : StateOwn(s)' <=> StateOwn(s)) /\ \A s : FilesOf(s)' = FilesOf(s)
  BY CallsStay
<1>2. \A s : StateSound(s)' <=> StateOwn(s) /\ UnderLedger(s, ledger')
  BY <1>1, Zenon DEF StateSound
<1>3. Role2Sound' /\ CheckpointSound'
  BY <1>2, Zenon DEF Role2Sound, CheckpointSound
<1>4. ArtifactsSound'
  BY <1>1, Zenon DEF ArtifactsSound, SavedVerified
<1> QED  BY <1>3, <1>4, Zenon DEF EvidenceSound

LEMMA SoundParts ==
    ASSUME EvidenceSound, feed # None
    PROVE  /\ FeedTyped(feed)
           /\ ledger = [chunks |-> ledger.chunks, close |-> ledger.close]
           /\ ledger.chunks \cup uncommitted \subseteq feed.chunks
           /\ ChunksAgree(ledger.chunks \cup uncommitted) /\ ChunksAgree(ledger.chunks)
           /\ ledger.close \in feed.closes \cup {None}
           /\ ledger.close # None => uncommitted = {}
           /\ todo \in {"", "summary"} => uncommitted = {}
           /\ role2 = None => todo = ""
           /\ role2 # None => /\ StateOwn(role2) /\ UnderLedger(role2, ledger)
                              /\ role2.chunks \subseteq ledger.chunks \cup uncommitted
           /\ checkpoint # None => StateOwn(checkpoint) /\ UnderLedger(checkpoint, ledger)
           /\ FinalSound
           /\ artifacts = [evidence |-> artifacts.evidence, summary |-> artifacts.summary]
           /\ todo = "summary" \/ artifacts.summary # None =>
                 /\ checkpoint # None /\ checkpoint.snap.status = "finalized"
                 /\ checkpoint.snap.mode = "verified_close_proof"
                 /\ artifacts.evidence = FilesOf(checkpoint).evidence
           /\ todo = "summary" => role2 = checkpoint
           /\ artifacts.summary # None => artifacts.summary = FilesOf(checkpoint).summary
<1>1. /\ FeedTyped(feed)
      /\ LedgerSound /\ Role2Sound /\ CheckpointSound /\ FinalSound /\ ArtifactsSound
  BY DEF EvidenceSound
<1>2. /\ ledger = [chunks |-> ledger.chunks, close |-> ledger.close]
      /\ ledger.chunks \cup uncommitted \subseteq feed.chunks
      /\ ChunksAgree(ledger.chunks \cup uncommitted)
      /\ ledger.close \in feed.closes \cup {None}
      /\ ledger.close # None => uncommitted = {}
      /\ todo \in {"", "summary"} => uncommitted = {}
      /\ role2 = None => todo = ""
  BY <1>1, Zenon DEF LedgerSound
<1>3. ChunksAgree(ledger.chunks)
  BY <1>2 DEF ChunksAgree
<1>4. /\ role2 # None => /\ StateOwn(role2) /\ UnderLedger(role2, ledger)
                         /\ role2.chunks \subseteq ledger.chunks \cup uncommitted
      /\ checkpoint # None => StateOwn(checkpoint) /\ UnderLedger(checkpoint, ledger)
  BY <1>1, Zenon DEF Role2Sound, CheckpointSound, StateSound
<1>5. /\ artifacts = [evidence |-> artifacts.evidence, summary |-> artifacts.summary]
      /\ todo = "summary" \/ artifacts.summary # None =>
            /\ checkpoint # None /\ checkpoint.snap.status = "finalized"
            /\ checkpoint.snap.mode = "verified_close_proof"
            /\ artifacts.evidence = FilesOf(checkpoint).evidence
      /\ todo = "summary" => role2 = checkpoint
      /\ artifacts.summary # None => artifacts.summary = FilesOf(checkpoint).summary
  BY <1>1, Zenon DEF ArtifactsSound, SavedVerified
<1> QED  BY <1>1, <1>2, <1>3, <1>4, <1>5, Zenon

\* A ledger with more chunks, or with its close.
LEMMA LedgerChange ==
    ASSUME NEW l, l = [chunks |-> l.chunks, close |-> l.close], NEW T, NEW x
    PROVE  /\ [l EXCEPT !.chunks = @ \cup T] = [chunks |-> l.chunks \cup T, close |-> l.close]
           /\ [l EXCEPT !.close = x] = [chunks |-> l.chunks, close |-> x]
OBVIOUS

\* States without a close are under every ledger, others under one that only grows.
LEMMA UnderGrown ==
    ASSUME NEW s, UnderLedger(s, ledger), ledger'.close = ledger.close,
           ledger.chunks \subseteq ledger'.chunks
    PROVE  UnderLedger(s, ledger')
BY DEF UnderLedger

\* Chunks are committed to the ledger, by Role3, Role2 or the recovery of Role2.
LEMMA ChunksCommitted ==
    ASSUME EvidenceSound, feed # None, feed' = feed, UNCHANGED <<role2, checkpoint, artifacts>>,
           NEW T, ledger' = [ledger EXCEPT !.chunks = @ \cup T], T \subseteq feed.chunks,
           ChunksAgree(ledger.chunks \cup T), uncommitted \subseteq T, uncommitted' = {},
           todo' = todo \/ (todo = "commit" /\ todo' = "")
    PROVE  EvidenceSound'
<1>1. /\ ledger'.chunks = ledger.chunks \cup T /\ ledger'.close = ledger.close
      /\ ledger' = [chunks |-> ledger'.chunks, close |-> ledger'.close]
  BY SoundParts, LedgerChange
<1>2. LedgerSound'
  <2>1. ledger'.chunks \cup uncommitted' = ledger.chunks \cup T
    BY <1>1
  <2> QED  BY <1>1, <2>1, SoundParts DEF LedgerSound
<1>3. /\ role2 # None => /\ StateOwn(role2) /\ UnderLedger(role2, ledger')
                         /\ role2.chunks \subseteq ledger'.chunks \cup uncommitted'
      /\ checkpoint # None => StateOwn(checkpoint) /\ UnderLedger(checkpoint, ledger')
  <2>1. \A s : UnderLedger(s, ledger) => UnderLedger(s, ledger')
    BY <1>1, UnderGrown
  <2> QED  BY <1>1, <2>1, SoundParts
<1>4. FinalSound'
  BY SoundParts DEF FinalSound
<1> QED  BY <1>2, <1>3, <1>4, SoundParts, SoundNext

LEMMA AdmitChunkSound ==
    ASSUME EvidenceSound, feed # None, feed' = feed, NEW c \in feed.chunks, AdmitChunk(c)
    PROVE  EvidenceSound'
<1>1. /\ uncommitted = {} /\ LedgerAdmits(c) /\ ledger' = [ledger EXCEPT !.chunks = @ \cup {c}]
      /\ UNCHANGED <<role2, uncommitted, todo, checkpoint, artifacts>>
  BY DEF AdmitChunk
<1>2. ChunksAgree({c})
  <2>1. \A e, x \in c.events : e.id = x.id => e = x
    BY SoundParts DEF FeedTyped
  <2> QED  BY <2>1, OneAgrees
<1>3. ChunksAgree(ledger.chunks \cup {c})
  BY <1>1, <1>2, SoundParts, AdmittedAgree
<1> QED  BY <1>1, <1>3, ChunksCommitted

LEMMA CommitChunkSound ==
    ASSUME EvidenceSound, feed # None, feed' = feed, CommitChunk
    PROVE  EvidenceSound'
<1>1. /\ ledger' = [ledger EXCEPT !.chunks = @ \cup uncommitted] /\ uncommitted' = {}
      /\ todo = "commit" /\ todo' = "" /\ UNCHANGED <<role2, checkpoint, artifacts>>
  BY DEF CommitChunk
<1>2. uncommitted \subseteq feed.chunks /\ ChunksAgree(ledger.chunks \cup uncommitted)
  BY SoundParts
<1> QED  BY <1>1, <1>2, ChunksCommitted

LEMMA AdmitCloseSound ==
    ASSUME EvidenceSound, feed # None, feed' = feed, NEW x \in feed.closes, AdmitClose(x)
    PROVE  EvidenceSound'
<1>1. /\ uncommitted = {} /\ ledger.close = None /\ ledger' = [ledger EXCEPT !.close = x]
      /\ UNCHANGED <<role2, uncommitted, todo, checkpoint, artifacts>>
  BY DEF AdmitClose
<1>2. /\ ledger'.chunks = ledger.chunks /\ ledger'.close = x
      /\ ledger' = [chunks |-> ledger'.chunks, close |-> ledger'.close]
  BY <1>1, SoundParts, LedgerChange
<1>3. LedgerSound'
  BY <1>1, <1>2, SoundParts DEF LedgerSound
<1>4. \A s : UnderLedger(s, ledger) => UnderLedger(s, ledger')
  BY <1>1 DEF UnderLedger
<1>5. FinalSound'
  BY <1>1, SoundParts DEF FinalSound
<1>6. /\ role2' # None => /\ StateOwn(role2') /\ UnderLedger(role2', ledger')
                          /\ role2'.chunks \subseteq ledger'.chunks \cup uncommitted'
      /\ checkpoint' # None => StateOwn(checkpoint') /\ UnderLedger(checkpoint', ledger')
  BY <1>1, <1>2, <1>4, SoundParts
<1> QED  BY <1>1, <1>3, <1>5, <1>6, SoundParts, SoundNext

LEMMA StartStateSound ==
    ASSUME EvidenceSound, feed # None, feed' = feed, StartState
    PROVE  EvidenceSound'
<1>1. /\ role2 = None /\ checkpoint = None /\ PolicyFound(feed.registry, feed.policy)
      /\ role2' = Holding({}, None)
      /\ UNCHANGED <<ledger, uncommitted, todo, checkpoint, artifacts>>
  BY DEF StartState
<1>2. role2'.chunks = {} /\ role2'.closed = None
  BY <1>1, HoldingFields
<1>3. StateOwn(role2') /\ UnderLedger(role2', ledger')
  <2>1. Derived(role2')
    BY <1>1, <1>2 DEF Derived
  <2>2. ChunksAgree(role2'.chunks)
    BY <1>2 DEF ChunksAgree
  <2> QED  BY <1>1, <1>2, <2>1, <2>2 DEF StateOwn, UnderLedger
<1>4. LedgerSound'
  BY <1>1, SoundParts DEF LedgerSound
<1>5. FinalSound'
  BY <1>1 DEF FinalSound
<1>6. role2'.chunks \subseteq ledger'.chunks \cup uncommitted'
  BY <1>2
<1> QED  BY <1>1, <1>3, <1>4, <1>5, <1>6, SoundParts, SoundNext

LEMMA EndProcessSound ==
    ASSUME EvidenceSound, feed # None, feed' = feed, EndProcess
    PROVE  EvidenceSound'
<1>1. /\ role2' = None /\ uncommitted' = {} /\ todo' = ""
      /\ UNCHANGED <<ledger, checkpoint, artifacts>>
  BY DEF EndProcess
<1>2. LedgerSound'
  <2>1. ledger.chunks \cup {} = ledger.chunks
    OBVIOUS
  <2> QED  BY <1>1, <2>1, SoundParts DEF LedgerSound
<1>3. FinalSound'
  BY <1>1 DEF FinalSound
<1> QED  BY <1>1, <1>2, <1>3, SoundParts, SoundNext

LEMMA WriteCheckpointSound ==
    ASSUME EvidenceSound, feed # None, feed' = feed, WriteCheckpoint
    PROVE  EvidenceSound'
<1>1. /\ role2 # None /\ todo = "write" /\ checkpoint' = role2 /\ todo' = "commit"
      /\ UNCHANGED <<ledger, role2, uncommitted, artifacts>>
  BY DEF WriteCheckpoint
<1>2. artifacts.summary = None
  BY <1>1, SoundParts DEF FinalSound
<1>3. LedgerSound'
  BY <1>1, SoundParts DEF LedgerSound
<1>4. FinalSound'
  BY <1>1 DEF FinalSound
<1> QED  BY <1>1, <1>2, <1>3, <1>4, SoundParts, SoundNext

LEMMA RestoreSound ==
    ASSUME EvidenceSound, feed # None, feed' = feed, NEW now \in feed.clock, Restore(now)
    PROVE  EvidenceSound'
<1> DEFINE s == Replayed(checkpoint, now)
<1>1. /\ role2 = None /\ checkpoint # None /\ RestoreReturns(checkpoint, now)
      /\ role2' = s /\ ledger' = [ledger EXCEPT !.chunks = @ \cup checkpoint.chunks]
      /\ UNCHANGED <<uncommitted, todo, checkpoint, artifacts>>
  BY DEF Restore
<1>2. todo = "" /\ uncommitted = {} /\ StateOwn(checkpoint) /\ UnderLedger(checkpoint, ledger)
  BY <1>1, SoundParts
<1>3. /\ Derived(s) /\ s.chunks = checkpoint.chunks /\ s.closed = checkpoint.closed
      /\ checkpoint.snap.status = "finalized" => s = checkpoint
  <2>1. s = Replayed(checkpoint, now)
    OBVIOUS
  <2>2. FeedTyped(feed) /\ Derived(checkpoint)
    BY <1>2, SoundParts DEF StateOwn
  <2> HIDE DEF s
  <2> QED  BY <2>1, <2>2, ReplayedIs
<1> HIDE DEF s
<1>4. /\ ledger'.chunks = ledger.chunks \cup checkpoint.chunks /\ ledger'.close = ledger.close
      /\ ledger' = [chunks |-> ledger'.chunks, close |-> ledger'.close]
  BY <1>1, SoundParts, LedgerChange
<1>5. ChunksAgree(ledger.chunks \cup checkpoint.chunks) /\ checkpoint.chunks \subseteq feed.chunks
  <2>1. \A c \in checkpoint.chunks : LedgerAdmits(c)
    BY <1>1, Zenon DEF RestoreReturns, RestoredAs
  <2>2. ChunksAgree(checkpoint.chunks) /\ checkpoint.chunks \subseteq feed.chunks
    BY <1>2 DEF StateOwn
  <2> QED  BY <2>1, <2>2, SoundParts, AdmittedAgree
<1>6. LedgerSound'
  <2>1. ledger'.chunks \cup uncommitted' = ledger.chunks \cup checkpoint.chunks
    BY <1>1, <1>2, <1>4
  <2> QED  BY <1>1, <1>2, <1>4, <1>5, <2>1, SoundParts DEF LedgerSound
<1>7. StateOwn(role2')
  BY <1>1, <1>2, <1>3 DEF StateOwn
<1>8. UnderLedger(checkpoint, ledger')
  BY <1>2, <1>4 DEF UnderLedger
<1>9. UnderLedger(role2', ledger') /\ role2'.chunks \subseteq ledger'.chunks \cup uncommitted'
  BY <1>1, <1>3, <1>4, <1>8 DEF UnderLedger
<1>10. FinalSound'
  BY <1>1, <1>2, <1>3 DEF FinalSound
<1>11. todo' = ""
  BY <1>1, <1>2
<1> QED  BY <1>1, <1>2, <1>6, <1>7, <1>8, <1>9, <1>10, <1>11, SoundParts, SoundNext

LEMMA LinkEvidenceSound ==
    ASSUME EvidenceSound, feed # None, feed' = feed, LinkEvidence
    PROVE  EvidenceSound'
<1>1. /\ role2 # None /\ todo = "" /\ checkpoint = role2 /\ role2.snap.status = "finalized"
      /\ role2.snap.mode = "verified_close_proof"
      /\ artifacts = NoFiles /\ artifacts' = [artifacts EXCEPT !.evidence = FilesOf(role2).evidence]
      /\ todo' = "summary" /\ UNCHANGED <<ledger, role2, uncommitted, checkpoint>>
  BY DEF LinkEvidence, Publishing, Ready
<1>2. /\ artifacts'.evidence = FilesOf(checkpoint').evidence /\ artifacts'.summary = None
      /\ artifacts' = [evidence |-> artifacts'.evidence, summary |-> artifacts'.summary]
  <2> DEFINE made == FilesOf(role2).evidence
  <2>1. artifacts' = [NoFiles EXCEPT !.evidence = made]
    BY <1>1
  <2>2. FilesOf(checkpoint').evidence = made
    <3>1. checkpoint' = role2
      BY <1>1
    <3> QED  BY <3>1, Zenon
  <2> HIDE DEF made
  <2> QED  BY <2>1, <2>2 DEF NoFiles
<1>3. LedgerSound'
  BY <1>1, SoundParts DEF LedgerSound
<1>4. FinalSound'
  BY <1>1 DEF FinalSound
<1> QED  BY <1>1, <1>2, <1>3, <1>4, SoundParts, SoundNext

LEMMA LinkSummarySound ==
    ASSUME EvidenceSound, feed # None, feed' = feed, LinkSummary
    PROVE  EvidenceSound'
<1>1. /\ todo = "summary" /\ todo' = ""
      /\ artifacts' = [artifacts EXCEPT !.summary = FilesOf(role2).summary]
      /\ UNCHANGED <<ledger, role2, uncommitted, checkpoint>>
  BY DEF LinkSummary
<1>2. role2 = checkpoint /\ artifacts.evidence = FilesOf(checkpoint).evidence
  BY <1>1, SoundParts
<1>3. /\ artifacts'.evidence = FilesOf(checkpoint').evidence
      /\ artifacts'.summary = FilesOf(checkpoint').summary
      /\ artifacts' = [evidence |-> artifacts'.evidence, summary |-> artifacts'.summary]
  <2> DEFINE made == FilesOf(role2).summary
  <2>1. artifacts' = [artifacts EXCEPT !.summary = made]
    BY <1>1
  <2>2. FilesOf(checkpoint').summary = made
    <3>1. checkpoint' = role2
      BY <1>1, <1>2
    <3> QED  BY <3>1, Zenon
  <2>3. FilesOf(checkpoint').evidence = artifacts.evidence
    <3>1. checkpoint' = checkpoint
      BY <1>1
    <3> QED  BY <1>2, <3>1, Zenon
  <2> HIDE DEF made
  <2> QED  BY <2>1, <2>2, <2>3, SoundParts
<1>4. LedgerSound'
  BY <1>1, SoundParts DEF LedgerSound
<1>5. FinalSound'
  BY <1>1, SoundParts DEF FinalSound
<1> QED  BY <1>1, <1>3, <1>4, <1>5, SoundParts, SoundNext

-----------------------------------------------------------------------------
\* A call on a state that is not final leaves one that is sound.
LEMMA HoldsSound ==
    ASSUME EvidenceSound, feed # None, feed' = feed, role2 # None, todo = "",
           NEW s, Holds(s), UNCHANGED <<ledger, checkpoint, artifacts>>,
           ~(role2.snap.status = "finalized"),
           StateOwn(s), UnderLedger(s, ledger), s.chunks \subseteq ledger.chunks \cup uncommitted',
           uncommitted' \subseteq feed.chunks, ChunksAgree(ledger.chunks \cup uncommitted'),
           ledger.close # None => uncommitted' = {}, s # None
    PROVE  EvidenceSound'
<1>1. role2' = s /\ todo' \in {"write", "commit"}
  BY DEF Holds
<1>2. checkpoint # None => ~(checkpoint.snap.status = "finalized")
  BY SoundParts DEF FinalSound
<1>3. artifacts.summary = None
  BY <1>2, SoundParts
<1>4. LedgerSound'
  BY <1>1, SoundParts DEF LedgerSound
<1>5. FinalSound'
  BY <1>2 DEF FinalSound
<1> QED  BY <1>1, <1>3, <1>4, <1>5, SoundParts, SoundNext

LEMMA OfferChunkSound ==
    ASSUME NullIsNoFunction, EvidenceSound, feed # None, feed' = feed, NEW c \in feed.chunks,
           OfferChunk(c)
    PROVE  EvidenceSound'
<1> DEFINE chunks == role2.chunks \cup {c}
           s == Holding(chunks, role2.closed)
<1>1. /\ role2 # None /\ todo = "" /\ ChunkFits(role2, c) /\ Holds(s)
      /\ uncommitted' = {c} \ ledger.chunks /\ UNCHANGED <<ledger, checkpoint, artifacts>>
  BY DEF OfferChunk, Ready
<1>2. /\ feed.contract => IsSelectorPartition(c.part)
      /\ ~Terminal(role2) /\ LedgerAdmits(c)
      /\ \A d \in role2.chunks : Agrees(c, d)
  BY <1>1, Zenon DEF ChunkFits, Agrees
<1>3. /\ IsState(s) /\ s.chunks = chunks /\ s.closed = role2.closed
  BY HoldingFields
<1>4. uncommitted = {} /\ StateOwn(role2) /\ UnderLedger(role2, ledger)
      /\ role2.chunks \subseteq ledger.chunks
  BY <1>1, SoundParts
<1>5. ChunksAgree({c})
  <2>1. \A e, x \in c.events : e.id = x.id => e = x
    BY SoundParts DEF FeedTyped
  <2> QED  BY <2>1, OneAgrees
<1>6. ChunksAgree(chunks)
  <2>1. ChunksAgree(role2.chunks) /\ \A k \in {c} \ role2.chunks, d \in role2.chunks : Agrees(k, d)
    BY <1>2, <1>4 DEF StateOwn
  <2> QED  BY <1>5, <2>1, ChunksJoin
<1>7. StateOwn(s)
  <2>1. s = Holding(s.chunks, s.closed)
    BY <1>3
  <2> HIDE DEF s
  <2>2. Derived(s)
    BY <2>1, Zenon DEF Derived
  <2> QED  BY <1>2, <1>3, <1>4, <1>6, <2>2 DEF StateOwn
<1>8. ledger.close # None => c \in ledger.chunks
  BY <1>2 DEF LedgerAdmits
<1>9. UnderLedger(s, ledger)
  <2> SUFFICES ASSUME s.closed # None
               PROVE  s.closed = ledger.close /\ s.chunks \subseteq ledger.chunks
    BY DEF UnderLedger
  <2>1. role2.closed = ledger.close
    BY <1>3, <1>4 DEF UnderLedger
  <2> HIDE DEF s
  <2> QED  BY <1>3, <1>4, <1>8, <2>1
<1>10. ChunksAgree(ledger.chunks \cup uncommitted')
  <2>1. ledger.chunks \cup uncommitted' = ledger.chunks \cup {c}
    BY <1>1
  <2>2. ChunksAgree(ledger.chunks \cup {c})
    BY <1>2, <1>5, SoundParts, AdmittedAgree
  <2> QED  BY <2>1, <2>2
<1>11. s # None
  BY <1>3, Zenon DEF IsState, NullIsNoFunction
<1>12. ~(role2.snap.status = "finalized")
  BY <1>2 DEF Terminal
<1>13. /\ s.chunks \subseteq ledger.chunks \cup uncommitted' /\ uncommitted' \subseteq feed.chunks
       /\ ledger.close # None => uncommitted' = {}
  <2> HIDE DEF s
  <2> QED  BY <1>1, <1>3, <1>4, <1>8
<1> HIDE DEF s
<1> QED  BY <1>1, <1>7, <1>9, <1>10, <1>11, <1>12, <1>13, HoldsSound

LEMMA AcceptRunClosedSound ==
    ASSUME NullIsNoFunction, EvidenceSound, feed # None, feed' = feed, NEW x \in feed.closes,
           AcceptRunClosed(x)
    PROVE  EvidenceSound'
<1> DEFINE s == Holding(role2.chunks, x)
<1>1. /\ role2 # None /\ todo = "" /\ role2.closed = None /\ x = ledger.close /\ Holds(s)
      /\ UNCHANGED <<ledger, uncommitted, checkpoint, artifacts>>
  BY DEF AcceptRunClosed, Ready
<1>2. IsState(s) /\ s.chunks = role2.chunks /\ s.closed = x
  BY HoldingFields
<1>3. /\ uncommitted = {} /\ StateOwn(role2) /\ role2.chunks \subseteq ledger.chunks
      /\ FeedTyped(feed)
  BY <1>1, SoundParts
<1>4. s = Holding(s.chunks, s.closed)
  BY <1>2
<1> HIDE DEF s
<1>5. StateOwn(s) /\ UnderLedger(s, ledger)
  <2>1. Derived(s)
    BY <1>4, Zenon DEF Derived
  <2> QED  BY <1>1, <1>2, <1>3, <2>1 DEF StateOwn, UnderLedger
<1>6. ~(role2.snap.status = "finalized")
  <2> SUFFICES ASSUME role2.snap.status = "finalized"
               PROVE  FALSE
    OBVIOUS
  <2>1. Terminal(role2) /\ ~RefusedFinal(role2)
    BY DEF Terminal, RefusedFinal
  <2>2. ~ProvenFinal(role2) /\ ~EndedFinal(role2)
    BY <1>1 DEF ProvenFinal, EndedFinal
  <2>3. Derived(role2)
    BY <1>3 DEF StateOwn
  <2> QED  BY <1>3, <2>1, <2>2, <2>3, DerivedIs
<1>7. s # None
  BY <1>2, Zenon DEF IsState, NullIsNoFunction
<1>8. /\ s.chunks \subseteq ledger.chunks \cup uncommitted'
      /\ uncommitted' \subseteq feed.chunks /\ ChunksAgree(ledger.chunks \cup uncommitted')
      /\ ledger.close # None => uncommitted' = {}
  <2>1. ledger.chunks \cup uncommitted' = ledger.chunks \cup uncommitted
    BY <1>1
  <2> QED  BY <1>1, <1>2, <1>3, <2>1, SoundParts
<1> QED  BY <1>1, <1>5, <1>6, <1>7, <1>8, HoldsSound

\* An end that a state which still collects is given.
LEMMA EndSound ==
    ASSUME NullIsNoFunction, EvidenceSound, feed # None, feed' = feed, role2 # None, todo = "",
           ~Terminal(role2), NEW s, Holds(s), UNCHANGED <<ledger, uncommitted, checkpoint, artifacts>>,
           Derived(s), IsState(s), s.chunks = role2.chunks, s.closed = role2.closed
    PROVE  EvidenceSound'
<1>1. /\ uncommitted = {} /\ StateOwn(role2) /\ UnderLedger(role2, ledger)
      /\ role2.chunks \subseteq ledger.chunks
  BY SoundParts
<1>2. StateOwn(s) /\ UnderLedger(s, ledger)
  BY <1>1 DEF StateOwn, UnderLedger
<1>3. ~(role2.snap.status = "finalized")
  BY DEF Terminal
<1>4. s # None
  BY Zenon DEF IsState, NullIsNoFunction
<1>5. /\ s.chunks \subseteq ledger.chunks \cup uncommitted'
      /\ uncommitted' \subseteq feed.chunks /\ ChunksAgree(ledger.chunks \cup uncommitted')
      /\ ledger.close # None => uncommitted' = {}
  <2>1. ledger.chunks \cup uncommitted' = ledger.chunks \cup uncommitted
    OBVIOUS
  <2> QED  BY <1>1, <2>1, SoundParts
<1> QED  BY <1>2, <1>3, <1>4, <1>5, HoldsSound

\* A state that is not final holds its inputs and no more.
LEMMA StillHolding ==
    ASSUME EvidenceSound, feed # None, role2 # None, ~Terminal(role2)
    PROVE  role2 = Holding(role2.chunks, role2.closed)
<1>1. FeedTyped(feed) /\ Derived(role2)
  BY SoundParts DEF StateOwn
<1> QED  BY <1>1, DerivedIs DEF HeldBy

LEMMA AcceptProofSound ==
    ASSUME NullIsNoFunction, EvidenceSound, feed # None, feed' = feed, NEW p \in feed.proofs,
           NEW at \in feed.clock, NEW ready \in feed.clock, AcceptProof(p, at, ready)
    PROVE  EvidenceSound'
<1> DEFINE s == AfterProof(role2, p, at, ready)
<1>1. /\ role2 # None /\ todo = "" /\ feed.contract /\ ~Terminal(role2) /\ role2.closed # None
      /\ Holds(s) /\ UNCHANGED <<ledger, uncommitted, checkpoint, artifacts>>
  BY DEF AcceptProof, Ready
<1>2. role2 = Holding(role2.chunks, role2.closed)
  BY <1>1, StillHolding
<1>3. s = AfterProof(role2, p, at, ready)
  OBVIOUS
<1> HIDE DEF s
<1>4. IsState(s) /\ s.chunks = role2.chunks /\ s.closed = role2.closed
  <2>1. FeedTyped(feed)
    BY SoundParts
  <2>2. EndOfProof(s, role2, role2.chunks, role2.closed, p, at, ready)
    BY <1>1, <1>2, <1>3, <2>1, ProofEnds
  <2> QED  BY <2>2 DEF EndOfProof
<1>5. Derived(s)
  <2>1. role2 = Holding(s.chunks, s.closed) /\ s.closed # None
    BY <1>1, <1>2, <1>4
  <2> QED  BY <1>1, <1>3, <2>1, Zenon DEF Derived
<1> QED  BY <1>1, <1>4, <1>5, EndSound

LEMMA FinalizeAtRunEndSound ==
    ASSUME NullIsNoFunction, EvidenceSound, feed # None, feed' = feed, NEW end \in feed.ends,
           FinalizeAtRunEnd(end)
    PROVE  EvidenceSound'
<1> DEFINE s == AfterRunEnd(role2, end)
<1>1. /\ role2 # None /\ todo = "" /\ ~Terminal(role2) /\ role2.closed # None
      /\ Holds(s) /\ UNCHANGED <<ledger, uncommitted, checkpoint, artifacts>>
  BY DEF FinalizeAtRunEnd, Ready
<1>2. role2 = Holding(role2.chunks, role2.closed)
  BY <1>1, StillHolding
<1>3. s = AfterRunEnd(role2, end)
  OBVIOUS
<1> HIDE DEF s
<1>4. IsState(s) /\ s.chunks = role2.chunks /\ s.closed = role2.closed
  <2>1. FeedTyped(feed)
    BY SoundParts
  <2>2. EndOfRun(s, role2, role2.chunks, role2.closed, end)
    BY <1>2, <1>3, <2>1, RunEnds
  <2> QED  BY <2>2 DEF EndOfRun
<1>5. Derived(s)
  <2>1. role2 = Holding(s.chunks, s.closed) /\ s.closed # None
    BY <1>1, <1>2, <1>4
  <2> QED  BY <1>3, <2>1, Zenon DEF Derived
<1> QED  BY <1>1, <1>4, <1>5, EndSound

-----------------------------------------------------------------------------
LEMMA FeedingSound ==
    ASSUME NullIsNoFunction, EvidenceSound, feed' = feed, Feeding
    PROVE  EvidenceSound'
<1>1. feed # None
  BY DEF Feeding, FeedOnly
<1>2. CASE \E c \in feed.chunks : AdmitChunk(c)
  BY <1>1, <1>2, AdmitChunkSound
<1>3. CASE \E x \in feed.closes : AdmitClose(x)
  BY <1>1, <1>3, AdmitCloseSound
<1>4. CASE StartState
  BY <1>1, <1>4, StartStateSound
<1>5. CASE \E c \in feed.chunks : OfferChunk(c)
  BY <1>1, <1>5, OfferChunkSound
<1>6. CASE \E x \in feed.closes : AcceptRunClosed(x)
  BY <1>1, <1>6, AcceptRunClosedSound
<1>7. CASE \E p \in feed.proofs, at, ready \in feed.clock : AcceptProof(p, at, ready)
  BY <1>1, <1>7, AcceptProofSound
<1>8. CASE \E end \in feed.ends : FinalizeAtRunEnd(end)
  BY <1>1, <1>8, FinalizeAtRunEndSound
<1>9. CASE WriteCheckpoint
  BY <1>1, <1>9, WriteCheckpointSound
<1>10. CASE CommitChunk
  BY <1>1, <1>10, CommitChunkSound
<1>11. CASE EndProcess
  BY <1>1, <1>11, EndProcessSound
<1>12. CASE \E now \in feed.clock : Restore(now)
  BY <1>1, <1>12, RestoreSound
<1>13. CASE LinkEvidence
  BY <1>1, <1>13, LinkEvidenceSound
<1>14. CASE LinkSummary
  BY <1>1, <1>14, LinkSummarySound
<1> QED  BY <1>2, <1>3, <1>4, <1>5, <1>6, <1>7, <1>8, <1>9, <1>10, <1>11, <1>12, <1>13, <1>14
         DEF Feeding

\* At the start nothing has come in.
LEMMA EvidenceInitially ==
    ASSUME Init
    PROVE  EvidenceSound
<1>1. PICK s \in Scenarios : feed = s.feed
  BY DEF Init
<1>2. /\ ledger = [chunks |-> {}, close |-> None] /\ role2 = None /\ uncommitted = {}
      /\ todo = "" /\ checkpoint = None /\ artifacts = NoFiles
  BY DEF Init, FeedInit
<1>3. feed # None => FeedTyped(feed)
  BY <1>1, FeedAssumption
<1>4. ledger.chunks = {} /\ ledger.close = None
  BY <1>2
<1>5. LedgerSound
  BY <1>2, <1>4 DEF LedgerSound, ChunksAgree
<1>6. Role2Sound /\ CheckpointSound /\ FinalSound
  BY <1>2 DEF Role2Sound, CheckpointSound, FinalSound
<1>7. ArtifactsSound
  <2>1. artifacts.summary = None /\ artifacts = [evidence |-> artifacts.evidence, summary |-> artifacts.summary]
    BY <1>2 DEF NoFiles
  <2> QED  BY <1>2, <2>1, Zenon DEF ArtifactsSound
<1> QED  BY <1>2, <1>3, <1>5, <1>6, <1>7, Zenon DEF EvidenceSound

\* Every action of the system keeps what Role2 holds sound: the others leave it alone.
LEMMA EvidenceNext ==
    ASSUME NullIsNoFunction, EvidenceSound, UNCHANGED given, [Next]_vars
    PROVE  EvidenceSound'
<1>1. feed' = feed
  BY DEF given
<1>2. CASE Feeding
  BY <1>1, <1>2, FeedingSound
<1>3. CASE UNCHANGED feedVars
  BY <1>1, <1>3, SoundStays
<1>4. CASE UNCHANGED vars
  BY <1>3, <1>4 DEF vars
<1>5. CASE Fast
  BY <1>3, <1>5 DEF Fast, FastOnly
<1>6. CASE Replaying
  BY <1>3, <1>6 DEF Replaying, ReplayOnly
<1>7. CASE Store
  BY <1>3, <1>7 DEF Store, StoreOnly
<1>8. ASSUME NEW p \in cast.procs, Pipeline(p)
      PROVE  EvidenceSound'
  BY <1>3, <1>8 DEF Pipeline, FastOnly, PipelineOnly
<1>9. ASSUME NEW p \in cast.procs, Handoff(p)
      PROVE  EvidenceSound'
  BY <1>3, <1>9 DEF Handoff, HandoffOnly
<1>10. ASSUME NEW e \in cast.executions, Telemetry(e)
       PROVE  EvidenceSound'
  BY <1>3, <1>10 DEF Telemetry, TelemetryOnly
<1> QED  BY <1>2, <1>4, <1>5, <1>6, <1>7, <1>8, <1>9, <1>10 DEF Next

\* The inductive invariant behind EvidenceIsReference: the ledger holds chunks of the
\* feed that agree, Role2 and its checkpoint hold states made of committed chunks, a
\* finalized state carries the evidence of a clear line, and what is on disk was written
\* from such a state, step by step, under the same policy.
THEOREM EvidenceIsSound ==
    ASSUME NullIsNoFunction
    PROVE  Spec => []EvidenceSound
<1>1. EvidenceSound /\ [Next]_vars => EvidenceSound'
  BY NextKeepsGiven, EvidenceNext
<1>2. Init => EvidenceSound
  BY EvidenceInitially
<1> QED  BY <1>1, <1>2, PTL DEF Spec

\* Whatever chunks, closes and proofs are offered, in whatever order and wherever the
\* process ends between ledger, checkpoint and files (role2_incremental_consumer.py), a
\* finalized state holds exactly the Evidence a reference finds in the events committed
\* under the accepted close, its boundary is the trusted seal's, the files hold the same
\* Evidence and load, and every later process restores the state that was saved.
THEOREM RunEvidenceIsReference ==
    ASSUME NullIsNoFunction, NullHoldsNoFunction
    PROVE  Spec => []EvidenceIsReference
BY EvidenceIsSound, SoundIsReference, PTL
================================================================================
