---------------------------- MODULE DecisionSystem ----------------------------
(***************************************************************************)
(* The decision store with everyone who uses it: S0 invocations over a     *)
(* fast handoff, R1 handoffs over a published set, the offline R1 replay   *)
(* and the dashboard's readers, the telemetry of the executions, and the   *)
(* Role2 process whose Evidence an R1 handoff starts from.  A scenario     *)
(* gives the run its inputs: an S0 world, an R1 episode, attempts to watch *)
(* or a feed of chunks; the others are None.                               *)
(***************************************************************************)
EXTENDS Evaluation, TelemetryRead, R1IncrementalEvidence

CONSTANT Scenarios      \* [world, episode, watch, feed, files, runs, readers, procs]

\* The attempts are executions, finitely many, a batch and what a clock reads are
\* numbers, and a save ends in one of four ways.
ASSUME WatchAssumption ==
    \A s \in Scenarios : s.watch # None =>
        /\ IsFiniteSet(DOMAIN s.watch.attempts)
        /\ \A e \in DOMAIN s.watch.attempts :
              e \in Executions /\ s.watch.attempts[e].total \in Nat
        /\ s.watch.times \subseteq Int \cup {None}
        /\ \A m \in s.watch.monos : {m.started, m.ended} \subseteq Int \cup {None}
        /\ s.watch.outcomes \subseteq {"ok", "error", "lost", "late"}

\* An identity that a caller supplies is that of a version of an S3 object: it is
\* of another kind than the digest of a file, and names one content.
ASSUME InputAssumption ==
    \A s \in Scenarios : s.watch # None =>
        \A e, f \in DOMAIN s.watch.attempts :
            LET a == s.watch.attempts[e].input
                b == s.watch.attempts[f].input
            IN  a.supplied # None /\ a.supplied.identity # None =>
                  /\ a.supplied.identity[1] # "file"
                  /\ b.supplied # None /\ b.supplied.identity = a.supplied.identity =>
                        b.records = a.records

\* A process serves S0 runs or R1 handoffs, the ids and scopes the commands give
\* rise to are among those of the store, and a fast directory that starts with a
\* trace was published by an earlier run_fast_handoff.
ASSUME ScenarioAssumption ==
    \A s \in Scenarios :
        /\ s.procs \subseteq Procs /\ s.readers \subseteq Readers
        /\ s.world # None =>
              /\ s.episode = None
              /\ \A input \in s.world.inputs :
                    input.id \in Ids /\ <<s.world.meta.run, input.entity>> \in Scopes
              /\ DOMAIN s.files = {"csv", "config", "hits", "trace", "selection"}
              /\ s.files.trace # None => s.files.hits = s.files.trace.output
        /\ s.episode # None =>
              /\ <<s.episode.meta.run, s.episode.meta.target>> \in Scopes
              /\ \A cmd \in s.episode.commands : cmd.dir \in Directories
              /\ \A cmd \in s.episode.commands, at \in s.episode.clock :
                    <<"R1", at, cmd.config.version, cmd.fast.detection.status>> \in Ids

\* What an S0 run was collected from: records and rows have times, an executable
\* is of one of three classes, and rules are numbered in the order of their names.
\* A selection that is there from the start and not written by hand was made by
\* an earlier fast_selection.
ASSUME RunAssumption ==
    \A s \in Scenarios : s.world # None =>
        LET w == s.world
        IN  /\ {w.meta.start, w.meta.end} \subseteq Int /\ ConfigTyped(w.fusionConfig)
            /\ w.jsonl \in Seq(ToSet(w.jsonl))
            /\ \A n \in DOMAIN w.jsonl :
                  w.jsonl[n].time \in Int /\ w.jsonl[n].image \in {"powershell", "script_host", "other"}
            /\ RowsTyped(s.files.csv) /\ RowsTyped(w.export)
            /\ s.files.hits # None =>
                  \A i \in DOMAIN s.files.hits : s.files.hits[i].time \in Int
            /\ s.files.selection # None /\ ~w.hand =>
                  \E entity \in {input.entity : input \in w.inputs} :
                      /\ SelectAccepts(s.files, w.policy, w.meta.run, entity)
                      /\ s.files.selection = Select(s.files, w.policy, entity)

\* Published Evidence has a time and an id that can be compared, a command has a
\* configuration the code accepts, and a version, which stands for the digest of
\* the configuration in the identity of an execution, names one configuration.
ASSUME EpisodeAssumption ==
    \A s \in Scenarios : s.episode # None =>
        LET x == s.episode
        IN  /\ x.meta.start \in Int /\ x.meta.end \in Int \cup {None} /\ x.clock \subseteq Int
            /\ x.pub.restored \in Seq(ToSet(x.pub.restored))
            /\ \A i \in DOMAIN x.pub.restored :
                  {x.pub.restored[i].timestamp, x.pub.restored[i].id} \subseteq Int
            /\ \A a \in x.commands :
                  /\ ConfigTyped(a.config) /\ ConfigValid(a.config)
                  /\ a.fast.detection.time \in Int \cup {None}
                  /\ \A b \in x.commands : b.config.version = a.config.version => b.config = a.config

\* The chunks, closes and proofs that are offered have passed the models that read them.
ASSUME FeedAssumption == \A s \in Scenarios : s.feed # None => FeedTyped(s.feed)

VARIABLE cast           \* the processes and readers that take part

given == <<world, episode, watch, feed, cast>>

vars == <<storeVars, pipelineVars, handoffVars, replayVars, telemetryVars, feedVars, given>>

Init ==
    /\ \E s \in Scenarios :
          /\ world = s.world /\ episode = s.episode /\ watch = s.watch /\ feed = s.feed
          /\ files = s.files /\ runs = s.runs
          /\ cast = [readers |-> s.readers, procs |-> s.procs,
                     executions |-> IF s.watch = None THEN {} ELSE DOMAIN s.watch.attempts]
    /\ StoreEmpty /\ PipelineInit /\ HandoffInit /\ TelemetryInit /\ FeedInit
    /\ replay = ReplayIdle /\ replayed = NothingReplayed

\* Who leaves what alone.
FastOnly ==
    /\ world # None
    /\ UNCHANGED <<storeVars, handoffVars, replayVars, telemetryVars, feedVars, given>>

PipelineOnly ==
    /\ world # None
    /\ UNCHANGED <<handoffVars, replayVars, telemetryVars, feedVars, given>>

HandoffOnly ==
    /\ episode # None
    /\ UNCHANGED <<pipelineVars, replayVars, telemetryVars, feedVars, given>>

ReplayOnly ==
    /\ episode # None
    /\ UNCHANGED <<storeVars, pipelineVars, handoffVars, telemetryVars, feedVars, given>>

StoreOnly == UNCHANGED <<pipelineVars, handoffVars, replayVars, telemetryVars, feedVars, given>>

TelemetryOnly ==
    /\ watch # None
    /\ UNCHANGED <<storeVars, pipelineVars, handoffVars, replayVars, feedVars, given>>

FeedOnly ==
    /\ feed # None
    /\ UNCHANGED <<storeVars, pipelineVars, handoffVars, replayVars, telemetryVars, given>>

Fast ==
    \/ FastOnly /\ FastRead
    \/ FastOnly /\ FastStage
    \/ FastOnly /\ LinkHits
    \/ FastOnly /\ LinkTrace
    \/ FastOnly /\ FastRollback
    \/ FastOnly /\ FastCrash
    \/ FastOnly /\ RewriteCsv
    \/ FastOnly /\ FastSelect(world.meta.target)

Pipeline(p) ==
    \/ FastOnly /\ \E input \in world.inputs : Invoke(p, input)
    \/ FastOnly /\ LoadFast(p)
    \/ PipelineOnly /\ Persist(p)

Handoff(p) ==
    \/ HandoffOnly /\ UNCHANGED storeVars /\ \E cmd \in episode.commands : Acquire(p, cmd)
    \/ HandoffOnly /\ UNCHANGED storeVars /\ CheckInput(p)
    \/ HandoffOnly /\ UNCHANGED storeVars /\ RecordValidation(p)
    \/ HandoffOnly /\ UNCHANGED storeVars /\ CheckIdentity(p)
    \/ HandoffOnly /\ UNCHANGED storeVars /\ AppendRecord(p)
    \/ HandoffOnly /\ UNCHANGED storeVars /\ AppendFails(p)
    \/ HandoffOnly /\ UNCHANGED storeVars /\ TornAppend(p)
    \/ HandoffOnly /\ UNCHANGED storeVars /\ Fuse(p)
    \/ HandoffOnly /\ UNCHANGED storeVars /\ PublishResult(p)
    \/ HandoffOnly /\ UNCHANGED storeVars /\ PublishStopping(p)
    \/ HandoffOnly /\ UNCHANGED storeVars /\ Decide(p)
    \/ HandoffOnly /\ UNCHANGED storeVars /\ PublishDecision(p)
    \/ HandoffOnly /\ PersistHandoff(p)
    \/ HandoffOnly /\ UNCHANGED storeVars /\ Persisted(p)
    \/ HandoffOnly /\ UNCHANGED storeVars /\ CrashHandoff(p)

Replaying ==
    \/ ReplayOnly /\ RunReplay
    \/ ReplayOnly /\ LinkReplayFile
    \/ ReplayOnly /\ ReplayRollback
    \/ ReplayOnly /\ ReplayCrash

Telemetry(e) ==
    \/ TelemetryOnly /\ OpenSession(e)
    \/ TelemetryOnly /\ RecordSuccess(e)
    \/ TelemetryOnly /\ RecordFailure(e)
    \/ TelemetryOnly /\ EndStage(e)
    \/ TelemetryOnly /\ CloseSession(e)
    \/ TelemetryOnly /\ CloseObserver(e)
    \/ TelemetryOnly /\ EndLate(e)

Feeding ==
    \/ FeedOnly /\ \E c \in feed.chunks : AdmitChunk(c)
    \/ FeedOnly /\ \E x \in feed.closes : AdmitClose(x)
    \/ FeedOnly /\ StartState
    \/ FeedOnly /\ \E c \in feed.chunks : OfferChunk(c)
    \/ FeedOnly /\ \E x \in feed.closes : AcceptRunClosed(x)
    \/ FeedOnly /\ \E p \in feed.proofs, at, ready \in feed.clock : AcceptProof(p, at, ready)
    \/ FeedOnly /\ \E end \in feed.ends : FinalizeAtRunEnd(end)
    \/ FeedOnly /\ WriteCheckpoint
    \/ FeedOnly /\ CommitChunk
    \/ FeedOnly /\ EndProcess
    \/ FeedOnly /\ \E now \in feed.clock : Restore(now)
    \/ FeedOnly /\ LinkEvidence
    \/ FeedOnly /\ LinkSummary

Store ==
    \/ \E p \in cast.procs : StoreOnly /\ AcquireIdLock(p)
    \/ \E p \in cast.procs : StoreOnly /\ AcquireScopeLock(p)
    \/ \E p \in cast.procs : StoreOnly /\ CheckExisting(p)
    \/ \E p \in cast.procs : StoreOnly /\ CheckHead(p)
    \/ \E p \in cast.procs : StoreOnly /\ Commit(p)
    \/ \E p \in cast.procs : StoreOnly /\ Lose(p)
    \/ \E r \in cast.readers, kind \in {"decision", "engine"}, s \in Scopes :
          StoreOnly /\ OpenRead(r, kind, s)
    \/ \E r \in cast.readers : StoreOnly /\ ReadBefore(r)
    \/ \E r \in cast.readers : StoreOnly /\ ReadRow(r)
    \/ \E r \in cast.readers : StoreOnly /\ ReadAfter(r)

Next ==
    \/ Fast
    \/ Replaying
    \/ Store
    \/ Feeding
    \/ \E p \in cast.procs : Pipeline(p)
    \/ \E p \in cast.procs : Handoff(p)
    \/ \E e \in cast.executions : Telemetry(e)

Spec == Init /\ [][Next]_vars

-----------------------------------------------------------------------------
\* A stored decision says what its inputs say: its statuses and times are the
\* ones a reference computes from the raw records, the rows of the export and
\* the published Evidence, without window, fold, counter, selection file or
\* handoff.  Files rewritten between the steps of the fast runner, a selection
\* made over another export, and Evidence that becomes available late may stop
\* an invocation, never change its answer.
DecisionIsReference ==
    \A i \in DOMAIN decisions : decisions[i] # None =>
        IF decisions[i].basis.path = "s0"
          THEN S0Expected(decisions[i].decision, decisions[i].basis.csv)
          ELSE R1Expected(decisions[i].decision, decisions[i].basis)

\* Whatever a completion marker announces is there, wherever a process or a
\* transaction ended and however a trace was torn: the fast trace names the hits
\* beside it, the replay's provenance names both results, a decision_recorded
\* record names the three files of its directory, and one that says persisted
\* names the very decision the store holds.
MarkerImpliesContent ==
    /\ world # None /\ files.trace # None => files.hits = files.trace.output
    /\ replayed.provenance # None => ReplayLoads
    /\ \A d \in Directories : \A i \in DOMAIN dir[d].trace :
          LET r == dir[d].trace[i]
          IN  r.stage = "decision_recorded" =>
                 /\ FilesMatch(d, r)
                 /\ r.persisted => /\ decisions[r.decision.id] # None
                                   /\ decisions[r.decision.id].decision = r.decision
=============================================================================
