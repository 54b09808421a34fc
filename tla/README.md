# TLA+ model of the Incident Awareness Engine

The Incident Awareness Engine (`src/src/incident_awareness/`) turns Windows
Sysmon uploads into decisions: an S3 upload is announced on SQS, a Worker runs
normalization, Evidence extraction, fast detection, fusion and the hybrid
decision, stores the results in PostgreSQL and publishes the R1 Evidence
archive to S3. A second path, the R1 stream, delivers Sysmon events in chunks
with watermarks and feeds an incremental consumer with checkpoints. This
directory models the parts of the system where processes, stores and faults
interact, checks them with TLC on small instances, and proves the main safety
properties with TLAPS.

Paths below are relative to `src/src/incident_awareness/`.

## Inventory

| Component | State it keeps | Operations | Hard behaviour | What makes it correct | Modules |
|---|---|---|---|---|---|
| First Cycle SQS Worker (`pipeline/sqs_worker.py`) | SQS messages, advisory locks, object receipts, the archive outbox | receive, acquire, download, allocate a run id, run the stages, persist, commit, publish, delete | several Workers; redelivery; a crash between any two steps; a lost commit answer | one run per upload; a deleted message is fully processed; a published archive is complete | `FirstCycleWorker` |
| Decision persistence (`pipeline/persistence.py`, `pipeline/runner.py`, `storage/repositories/result_repository.py`) | run, event, Evidence and decision rows; the head of each decision chain | persist with both advisory locks, idempotent replay, integrity conflict, supersede | two writers of one decision id or one scope; a lost connection | one append-only history per scope; a stored decision never changes | `DecisionStore`, `DecisionHistory` |
| Runtime status telemetry (`pipeline/runtime_telemetry.py`, `storage/repositories/pipeline_runtime_repository.py`) | one row per (run, entity) | start, stage, complete, fail, guarded upsert on a second connection | snapshots lost or late; a second execution of a run | a terminal state is final for its execution; completion implies the commit | `FirstCycleWorker` |
| Time-series telemetry (`pipeline/timeseries_*.py`, `storage/repositories/pipeline_telemetry_repository.py`) | collector buckets, pending snapshot, stored executions | open, record, flush, close, guarded upsert | best effort beside the business transaction; faulty clocks; answers that are lost or late | totals that claim to be exact are; stored counters do not go backwards | `PipelineTelemetry`, `TelemetryRead` |
| R1 stream ledger (`storage/repositories/r1_stream_delivery_repository.py`, `r1_position_close_repository.py`) | chunks, events, watermarks, run close, position close, dead letters | accept a chunk, a watermark, a run close, a position close | duplicates, reordering, late events, conflicting reuse of ids | identities and sequences are unique; the frontier never moves back; a closed run is immutable | `R1StreamLedger` |
| R1 stream transport and ingress (`pipeline/r1_stream_ingress.py`, `r1_stream_boundary.py`, `r1_stream_wiring.py`) | outbox files, acknowledgement files, dead-letter files | publish, consume once, acknowledge, export and load the close | a crash between commit and acknowledgement; head-of-line blocking | acknowledged implies committed; retry is idempotent | `R1Spool` |
| R1 incremental consumer (`pipeline/r1_incremental_*.py`, `r1_process_lock.py`) | extractor state, checkpoint generations, failed_closed | consume chunks, accept the close, finalize, restore | restart between checkpoint and report; lag behind the ledger | the checkpoint is a prefix of the ledger; finalized covers exactly the closed chunks; recovery computes the same Evidence | `R1Consumer`, `R1IncrementalEvidence` |
| R1 record finality (`pipeline/r1_record_*.py`, `collection/r1_position_handoff.py`, `scripts/dev/`) | control files, segments, seals, position proofs | freeze, export, reconcile, close, accept, seal, prove | a log that grows, rolls over or is cleared; four clocks; edited files; a restored database | what is published as final was delivered and committed | `R1PositionFinality`, `R1PositionHandoff`, `R1FinalityPromise` |
| R1 fusion handoff and causal replay (`pipeline/r1_fusion_handoff.py`, `r1_causal_*.py`) | output directory with a hash-chained trace | validate, fuse, decide, record, replay offline | a crash between two files; a torn trace; two commands | no decision uses Evidence that was not yet available; a marker implies its files | `R1FusionHandoff`, `R1CausalReplay` |
| R1 artifacts (`pipeline/r1_artifacts.py`, `r1_production.py`) | files of one run | generate, validate, publish | partial writes | Evidence before summary; immutable keys | `R1EvidenceArtifacts`, `FirstCycleWorker`, `R1Consumer` |
| Fusion (`decision/fusion/`) | window, score, stopping state | slide, score, stop | window boundaries, ties | equals its definition over the whole event list | `FusionReplay` |
| Hybrid decision, fast detection (`decision/hybrid.py`, `detection/`) | episodes, hits, selection | scan, publish, select, combine | a CSV rewritten between two steps | equals the decision table over the rows | `HybridDecision`, `FastDetection`, `FirstCyclePipeline` |
| Normalization and Evidence extraction (`normalization/`, `evidence/`) | correlation state of multi-event rules | map fields, correlate, select a lineage | event order, equal times, cycles | independent of chunking | `S0Evidence`, `R1LineageEvidence` |
| Collection validation (`collection/`) | seals and close proofs | validate, seal | stamps of several clocks | every seal refers to what it seals | `R1CandidateBoundary`, `R1CloseProof` |
| Evaluation (`evaluation/`) | none | bind results, first alert, paired timing, burden | which stored result counts | equals a reference over the inputs | `Evaluation` |
| Evaluation baselines (`evaluation/baselines/`) | none | machine learning on floats | numeric | - | - |
| Dashboard (`dashboard/`) | read models | queries, polling | several statements over moving rows | a view pairs a decision with its own rows | `DecisionStore`, `TelemetryRead` |
| Storage migrations (`storage/migrate.py`) | applied versions and checksums | apply under an advisory lock | two starters | each migration once, in order | - |
| Demo, integration, scenario scripts | files | one-shot tools | I/O | - | parts, see below |

Interactions: the Worker calls the standalone runner, which calls the stages in
order and the persistence layer inside the Worker's transaction; telemetry goes
through a second connection that commits on its own; the outbox row committed
with the receipt is what a redelivered message resumes from. The stream ingress
writes the ledger in one transaction per message under an advisory lock for the
run; the incremental consumer reads the outbox files and acknowledgements,
asks the ledger only to confirm that a chunk is a replay of a committed one, and
meets the close again through its export and the verified close proof.

`PROJECT.json` lists every component with its sources and status, the hazards
with the line where each one bites, and the map from definitions to lines.

## The Worker: `FirstCycleWorker`

### State and code

| Variable | Code |
|---|---|
| `mst`, `rcv` | the source queue and its redrive count (external, from how `run_worker` uses it) |
| `receipts` | `s3_object_receipts` |
| `runs` | run, Evidence and decision rows; a run maps to the object whose results it holds |
| `pubs` | `r1_archive_publications`: status and durable payload |
| `runtime` | `pipeline_runtime_status`, per (run, entity) |
| `lock`, `dlock` | `pg_advisory_xact_lock` on an object version and on a decision id |
| `archive` | the two artifacts of a run in S3 (conditional writes) |
| `pc`, `job` | where each Worker is in `_process_message`, and its locals |
| `execs`, `crashes` | start order of executions; bound on crashes |

Only committed database state is a variable. What an open transaction would
write is in the job of the Worker that owns it, so a crash or a rollback drops
it. Each action is one stretch of code between two points at which another
process can see or disturb something: a lock, a commit, an S3 call, a Runtime
snapshot, an SQS call.

`ReceiveMessage` has the parse error and test event paths; `AcquireExecution`
takes the receipt lock and decides between skip, resume of a durable payload
and a fresh execution; `AllocateIdentifiers` picks a run id the database does
not hold (two Workers may pick the same one, the directory that reserves it is
private to each); `RunStages`, `StageFails` and `ArchiveGenerationFails` are
the stages; `Persist`, `PersistConflict` and `SavePendingConflict` the writes
of the transaction; `SaveSuccess` and `SaveSuccessFails` its commit, the second
with or without the server having committed; `StartPublication`, `PutObject`,
`PutConflict`, `PutFails`, `MarkPublished` and `MarkPublishedFails` the archive;
`CompleteRuntime` and `DeleteMessage` the end. `Retain` is what every exception
path shares: roll back and leave the message in the queue.

### Abstractions

- An object's content is one value each for its host, its verdict and its
  archive bytes. `Verdict` and `Payload` may coincide for two objects: that is
  how an equal decision arises.
- `started_at` order is the `execs` counter, `updated_at` is monotone within
  one execution. `attempt_count` and error texts are left out.
- The scope lock of the persistence layer is implied by the decision lock here,
  because a decision id determines its scope.
- Database errors happen at the commit, which is where their effect differs;
  an error earlier rolls back like a stage failure.
- Retention and clean-up of receipts are not modelled.

### Runs

| Run | Instance | Shows |
|---|---|---|
| `worker_overlap` | 2 Workers, `{o1,o2}` and `{o2}`, equal verdicts, upload errors and lost commit answers | one run per upload; nothing dropped, nothing durable rewritten, conflicts only from outside |
| `worker_settles` | 2 Workers, 2 notifications of one upload, 2 run ids, the first archive key occupied from outside, stage, commit, upload and telemetry faults, 1 crash, fairness | `published` means S3 holds the durable payload; a Runtime completes only for committed results; every message is deleted or dead-lettered |
| `worker_exhausted` | 2 Workers, 2 uploads of 2 hosts with equal verdicts, 1 run id, no archive, failed and lost commits, 1 crash | a receipt's run holds that upload's results because decisions of two hosts differ, also when the run ids are exhausted |
| `worker_progress` | 2 Workers, 2 hosts, colliding run ids, a malformed body, no archive, no faults, fairness | every upload is receipted |
| `worker_ambiguous_commit`, `worker_shared_run_id` | minimal | the findings below |

Bounds. Two Workers are the smallest number that race, and every lock and every
row is fought over by pairs. `MaxReceive` is 2 (3 in the deployed redrive policy): one
retry after each kind of failure is enough for every resume path, and the
finding that needs a second retry has 3. `RunCount` is 1 or 2 instead of 999, so
that collision and exhaustion both happen. One crash at any point, with
redelivery, reaches every recovery path. The proofs need none of these bounds.

Deadlock checking is off: once every message is deleted or dead-lettered the
system rightly waits.

Fairness. `run_worker` is an endless loop and ECS restarts a dead task, which
justifies weak fairness of each Worker's next step; SQS expires visibility and
redrives by itself, which justifies weak fairness of each message's queue
actions. Crashes and faults are never forced.

### Findings

1. **Lost commit answer** (`worker_ambiguous_commit`). When the commit raises
   although the server committed, the Worker marks the Runtime failed. The
   redelivered message then finds a durable payload it can never finish:
   `mark_published` refuses a terminal failed Runtime every time, and the message
   ends in the DLQ.
2. **Shared run id** (`worker_shared_run_id`). Two Workers allocate one run id;
   with equal decisions the second `_persist` takes the first's rows for its own
   replay and a receipt is stored for an upload whose results never were.
   `ReceiptNamesDecision` is the weaker fact that always holds, and is proved.

Two weaker points the model shows without a run of their own. With uploads of two
hosts under one run id, `mark_published` also completes the Runtime row of the
other Worker's uncommitted execution, because it updates every running row of the run
id; so `CompletedIsCommitted` is checked with the two notifications of one upload, and
its theorem has the hypothesis that says when the code guarantees it. And `update_status` is
unconditional, so a slow Worker's S3 error stores `retryable` over a publication another
Worker had recorded `failed`.

### Proofs: `FirstCycleWorkerProofs`

For every set of Workers, messages and objects, every fault set and any number of
crashes, from `ConstantsAssumption` and `NoneIsNoRow`:
`TypeCorrect`, `OneRunPerObject`, `ReceiptsNameDecisions`, `NoUploadDropped`,
`SummaryAfterEvidence`, `PublishedIsComplete`, `ConflictsAreForeign`, `DurableIsFinal`
and `CompletedRunsHaveResults`. Two more hold under a hypothesis that is part of the
theorem, since without it the code does not keep the property:

- `ReceiptsHoldOwnResults` under `DecisionsDiffer`: no two uploads have decisions that a
  replay takes for each other. The instance of `worker_exhausted` satisfies it, that of
  `worker_shared_run_id` does not, and there TLC finds the violation.
- `CompletedAreCommitted` under `CompletionScoped`: where R1 is configured, the uploads are
  of one host, so that the rows `mark_published` completes are those of one entity. The
  instances of `worker_settles` (one host) and `worker_exhausted` (no R1) satisfy it.

`TypeOK` is not inductive: an action reads `runs[job[w].run]`, which is typed only
if the job has a run at that control point. `JobShape` says what a job holds
where, and `TypeInv` is the conjunction. On top of it:

- `Execution`: between acquire and commit a Worker owns the object's lock and
  the object has no receipt; at the commit it owns the decision lock and what
  `Persist` saw of the run row still holds; a stored run's object has a receipt.
  `AtMostOneRunPerObject` follows: a second run would need an execution of an
  object that already has a receipt.
- `Coverage`: each object of a received message is still to do, in hand or
  receipted. A message is deleted only with nothing to do and nothing in hand.
- `Archiving`: a publishing Worker's payload is the outbox payload, and S3 holds
  that payload or nothing under a run that is not foreign.
- `Durability`: a Worker past its commit has the run in hand that its object's receipt
  names, and an outbox row exists only with the results of its run. A Runtime row is
  completed by the commit itself or by a Worker past it, so completed rows have results.

Each action that writes a shared store has an effect lemma, and a frame lemma says that
no other action writes it (`OnlyCommitsWrite`, `OnlyUploadsWrite`,
`OnlyPublicationWrites`, `OnlySnapshotsWrite`), so that the invariant proofs
treat each action once.

`TypeOK` and `SummaryImpliesEvidence` are stated by theorems alone: no run repeats them.
Only model-checked: the two liveness properties, since fairness is out of the prover's
reach.

## The R1 stream ledger: `R1StreamLedger`

`R1StreamIngress` admits the messages of one Run into PostgreSQL. Every accept call
takes the Run's advisory lock first and keeps it to the end of its transaction,
so one delivery is one step; a replay or a refused message changes nothing and
is a stuttering step. What is left is the order of deliveries, and the model
allows every order and any number of redeliveries of a constant set of messages.

| Variable | Code |
|---|---|
| `chunks`, `events` | `r1_stream_chunks`, `r1_stream_events` |
| `watermarks` | `r1_stream_watermarks` |
| `close` | `r1_stream_run_closes` |
| `position` | `r1_stream_position_closes` |
| `dead` | the dead-letter files of `_reject_late_events`, written outside the transaction |

`AcceptChunk` is `accept_chunk` with `inspect_chunk_admission`, `save_events` and
`save_chunk`; `RejectLateChunk` its late path; `AcceptWatermark` is
`save_watermark`; `AcceptRunClosed` is `assert_final_watermarks_match` and
`save_run_close`; `SavePositionClose` is `save_position_close`. Content digests are
equal exactly when the records are; timestamps and RecordIds are numbers.

`WatermarkLock` is a constant, because the code and the database disagree about it.
`save_watermark` first takes `_LOCK_WATERMARK_PARTITION`, whose untyped parameters
PostgreSQL rejects (`src/docs/pipeline/r1-development-stream-wiring.md`, the strict
xfail `test_real_role3_watermark_save`). FALSE is this repository on PostgreSQL: no
watermark is ever stored, and no run close after one, since a close needs a stored
watermark for each of its partitions. TRUE is the repository with that one statement
repaired, which is also what its tests with a scripted connection exercise. The
theorems hold for both values. Of the runs, those in which a watermark or a close is
accepted have TRUE, and none of them is evidence of what PostgreSQL accepts today; the
decision run as well begins its feeds with an accepted close. The position close is
another table and needs no watermark.

Runs. `ledger_deliveries` (`WatermarkLock = TRUE`) delivers messages that collide in every way the code
distinguishes (same id or sequence with other content, an event id with other
content, a watermark behind its predecessor or with another lateness budget,
closes that name a stale watermark or leave out a partition, position closes
with complete, gapped and foreign lists) over two partitions. Each collision
needs two messages and each close at most two partitions, which is what the
sets hold; the proofs need no bound. There is no liveness here: the ledger only
answers, and deadlock checking is off because a closed run takes nothing more.

A point without a run, since it needs two stored watermarks: `inspect_chunk_admission`
takes the latest watermark and drops it while chunks it covers are missing, and the
one before it, which was effective, no longer counts either. Once the lock is repaired,
a chunk already dead-lettered as late is accepted when it is redelivered in that window.

### Proofs: `R1StreamLedgerProofs`

For every message set, from `MessageAssumption` (what the message models
validate) and `NoneAssumption`: `TypeCorrect`, `IdentitiesAreUnique`,
`EventTableIsExact`, `FrontierIsOrdered`, `CloseIsComplete`,
`PositionCloseIsBacked`, `FrontiersHold` and `LedgerIsAppendOnly`. The
inductive invariant `IndInv` is the conjunction of the invariants with
`LatestExists` (a partition with watermarks has a latest one, without which
comparing with the latest would say nothing about the others) and
`FinitelyManyPartitions`. `CloseIsComplete` is a counting argument: the final
watermarks belong to distinct known partitions and are as many as there are
known partitions, so they belong to all of them. `AppendOnly` and `TypeOK` are proved and
not run.

## The file spool: `R1Spool`

One producer publishes immutable outbox files; passes of `consume_spool_once`
deliver them to the ledger and write an acknowledgement file after the commit.
`R1Spool` instantiates `R1StreamLedger` over its own variables and adds:

| Variable | Code |
|---|---|
| `outbox`, `published` | the files of `outbox/` in ordinal order, and how many exist |
| `acks` | the files of `acks/` |
| `upto` | the listing a pass took when it started (`sorted(outbox.glob(...))`) |
| `held` | the message a pass has committed and not yet acknowledged |
| `exported` | `accepted-run-closed.json` of `export_accepted_close` |

`BeginPass` lists, `Commit` is the transaction of one message (new or exact
replay), `Refuse` every exception of it, with the dead letter of a late chunk,
`Acknowledge` and `AckConflict` are `_publish_immutable` of the acknowledgement
(other bytes under the same name raise). `Inadmissible` is what contract and ledger
refuse for its content, `Lockable` whether the locks of the call can be taken, also by a
replay; a pass that meets either stops there, and only the first is meant. `IngressCrash` is a death or a lost answer
before or after the commit. Passes overlap freely: nothing in the code excludes a
restarted sidecar beside a slow one.

The contract is the one that `render_required_partition_contract` writes, with one
partition. A message is a record of its kind; file names, digests and paths are
left out, because `load_accepted_spool_message` compares them with the same file.

## The Role2 consumer: `R1Consumer`

`R1Consumer` extends the spool with the consumer processes, so that Role3 and
Role2 interleave over the same files.

| Variable | Code |
|---|---|
| `started` | `run-started.json` |
| `checkpoint` | `r1_incremental_checkpoint.json`: accepted chunks, accepted close, status, proof |
| `pc`, `mem`, `view` | where a process is, its `R1IncrementalEvidenceState`, its listing of chunk files |
| `files` | the evidence file, summary, envelope and receipt, each as the state it was made from |
| `trace` | how `r1_role2_operational_trace.jsonl` ends: whole, with a record that has no newline, or torn |

`BeginConsume`, `ConsumeChunk`, `WaitForAck` and `AcceptClose` are one
`consume_available`; `Finalize` is `finalize_and_publish` up to the checkpoint;
`Replace` is `os.replace`, a step after the generation check, as the docstring of
`write_r1_incremental_checkpoint` warns; the `Publish*` actions are the links of the
artifacts, `SummaryFails` the undo of a failed second link, and `ReportStatus` the last
record of a pass or of a command. The state-root lock
is free when no process is inside a command; `ConsumerCrash` kills one anywhere,
also inside an append, and the OS drops the lock.

Every pass reads the hash-chained trace before it lists the outbox, and every append
reads it again (`Readable`, `AppendTrace`). A kill inside an append leaves a part of the
record, which raises from then on, or all of it but the newline: that can still be read,
the next append glues two records together, and then it raises too. An append that
glues succeeds itself, so what follows it in the same step (the checkpoint of a chunk) still
happens, and the second append of the step fails (`Replace`, `EvidenceUnrecorded`).
`OnlyRecord` is a refused command, which writes nothing but its record.

Abstractions: `accumulating` and `provisional` are both "open", since no later step
distinguishes them. Whether a proof validates, the selector finds an Evidence and the
Evidence is ready by `run_end` is a property of the supplied proof (`ValidProofs`,
`LateProofs`), chosen freely here and computed in `R1IncrementalEvidence` below. Of the
trace only its end is kept; that a whole record is the right one is a property of one call.

### Runs

| Run | Instance | Shows |
|---|---|---|
| `stream_consumer` | `WatermarkLock = TRUE`; five streams (complete, late chunk, gap with a foreign partition, missing chunk, excess chunk), 2 overlapping passes, 1 sidecar, 1 finalize command, 3 proofs, 1 crash on each side | safety: acknowledged means committed and both follow the outbox order; the spool implements the ledger; the checkpoint is a gapless acknowledged prefix; terminal checkpoints are final; finalized covers exactly the close; artifacts come from the final checkpoint, in order |
| `stream_as_built` | `WatermarkLock = FALSE`; what the current producer publishes, chunks alone (three in order, a sequence used twice, a gap with a foreign partition), and a watermark between two chunks; 2 passes, 1 sidecar, 1 crash on each side, fairness | liveness: what is published is acknowledged and what is acknowledged is consumed, with the exceptions below |
| `stream_publication` | `WatermarkLock = TRUE`, one stream of three messages, 1 crash, fairness | finding 3 |

Bounds. Two passes are the smallest number that overlap; more repeat the same
conflict over one ordinal. Each stream is as short as its case allows: two chunks
for an order, a gap or an excess, one watermark and one close to finalize. One
crash on each side reaches each recovery path. The theorems below have no bounds.

Fairness. Both sidecars are loops (`--follow-interval-sec`), which justifies weak
fairness of each process; `finalize` is a command that the operator repeats.
Publication, `run_started` and crashes are not forced. `EventuallyAcked` excepts a first
message that contract or ledger refuse for what it says (`Blocked`), and one that is a
watermark whose lock fails (`LockFails`): the repository's known defect. The statement
fails on every try, so the watermark is rolled back, stays first in the outbox and is tried
again by every pass, and nothing behind it, a `run_closed` included, is ever delivered. The
producer sends no watermark yet; the property says that the queue drains in that
deployment, not that it drains with watermarks. `EventuallyConsumed` excepts a
chunk sequence with a gap or an occupied number, which the consumer rejects, and
a trace that a death has torn (`TraceTorn`): `r1_operational_trace.py` says that a torn
record "fails closed on read", and it does so for good, since nothing in the code repairs it. So
consumption survives every death that leaves the trace readable, and no other; a
death that leaves an unended record is of the second kind, because the next append tears
it. Deadlock checking is off, because the system stops when everything is published and
the state is terminal.

3. **Half a publication** (`stream_publication`). A kill between the two `os.link`
calls of `_publish_files` leaves the evidence file without its summary. A
repeated finalize looks for the evidence file alone, skips the writing, and raises
when it loads the missing summary, every time. The trace is whole in this behaviour.

A point without a run: `finalize` does not wait for the sidecar. When the sidecar
lags behind an accepted close, the coverage check fails closed, and that is
terminal although all the chunks were committed.

### Proofs: `R1ConsumerProofs`

**The spool**, for any outboxes, any number of passes and any number of deaths, from
`OutboxAssumption` (an outbox is a list of messages, none of them `None`):
`SpoolTypeCorrect`, `LedgerFollowsOutbox` and `SpoolImplementsLedger`.
`LedgerIsPrefix` is not inductive, because an acknowledgement is written for the
ordinal a pass remembers: `HeldIsCommitted` adds that a remembered ordinal is
stored and that everything before it is acknowledged. Then the first pending file
of any pass is the first one without an acknowledgement, a commit extends the
stored prefix by it or finds it there, and an acknowledgement extends the
acknowledged prefix. The refinement maps the ledger's variables to themselves:
`Commit` and the dead letter of `Refuse` are ledger steps, all others stutter.

**The consumer**, for any outboxes and proofs and any number of passes, sidecars, finalize commands
and deaths, from `OutboxAssumption`, `MessagesAreValid` (what the message models
validate), `NoneIsNoState` and `ProofAssumption`: `ConsumerImplementsSpool`,
`ConsumerTypeCorrect`, `CheckpointFollowsLedger`, `FinalizedIsComplete`,
`ArtifactsAreFinal` and `TerminalStateIsFinal`.

The composition comes first: every step of the consumer leaves the spool's variables
alone, so `Safety => SpoolSpec` and the spool's invariant holds beside it. The
consumer's invariant `ConsumerInv` then says what a process has in hand between two
file operations. In the middle of a pass its memory is the current checkpoint; before
`os.replace` it is a sound successor of an open checkpoint that passed the
generation check; while it publishes it is the final checkpoint. `LockHeldByOne`
keeps that true: no other process can change the checkpoint in between, which
is why the two-step write is safe under the lock and, as the mutant without the lock
shows, not without it. `FinalizedIsComplete` also needs that the ledger has one
chunk per sequence (`SequencesAreUnique`): the coverage check compares sequences,
the theorem speaks of chunks.

Only model-checked: `EventuallyAcked` and `EventuallyConsumed`.

## Position finality: `R1PositionFinality`, `R1CandidateBoundary`, `R1PositionHandoff`

Current Sysmon runs are closed by RecordId instead of event time: the producer
freezes a range of RecordIds, the runner exports the same range from the log, a
finalizer checks that both are one set and issues a close, Role3 accepts the
close against its ledger, and Role4 seals it together with the Run's Ground Truth
boundary and hands Role2 a proof. `R1PositionFinality` is the way from the channel
to the accepted close, `R1PositionHandoff` extends it with the handoff command,
and `R1CandidateBoundary` has the Ground Truth checks as operators.

| Variable | Code |
|---|---|
| `channel` | the Windows event log: its generation, the kinds of its records and the oldest one retained (external) |
| `segments`, `outbox`, `acks` | `raw-segments/`, `outbox/` and `acks/` of the producer |
| `ledger`, `closeRow` | `r1_stream_chunks`, `r1_stream_position_closes` |
| `last`, `freeze`, `failed` | `producer-state.json`, the snapshot the sidecar holds in memory, `collection-freeze-failed.json` |
| `request`, `freezeGen`, `freezeAck`, `exportGen`, `finalized` | the control files of the freeze and the export |
| `evtx`, `jsonl`, `snapshot` | the canonical export |
| `recon`, `close`, `closeAck`, `exported` | the position-finality files |
| `out`, `stage`, `mem` | the three output files of the handoff, and where each command is |
| `faults` | which disturbances have happened |

| Actions | Code |
|---|---|
| `Write`, `RollOver`, `Clear` | the channel (external) |
| `Poll`, `PublishChunk`, `CommitChunk`, `AckChunk` | the producer's loop and Role3's consume |
| `WriteRequest`, `FreezeSnapshot`, `SaveFreezeState`, `WriteFreezeGeneration`, `WriteFreezeAck`, `FreezeFails`, `SidecarCrash` | the freeze, step by step; an interrupted freeze is started again, with the last RecordId recovered from the raw segments; one with a failure file is not |
| `ExportEvtx`, `CompleteSnapshot`, `WriteRunFinalized` | the runner; the log may change between its steps |
| `Reconcile`, `IssueClose` | the finalizer: both verify every file again |
| `CommitClose`, `AckClose`, `ExportClose` | Role3's acceptance, its acknowledgement after the commit and the export |
| `EditSegment`, `EditJsonl`, `RewriteAck`, `RestoreLedger` | files edited by hand and a database restored from a backup, which the checks are there to notice |
| `Start`, `Reuse`, `Issue`, `Create`, `Fill`, `Stop` | `issue_r1_position_handoff`: each output is created exclusively and then written, so that a reader between the two meets a torn file |

Abstractions. A digest is the value it is the digest of. The clocks of the four
machines are not synchronised: a stamp is any instant, and what the code demands
of two stamps is a guard. An event is its RecordId and the generation of the log
it was written to, because some checks compare raw XML and others RecordIds only.
A refused command leaves no file and is no step.

`R1FinalityPromise` is the abstract specification: RecordIds are acknowledged, once
a set of acknowledged ones becomes final, and then one proof may name exactly it.

Run `position`. Two records, two generations, two chunks, instants 0 and 1, one
disturbance of any kind, two handoff commands (symmetric), Ground Truth inputs that
are right or wrong in one of fourteen places. Two instants are enough to put any two
stamps in either order, two records and two generations to make a RecordId that
occurs twice, two chunks to have one inside and one after the bound. It shows that
the freeze acknowledgement is about delivered chunks (`AckMeansDelivered`), that an
accepted close is what the same database holds (`CloseMeansCommitted`), that stamps
never run backwards along the chain (`StampsOrdered`), that seal, record and proof on
disk belong together (`OutputsAgree`), that the proof rests on the end of the Run's
last action (`BoundaryIsGroundTruth`), and that everything implements the promise
(`KeepsPromise`). Deadlock checking is off: a finished or refused Run stops.

Points without a run. A handoff killed between create and write leaves a torn output
that blocks every later handoff of the Run, by design of mode "x". A sidecar killed
between the generation file and the acknowledgement can neither poll nor freeze
again.

### Proofs: `R1PositionProofs`

All five invariants of the run and the refinement are proved, for any number of records,
generations, chunks, instants, disturbances and handoff commands, from
`FinalityAssumption` (the bounds are naturals) and `PolicyAssumption` (the policy digest
the operator states is that of the policy with these last actions and terminal states).

`FinalityInv` carries facts from the step that checked them to the step that relies on
them. `DeliveryInOrder`: acks and ledger are prefixes of the outbox, and the ledger is
not behind the acks unless it was restored. `FreezeIsCurrent`: a saved freeze is at the
producer's last RecordId with nothing unpublished. `AckIsSettled` and
`CloseIsSettled` use `NothingBehind`: no segment behind the covered ones has a RecordId
up to the bound, and since the producer only takes RecordIds above its last one, none
ever will. This is what `CloseMeansCommitted` needs for chunks published after the
close. `CloseStamps` collects the order of the stamps from the guards of seven steps.
`CountRids` says that the counts the code compares are those of the RecordIds, as the
log never holds one twice. `FinalityIsSettled` is the invariant;
`FreezeAckMeansDelivered` and `AcceptedCloseMeansCommitted` follow.

Every step of the handoff leaves these variables alone, so `Spec` implements
`FinalitySpec` and keeps the invariant. `HandoffInv` says why what a command remembers
does not age: the export is never replaced (`ExportStays`), a torn file belongs to the
one command that fills it (`FillsAlone`), and an output a command went past is on disk
as it remembers it (`CommandsFollow`). `OutputsSound` then holds of the disk alone, and
gives `HandoffOutputsAgree`, `HandoffStampsOrdered` and `HandoffBoundaryIsGroundTruth`.
`HandoffImplementsPromise` maps `AckChunk` to `Deliver`, `ExportClose` to `Finalize`,
the `Fill` of the proof to `Prove` and every other step to a stutter. The theorems of
the handoff have the hypothesis `MarksAreDistinct`: a message is a record, so it is not
the value that marks a missing or a torn file.

## The decision system: `DecisionSystem`

`DecisionSystem` composes everything that leads to a stored decision and everything
that reads it. One scenario gives a behaviour its inputs: the files of an S0 run, an
R1 episode, attempts to watch, or a feed of chunks.

| Module | Part | State |
|---|---|---|
| `DecisionStore` | `_persist`, statement by statement, and the dashboard's readers | `decisions`, `snapshots`, `latest`, `runs`, `events`; `idLock`, `scopeLock`; `tx`, `reader` |
| `DecisionHistory` | the abstract specification: one log per scope | `log`, `current` |
| `FusionReplay`, `HybridDecision`, `FastDetection`, `S0Evidence` | window, score, stopping policy, decision table, hits and their selection, S0 normalization and extraction, as operators | none |
| `FirstCyclePipeline` | the fast runner with its files and invocations of `run_first_cycle_pipeline` | `files`, `runner`, `inv` |
| `R1CausalReplay` | envelope, join, causal replay and the offline replay command | `replay`, `replayed` |
| `R1FusionHandoff` | `consume_published_r1_evidence` | `dir`, `dirLock`, `validation`, `ho` |
| `R1LineageEvidence`, `R1CloseProof`, `R1EvidenceArtifacts` | lineage selection, multi-event correlation, close proofs, the Evidence file and summary, as operators | none |
| `R1IncrementalEvidence` | the Role2 state, its checkpoint and its recovery | `ledger`, `role2`, `uncommitted`, `todo`, `checkpoint`, `artifacts` |
| `PipelineTelemetry`, `TelemetryRead` | collector, session, observer, guarded upsert; the aggregate query | `attempt`, `rows`, `late` |
| `Evaluation` | episodes, bindings, first alerts, paired timing, burden over what was stored | none |

`None` and the few value helpers are in `Values`.

### The store and its readers

A transaction is `Submit`, `AcquireIdLock`, `AcquireScopeLock`, `CheckExisting`,
`CheckHead` and `Commit`, or `Lose` at any point. `CheckExisting` is the idempotent replay
and the conflict; `CheckHead` compares the submission's `supersedes` with the head of
the scope. Transactions are READ COMMITTED: a statement sees what is committed, its own
writes appear at `Commit`. A reader opens a view, reads the head, reads the rows one
statement at a time and reads the head again; it retries when the head moved, and
reports a consistency error when the attempts are used up (`MaxAttempts`, 2 here, 3 in the
code). `history` is auxiliary and records the order of commits.

### S0: from records to a decision

The fast runner reads the CSV (`FastRead`), replays it into staged files (`FastStage`)
and links hits before trace (`LinkHits`, `LinkTrace`, `FastRollback`, `FastCrash`);
`RewriteCsv` is a repeated scan that puts another export over the first; `FastSelect`
makes the selection. An invocation evaluates fusion (`Invoke`), checks and loads the fast
handoff (`LoadFast`) and hands a submission to the store (`Persist`). A CSV rewritten
between reading and staging makes a trace about other rows than the hits; the replay in
`select_fast_hit` refuses it.

Rules are integer ranks, hit ids are ordered as numbers (the code orders strings; the
rows stay below ten), the host map is the direct one the pipeline uses, scores are
integers. The docstring of `s0_replay_window.py` says that a threshold first met on
the last tick is not detected; with `persistence_k` = 1 it is, and the model follows the
code. A selection written by hand is checked against the hits it names and not against the
reference, since nothing computes it.

### R1: handoff and replay

A handoff takes the directory's lock (`Acquire`), validates the published set
(`CheckInput`, `RecordValidation`), compares the execution identity with the trace of
the directory (`CheckIdentity`), and goes on where the trace ends: append a record
(`AppendRecord`, `AppendFails`, `TornAppend`), fuse, publish the two results, decide,
publish the decision, submit it to the store (`PersistHandoff`, `Persisted`), record.
A record is torn with or without its last newline. Without the newline the line is
complete and is read; one more append then glues two records and makes the trace
unreadable. The decision id is a digest of run, execution identity and result, modelled by
the identity. `RunReplay`, `LinkReplayFile`, `ReplayRollback` and `ReplayCrash` are the
offline replay, whose provenance is linked last.

Points without a property. A conflict or a kill after the decision file was published over an
old head wedges its directory: a repeated command finds a decision file it cannot
replace. A directory recorded without a database conflicts for ever once the scope has a
head. Two directories that validate at the same time link one validation record; the later
one is refused.

### R1: the feed

`R1IncrementalEvidence` is the state that `R1Consumer` treats as a list of chunks:
which events it holds, what the selector makes of them, what finalization computes, and
what recovery computes again from the checkpoint (`StartState`, `OfferChunk`,
`AcceptRunClosed`, `AcceptProof`, `FinalizeAtRunEnd`, `WriteCheckpoint`, `CommitChunk`,
`EndProcess`, `Restore`, `LinkEvidence`, `LinkSummary`); `AdmitChunk` and `AdmitClose`
are Role3. The state class takes chunks in any order, and so does the module, although
the consumer offers them in sequence. A call that raises is no step unless it fails the
state closed; offering a held chunk again is no step. The ceiling of clocks to milliseconds
is left out. The required-partition contract admits the Sysmon partition only.

Points without a property. When the readiness clock ran back after the proof was
validated, the checkpoint says failed_closed for a reason that its restore computes
differently, and every restore raises (`r1_incremental_evidence.py:637` against
`493-504`): safe, and stuck. The lifecycle literal of the checkpoint's policy excludes
`production_candidate` (`r1_incremental_checkpoint.py:47`).

### Telemetry

An attempt opens a session, counts records in one-second buckets, flushes at callbacks and
closes. Begin, work and finish of a record are one step, since nobody else sees the
collector between them; issues are a set; two stages follow the normalization. The clock
may stand, jump, run back or raise. A save answers ok, error, lost (stored, the answer is
not received) or late (the server ends it after the client gave up, `EndLate`). A response
of the dashboard is one SQL statement and so a function of the tables. An observer that
was disabled never stores its last quality mark.

### Evaluation

Which stored or published result counts, what it is bound to, and what is computed from it:
episodes of the fast handoff, first alert after the reference time, paired outcome, alert
burden, R1 results checked by provenance or by replaying the handoff. Run type and
reference time come with the plan. There is one set of versions. Medians and recall over
many runs, split manifests and scan options are left out.

### Run `decision`

| Scenarios | What happens |
|---|---|
| `RecordScenarios` | every sequence of up to two records out of ten, under four fusion configurations |
| `BrokenScenarios` | run ends before, at and after the replay, refused inputs |
| `FastScenarios` | every export of up to two hits, two host maps, a rewritten CSV, selections by hand |
| `StoreScenarios` | two processes, one scope, two decision ids, a reader; a process that repeats itself |
| `HandoffScenarios` | two directories, with and without a database, two clocks, crashes and torn traces |
| `SingleScenarios` | each configuration, refused published sets, an unregistered run |
| `ReplayScenarios` | the offline replay with its crashes |
| `TelemetryScenarios` | a database with every answer; clocks with every fault; two attempts over equal and different inputs |
| `FeedScenarios` | chunks in every order, repeated, overlapping, conflicting, past the close; one and two partitions; every small lineage; a crash anywhere |

| Property | Shows |
|---|---|
| `HistoryKept` | the tables implement `DecisionHistory`: an append-only log per scope |
| `HistoryIsRebuilt` | `build_decision_history` finds that log again from the links |
| `ViewIsConsistent` | a view pairs a decision with the rows saved with it |
| `DecisionIsReference` | a stored decision is what a reference without window, fold or handoff computes from the raw inputs |
| `MarkerImpliesContent` | trace, provenance and `decision_recorded` never announce what is not there |
| `TelemetryIsExact`, `TelemetryNeverRegresses`, `ClosedMeansStored` | totals the dashboard calls observed are what happened; a stored row never loses a count, a mark or its end; an observer closed with nothing pending has stored its last word |
| `EvidenceIsReference` | finalized Evidence is what the selection gives on the sealed events, for any chunking, order and restart |
| `EvaluationIsReference` | rows and figures are those of a reference over the inputs |

Bounds. Two records, hits or chunks give every order, tie and boundary of a window; two
processes and one reader every race over a lock; the S0 replay has three points, so that a
start, a continuation and an end are distinct. Deadlock checking is off, because a
scenario ends.

### Proofs: `DecisionStoreProofs`

About `StoreSpec`, the store alone with callers that submit anything: every store step of
`DecisionSystem` is one of its steps, with the submissions its callers build. For any
ids, scopes, processes, readers, attempts and submissions, from `StoreAssumption` and
`SubmissionAssumption`: `StoreIsSound`, `StoreKeepsHistory`, `ViewsAreConsistent`,
`AnswersAreKept` (a caller of `_persist` that was answered finds its decision stored, by
this call or an equal one before), `DecisionsAreFinal` and `HistoryIsAlwaysRebuilt`.

The steps are proved once, for `StoreMove`: one action of one transaction, one of one
reader, or a step that leaves the store alone. `StoreNext` is such a step, and so is every
action of the composed system below.

`HistoryKept` needs to know at `Commit` what `CheckHead` saw statements before.
`StoreInv` carries it over: `LocksHeld` says that a transaction past its locks owns
both, `CheckedStays` that an accepted submission is still new and its `supersedes`
still the head, because only the owner of the scope lock commits to the scope. With
`LinksInOrder` (each decision supersedes the one before it in the order of commits),
`EveryDecisionLogged` and `LatestIsLast`, a commit is the abstract `Record`. For readers,
`ReadsAreOfOneHead` says that what a reader has seen so far belongs to the head it read
first, as long as that is still the head; heads never return, so equality at the end
means that none came between.

`HistoryIsRebuilt` speaks of a walk that is a recursive function: its value at a place
depends on its value at the place before. No induction is needed. The newest-first order
of `history` solves the equation of the walk (`NewestFollows`, from `LinksInOrder`), so
the walk does (`WalkFollows`), and the equation has one solution (`FollowsIsUnique`): two would
differ at a first place, which a nonempty set of positions has (`SmallestExists`, by counting).
`ScopeIsCounted` gives the walk its length: a scope has as many decisions as commits.

`EvaluationIsReference`, a function of the inputs that no step of the run changes, is only
model-checked.

### Proofs: `AlgorithmProofs`, `TelemetryProofs` and `DecisionSystemProofs`

The last two are about `Spec` of `DecisionSystem`, for any scenarios, executions, record counts, clocks
and answers of the database, from the assumptions of the modules: `WatchAssumption` (finitely
many attempts, clocks that show integers or nothing, the listed answers of a database),
`InputAssumption` (an identity a caller supplies is that of a version of an S3 object: it is of
another kind than a file's digest, `telemetry_input.py`, and names one content), `QueryNumbers`
(a query's end and window are numbers), `NoneIsNoError`, `NoneIsNoDuration`, those of the store, and `ScenarioAssumption`: ids, scopes and directories of
a scenario are in the sets the constants name, a scenario is an S0 run or an R1 episode and not
both, and a trace that is there when it begins is over the hits beside it, as the runner leaves it.
The theorems have one hypothesis more, `NullIsNoFunction`: the value `None`, Python's None and
SQL's NULL, is not a function, so that no record equals it. It is a hypothesis and no ASSUME
because TLC cannot evaluate it on a model value; TLC's `None` differs from every record.

**Telemetry** (`TelemetryProofs`): `TelemetryInOrder`, `ClosedObserversStored`,
`StoredTelemetryGrows`, `CleanRowsAreExact`, `ResponsesAreExact`.
`ClosedMeansStored` and `TelemetryNeverRegresses` speak of the row and the observer, and
neither is inductive: a transaction the client gave up may end later (`EndLate`) and then
overwrites the row. `TelemetrySound` adds what is in between. `Chain` orders four copies of one
execution's telemetry: the stored row, the snapshot of a late transaction, what the
observer holds (`pending`, or `saved`) and the collector's last snapshot; each contains the
ones before (`Below`), and a revision names one content (`Grows`). `Counted` says that
session and observer count the same failures, so that both give up together; `Synced`
that a closed observer holds the collector's last word. The effect of one save, of a
flush and of a callback's flush are lemmas (`FlushObserverEffect`, `FlushNowEffect`,
`FlushEffect`), and `OthersLeaveTelemetry` is the frame for every other action of the system.

`CleanRowsAreExact` is the content of a row, beside its order: a stored row without a
quality mark tells, second by second, what the first `revision` observations were. Each had a
clock and a bucket, and each counter is the total of what those of its second say. A total is
no fold here but a relation: `Adds(v, f, n)` holds of `v` when some running totals start at 0,
grow by `f[i]` at each place and end with `v`; two running totals would differ at a first place, so
there is one (`AddsOnce`). The invariant's part `Tells` says it of the collector's own buckets
(`Counts`) and of every copy `Chain` orders (`Exact`, by `Shown`): what a snapshot says at its
revision stays true while the log grows (`ExactIsStable`), so that it does not matter when, how
often or how late a copy is stored. `ObservationCounts` adds one observation, `CallbackCounts` a
callback and `AcceptBatchCounts` the batch at the beginning, with the clock that runs
backwards and the buffer that is full, which mark the row instead.

`ResponsesAreExact` is `TelemetryIsExact`: what the dashboard answers, over all rows of a query.
`StoredRows` collects what the invariant says of the rows: a clean one is `Exact`; every one
was accepted by the database, so its buckets are valid; and it has the identity
its attempt's input resolves to (`Identified` and `Grows` carry it from the collector to the
row). The rest is arithmetic of sums over finite sets. A running total ends at the sum
(`AddsIsSum`), so a clean bucket is the sum of what happened in its second (`BucketIsTotal`) and
where there is no bucket nothing happened (`NoBucketNothing`). Over the executions of a query
this gives a point (`PointShows`). The recent summary adds up points, and the seconds
without one count nothing (`SecondsAddUp`, `SummaryShows`). No reader refuses what was stored
(`PointIsValid`): a sum of counters of valid buckets is valid. Attempts that a response of a run
adds up have one identity, which names the records (`IdentityNamesRecords`,
`AddedUpIsAlike`).

The first part of `AlgorithmProofs` is what these lemmas rest on: numbers and finite sets have first-order induction
(`Induction`, `FiniteInduction`, from the least member of a set of numbers, `FirstExists`), and
with it the sum over a set, in the community modules a recursive function behind a `CHOOSE`,
has the value the recursion says (`WalkExists`, `WalkAgrees`, `SumStep`), in any order
(`SumRemove`); it splits, adds, compares and ignores zeros (`SumJoin`, `SumPlus`, `SumOrder`,
`SumWider`). The theorems quantify over a set instead of an operator, because no installed prover
instantiates one.

**Commands** (`DecisionSystemProofs`): `CommandsAreSound`, `MarkersAreBacked`, `SystemKeepsHistory`,
`SystemHistoryIsRebuilt`, `SystemViewsAreConsistent` and `SystemDecisionsAreFinal`.
`DecisionStoreProofs` says what holds for callers that submit anything; here the callers are the
modelled ones, and the store's theorems are proved again for the composed `Spec`:
`EveryoneMovesTheStore` shows that each action of the system is a `StoreMove` whose
submission is well formed. That is a fact about the callers, which is why their states
are in the invariant `CommandsInv`:

- `InvocationsSound`: an invocation past its fusion serves an input of its run, so that its
  id and scope are known;
- `FastSound`, `ReplaySound`: trace and provenance are linked last, nobody rewrites a
  linked file, and a runner between two links finds what it linked before;
- `HandoffSound`: a command holds its directory's lock through every phase
  (`CommandSound`); what it publishes is what it computed (`OutputSound`), or what the
  record found by `CheckIdentity` names (`PriorSound`); a `decision_recorded` record names
  the final files, and says persisted only for a decision the store holds (`EntrySound`).

`MarkerImpliesContent` alone is not inductive: the record is written phases after files and
commit, and says persisted by the word of a transaction that ended before (`AnswersHold`) or
of an earlier run of the command. It relies on `DecisionsStay` as well: what a record
names must stay in the table. `AppendSound` shows that an append, whole or torn, keeps
every record before it, and `TearSound` that the torn end of a trace changes none.
There is a lemma per action of a handoff, and `HandoffFrame` for all others.

**Algorithms** (`AlgorithmProofs`): `FusionIsReference`, `ReplayIsReference`,
`CausalReplayIsReference`, `S0FusionIsReference`, `FastPathIsReference`,
`ExtractionIsReference`. They have no state:
they say of the operators the modules are built from what these compute, for every
configuration `ConfigValid` accepts and every input with the types below.

- The stopping policy. `PolicyRight` describes the policy after n points by the points alone:
  while no episode is open the counter is the length of the run of hits that ends at n; an
  episode is open when the score was not low since some point that ends k hits in a row
  (`Confirmed`); `first` is the first such point; episodes start where `Begins` says. One point
  keeps the description (`PolicyOneMore`), so it is true of all of them (`PolicyIsRight`, by
  induction). That a counter which restarts at a release misses nothing is where the order of the
  thresholds matters: a point below the lower one is no hit (`HitIsNotLow`), so that no run
  of hits spans a release.
- The event-time replay. Before a tick the window is a slice of the Evidence that ends where the
  index points and begins no later than the oldest that can still count (`WindowReady`); after it
  the slice is exactly the closed interval of the window (`WindowTicked`); a tick leads from
  one to the other (`TickMoves`), and since the grid goes forward the other to the one
  (`TickedIsReady`). So each score is that of the reference (`TicksAreScores`), the same Evidence
  ingested once and dropped once. The causal replay keeps what is activated and filters it at
  each point; the order of the schedule plays no part (`ScheduleIsAll`).
- Sorting. `sorted()` is `InOrder`: each member after as many as come before it. In a finite
  set that a strict order compares, every place has one member (`SortedIsAll`, by induction on
  the size), so that a sorted list has the elements of the set and is in the order.
- S0. A normalized record and the reference's reading of the raw one agree
  (`RecordAgrees`); the extracted Evidence is that of the records inside the replay window
  (`EvidenceIsAll`), and its types in a window are the reference's (`TypesAgree`). Naming, rounding
  and publication keep what was found (`NamedFinds`): a fusion time the stopping trace accepts has
  whole milliseconds.
- The fast path. Hits are the qualifying rows, numbered (`HitsAreAll`); the earliest owned hit is
  the first in the order of the selection (`EarliestIsFirst`), and a miss that the adapter
  accepts has no hit of the host.
- R1 Evidence. The selector walks from the terminal to its parents with a set of what it has
  seen; the extractor walks the other way and checks again. Both are compared with a *line*:
  a sequence of processes, each the parent of the one before it. A line is given by where it
  starts (`LineIsOne`), the walk takes its steps (`StepIsParent`, `WalkIsLine`), a chain of the
  reference is a line read from its other end (`ChainIsLine`, `ChainIsOne`), and the
  reconstruction finds the line the selector walked (`ReconstructedIsLine`). What is refused is
  what is not told apart or has no line of named processes (`RefusedIsUnclear`, `ClearIsLine`), and
  the Evidence of a line is the Evidence expected (`MadeIsExpected`). What is published of a line
  passes the loader's own checks (`FilesOfLine`).

**Decisions** (`DecisionSystemProofs`): `AnswersAreRight`, `DecisionsAreReference`.
`DecisionIsReference` speaks of the stored rows only; a row is stored by a transaction that
was filled from what a command held, several steps after it had read its inputs, and a handoff
may take its decision from a record of an earlier process. `AnswersRight` follows the
answer through all of them, on top of `CommandsInv`: files (`FilesRight`: a selection that no hand
wrote is one the tool made over the hits of the rows the trace names, whatever is rewritten
beside it), invocations (`InvocationsRight`: the fusion is the reference's, later the fast result
too, over the rows that were read), commands and traces of handoffs (`HandoffsRight`: what a
command fuses, decides or finds recorded is right *under its identity*, at the availability time
the validation fixed and with its configuration), open transactions and rows (`StoredRight`).
`FilesStep`, `PipelineRight` and `HandoffRight` have one step per action; `PersistRight` and
`PersistHandoffRight` hand the answer to the store, and `StoreRight` carries it to the
row. `NamedResult` of a fusion that found a time and `Combine` give the fields the reference
names (`CombinedFields`, `TeIsEarliest`). The assumptions on the scenarios are in
`DecisionSystem`: `RunAssumption` (records and rows have times, an executable has one of the
three classes, a selection that is there at the start and not written by hand was made by the tool)
and `EpisodeAssumption` (published Evidence has a time and an id that compare, a command's
configuration passed its validation, and equal versions mean equal configurations: the code
compares `fusion_config_sha256`, `pipeline/r1_fusion_handoff.py:466`, for which the version stands
in the model). `MCDecision` extends the module, so TLC evaluates them on the run's scenarios.

**The evidence of a Run** (`DecisionSystemProofs`): `EvidenceIsSound`, `RunEvidenceIsReference`.
`EvidenceIsReference` speaks of finished states and files, and of what every later process would
restore. Behind it is `EvidenceSound`, which does not say what the Evidence is, only
where states and files come from.

- `Derived`: a state is what *one* call makes of the chunks and the close it holds, whatever calls
  led to it. That is why order, splitting and repetition play no part, and why a recovery
  that replays the saved inputs computes nothing new (`ReplayedIs`) and, from a final state,
  that state (`SavedReturns`).
- `LedgerSound` with `ChunksAgree`: committed chunks of one partition differ in id and number and
  agree on events, so their union is a batch (`BatchOfChunks`). `UnderLedger`: a state with a
  close has the ledger's close and none but its chunks, and a closed ledger admits no more. With
  coverage, the events held are the sealed ones (`CoveredAreSealed`).
- `FinalSound`: a saved final state stays. `ArtifactsSound`: the files were made from it, the
  summary after the Evidence.

TLC checked `EvidenceSound` as an invariant of the run `decision` before it was proved. It is
kept by each step of `Feeding`, with a lemma per action (`FeedingSound`); `SoundIsReference`
then computes: a finalized state went through `Finalize` with a batch that `ExtractionIsReference`
is about, and `AcceptedIs` gives the boundary and the time the Evidence is available.

The assumptions are `FeedAssumption` with `FeedTyped` (chunks, closes and proofs have passed the
models that read them: numbers from one, ids of a chunk unlike one another, events of the
chunk's run and host, finitely many), `NoneIsNoOutcome` and `NoneIsNoDiagnostic` (the value `None`
is none of the names of an outcome). `RunEvidenceIsReference` has one hypothesis beside
`NullIsNoFunction`: `NullHoldsNoFunction`, that `None` is no set of records. TLA+ lets every value be a
set; for Python's None and TLC's model value it goes without saying.

## Plan

1. The Worker with its stores and its proofs (done).
2. The R1 stream ledger and its proofs (done).
3. `R1Spool` over the ledger, with its proofs and the refinement (done).
4. `R1Consumer` over the spool, with its proofs and the composition (done).
5. Record finality from the channel to the proof, with its promise (done).
6. The decision store, its abstract history and their proofs; S0 pipeline, R1 handoff and
   causal replay over it (done).
7. Time-series telemetry and its reading (done).
8. Fusion, episodes, decision table, correlation and evaluation against references (done).
9. The proofs of the position run, with its refinement (done).
10. Telemetry's order from the collector to the stored row, the exactness of rows without
   a mark and of what the dashboard sums over them, receipts and completed rows of the Worker (proved).
11. Markers of runner, replay and handoff, the store inside the composed system, and the
   history rebuilt from the links (proved).
12. Policy, replays, extraction and fast path against their references, and with them every
   stored decision (proved).
13. Left: the position proof path inside the consumer; the stage throttling of the runtime
   rows.

## Not modelled

- **Storage migrations**: all pending files run in one transaction under one advisory lock, so
  two starters are serialized and a failure leaves nothing. What is left is a comparison of
  SQL catalogues.
- **Evaluation baselines**: machine learning on floats.
- **`s0_validation`, `r1_collection_window`, `r1_pilot_validation`**: one-shot checks of a
  finished directory (hashes, names, time formats, profiles) without state.
- **Split manifests, dataset usage, fake runs**: bookkeeping over lists of runs.
- **Dashboard routes, serialization and browser code**; the scripts that drive Windows hosts;
  the demo.
- **Runtime status throttling and stage progress**: no decision depends on them. Without a
  property as well: `update_status` of the archive publication is unconditional (see the
  Worker), and a Runtime row stays `running` when archive generation raises, since that is
  no stage (`pipeline/standalone.py:350`).
- **Liveness** of the position and decision runs: their commands are started by operators,
  and the code promises no retry.
