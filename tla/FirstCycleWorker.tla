--------------------------- MODULE FirstCycleWorker ---------------------------
(***************************************************************************)
(* The First Cycle SQS Worker (pipeline/sqs_worker.py) with the four       *)
(* stores it keeps consistent:                                             *)
(*   - the SQS source queue and its dead-letter queue (external),          *)
(*   - PostgreSQL: the run and decision rows, the S3 object receipts, the  *)
(*     R1 archive outbox and the Runtime status rows,                      *)
(*   - the transaction-scoped advisory locks the Worker serialises on,     *)
(*   - the immutable R1 archive in S3 (external).                          *)
(*                                                                         *)
(* Several Worker processes run the same loop.  Only committed database    *)
(* state is a variable; what an open transaction would write is kept in    *)
(* the job of the Worker that owns the transaction.  Runtime status goes   *)
(* through a second connection that commits on its own and is best effort. *)
(***************************************************************************)
EXTENDS Naturals, FiniteSets

CONSTANTS
    Workers,        \* Worker processes (ECS tasks)
    Messages,       \* SQS messages
    Objects,        \* S3 object versions: bucket + key + eTag
    Records,        \* [Messages -> SUBSET Objects]: the unique inputs of a message
    Malformed,      \* messages parse_s3_sysmon_inputs rejects
    Host,           \* [Objects -> hosts]: the entity of the object's records
    Verdict,        \* [Objects -> ...]: content of the DecisionResult, run_id aside
    Payload,        \* [Objects -> ...]: bytes of the R1 artifacts, run_id aside
    Foreign,        \* runs whose archive key already holds other bytes
    RunCount,       \* run ids available on one UTC date (999 in the code)
    MaxReceive,     \* maxReceiveCount of the redrive policy
    R1Enabled,      \* the R1 production configuration is present
    Faults,         \* which environment faults may happen
    MaxCrashes,     \* bound on Worker crashes
    None            \* absent value

FaultKinds == {"s3", "stage", "telemetry", "commit", "ambiguous"}

Runs == 1..RunCount

(***************************************************************************)
(* A message without records is S3's test event.                           *)
(***************************************************************************)
ASSUME ConstantsAssumption ==
    /\ Records \in [Messages -> SUBSET Objects]
    /\ Malformed \subseteq Messages
    /\ DOMAIN Host = Objects
    /\ DOMAIN Verdict = Objects
    /\ DOMAIN Payload = Objects
    /\ Foreign \subseteq Runs
    /\ RunCount \in Nat
    /\ MaxReceive \in Nat \ {0}
    /\ MaxCrashes \in Nat
    /\ R1Enabled \in BOOLEAN
    /\ Faults \subseteq FaultKinds
    /\ None \notin Objects \cup Workers \cup Messages
    /\ None \notin Runs
    /\ \A o \in Objects : None # Payload[o]

VARIABLES
    mst,        \* state of each SQS message
    rcv,        \* receive count of each SQS message
    receipts,   \* s3_object_receipts: object version -> run
    runs,       \* runs/decisions: run -> object whose results it holds
    pubs,       \* r1_archive_publications: run -> status and payload
    runtime,    \* pipeline_runtime_status: (run, entity) -> execution, state
    lock,       \* advisory lock of each object version
    dlock,      \* advisory lock of each decision id
    archive,    \* S3 archive: run -> the two artifacts
    pc,         \* control point of each Worker
    job,        \* local state of each Worker
    execs,      \* executions started so far; also their start order
    crashes     \* crashes so far

queueVars == <<mst, rcv>>
dbVars    == <<receipts, runs, pubs>>
lockVars  == <<lock, dlock>>
vars == <<mst, rcv, receipts, runs, pubs, runtime, lock, dlock, archive,
          pc, job, execs, crashes>>

Hosts    == {Host[o] : o \in Objects}
Scopes   == Runs \X Hosts
Payloads == {Payload[o] : o \in Objects}
NoJob == [msg |-> None, tok |-> 0, todo |-> {}, obj |-> None, run |-> None,
          exec |-> 0, fresh |-> FALSE, writes |-> FALSE, payload |-> None,
          status |-> None]

Statuses == {"pending", "retryable", "published", "failed"}
States   == {"running", "completed", "failed"}
PCs == {"idle", "acquire", "execute", "stages", "persist", "commit", "publish",
        "put_evidence", "put_summary", "mark", "complete", "delete"}

Publication == [status : Statuses, payload : Payloads]
RuntimeRow  == [exec : Nat, state : States]
Artifacts   == [evidence : Payloads \cup {None, "foreign"},
                summary  : Payloads \cup {None, "foreign"}]
Job == [msg : Messages \cup {None}, tok : Nat, todo : SUBSET Objects,
        obj : Objects \cup {None}, run : Runs \cup {None}, exec : Nat,
        fresh : BOOLEAN, writes : BOOLEAN,
        payload : Payloads \cup {None}, status : Statuses \cup {None}]

\* A SQL row is never NULL.
ASSUME NoneIsNoRow == None \notin Publication \cup RuntimeRow

Init ==
    /\ mst = [m \in Messages |-> "visible"]
    /\ rcv = [m \in Messages |-> 0]
    /\ receipts = [o \in Objects |-> None]
    /\ runs = [r \in Runs |-> None]
    /\ pubs = [r \in Runs |-> None]
    /\ runtime = [s \in Scopes |-> None]
    /\ lock = [o \in Objects |-> None]
    /\ dlock = [r \in Runs |-> None]
    /\ archive = [r \in Runs |->
                    [evidence |-> IF r \in Foreign THEN "foreign" ELSE None,
                     summary  |-> None]]
    /\ pc = [w \in Workers |-> "idle"]
    /\ job = [w \in Workers |-> NoJob]
    /\ execs = 0
    /\ crashes = 0

-----------------------------------------------------------------------------
(***************************************************************************)
(* Ending a transaction, and what the exception paths share.               *)
(***************************************************************************)

\* Commit, rollback and connection loss all release pg_advisory_xact_lock.
ReleaseLocks(w) ==
    /\ lock'  = [o \in Objects |-> IF lock[o] = w THEN None ELSE lock[o]]
    /\ dlock' = [r \in Runs |-> IF dlock[r] = w THEN None ELSE dlock[r]]

\* Mutant: an except block that forgets _rollback_receipt_store.
RetainWithoutRollback(w) ==
    /\ pc'  = [pc EXCEPT ![w] = "idle"]
    /\ job' = [job EXCEPT ![w] = NoJob]
    /\ UNCHANGED lockVars

\* run_worker's except blocks: roll back and leave the message in the queue.
Retain(w) ==
    /\ pc'  = [pc EXCEPT ![w] = "idle"]
    /\ job' = [job EXCEPT ![w] = NoJob]
    /\ ReleaseLocks(w)

\* Mutant: an upsert without its WHERE clause.
AcceptsAnySnapshot(cur, e, state) == TRUE

\* The WHERE clause of the Runtime upsert.  Start order stands for started_at.
RuntimeAccepts(cur, e, state) ==
    \/ cur = None
    \/ cur.exec = e /\ (cur.state = "running" \/ cur.state = state)
    \/ cur.exec < e

\* A tracker snapshot saved by the observer, or lost: telemetry is best effort.
SaveRuntime(w, state) ==
    LET s == <<job[w].run, Host[job[w].obj]>>
    IN  \/ runtime' = [runtime EXCEPT ![s] =
                         IF RuntimeAccepts(@, job[w].exec, state)
                         THEN [exec |-> job[w].exec, state |-> state] ELSE @]
        \/ "telemetry" \in Faults /\ UNCHANGED runtime

\* Mutant: the loop over the inputs returns after the first one.
FirstInputOnly(w) ==
    /\ pc'  = [pc EXCEPT ![w] = "delete"]
    /\ job' = [job EXCEPT ![w] = [NoJob EXCEPT !.msg = job[w].msg,
                                               !.tok = job[w].tok]]

\* for input_object in _unique_inputs(...): the next one, or the message is done.
NextInput(w) ==
    /\ pc'  = [pc EXCEPT ![w] = IF job[w].todo = {} THEN "delete" ELSE "acquire"]
    /\ job' = [job EXCEPT ![w] =
                 [NoJob EXCEPT !.msg = job[w].msg, !.tok = job[w].tok,
                               !.todo = job[w].todo]]

-----------------------------------------------------------------------------
(***************************************************************************)
(* SQS                                                                     *)
(***************************************************************************)

\* A message received MaxReceive times is the redrive policy's.
Receivable(m) == mst[m] = "visible" /\ rcv[m] < MaxReceive

\* receive_message, then the classification of the body in _process_message.
\* A malformed body raises PermanentWorkerError and leaves the message alone.
ReceiveMessage(w, m) ==
    /\ pc[w] = "idle"
    /\ Receivable(m)
    /\ mst' = [mst EXCEPT ![m] = "inflight"]
    /\ rcv' = [rcv EXCEPT ![m] = @ + 1]
    /\ IF m \in Malformed
       THEN UNCHANGED <<pc, job>>
       ELSE /\ pc' = [pc EXCEPT ![w] =
                        IF Records[m] = {} THEN "delete" ELSE "acquire"]
            /\ job' = [job EXCEPT ![w] =
                         [NoJob EXCEPT !.msg = m, !.tok = rcv[m] + 1,
                                       !.todo = Records[m]]]
    /\ UNCHANGED <<dbVars, runtime, lockVars, archive, execs, crashes>>

\* The visibility timeout may expire while a Worker still holds the message.
VisibilityTimeout(m) ==
    /\ mst[m] = "inflight"
    /\ mst' = [mst EXCEPT ![m] = "visible"]
    /\ UNCHANGED <<rcv, dbVars, runtime, lockVars, archive, pc, job, execs,
                   crashes>>

\* The redrive policy moves a message received MaxReceive times to the DLQ.
Redrive(m) ==
    /\ mst[m] = "visible"
    /\ rcv[m] = MaxReceive
    /\ mst' = [mst EXCEPT ![m] = "dlq"]
    /\ UNCHANGED <<rcv, dbVars, runtime, lockVars, archive, pc, job, execs,
                   crashes>>

\* delete_message.  SQS honours the handle of the latest receive and may
\* ignore an older one.
DeleteMessage(w) ==
    /\ pc[w] = "delete"
    /\ LET m == job[w].msg
       IN  \/ mst[m] \in {"visible", "inflight"}
              /\ mst' = [mst EXCEPT ![m] = "deleted"]
           \/ (mst[m] # "inflight" \/ rcv[m] # job[w].tok) /\ UNCHANGED mst
    /\ pc'  = [pc EXCEPT ![w] = "idle"]
    /\ job' = [job EXCEPT ![w] = NoJob]
    /\ UNCHANGED <<rcv, dbVars, runtime, lockVars, archive, execs, crashes>>

-----------------------------------------------------------------------------
(***************************************************************************)
(* One input object                                                        *)
(***************************************************************************)

\* Mutant: the receipt is looked up without taking the advisory lock.
LockIgnored(o) == TRUE

LockFree(o) == lock[o] = None

\* acquire_execution blocks on the advisory lock, then looks for a receipt.
\* With a receipt the input is skipped; a publication of its run is retried
\* first, still under the lock, and any other skip releases it.
AcquireObject(w, o) ==
    LET rest  == job[w].todo \ {o}
        prior == receipts[o]
    IN  /\ LockFree(o)
        /\ IF prior = None
           THEN /\ pc' = [pc EXCEPT ![w] = "execute"]
                /\ job' = [job EXCEPT ![w] = [@ EXCEPT !.obj = o, !.todo = rest]]
                /\ lock' = [lock EXCEPT ![o] = w]
           ELSE IF R1Enabled /\ pubs[prior] # None
           THEN /\ pc' = [pc EXCEPT ![w] = "publish"]
                /\ job' = [job EXCEPT ![w] =
                             [@ EXCEPT !.obj = o, !.todo = rest, !.run = prior,
                                       !.payload = pubs[prior].payload,
                                       !.status = pubs[prior].status]]
                /\ lock' = [lock EXCEPT ![o] = w]
           ELSE /\ pc' = [pc EXCEPT ![w] =
                            IF rest = {} THEN "delete" ELSE "acquire"]
                /\ job' = [job EXCEPT ![w].todo = rest]
                /\ UNCHANGED lock

AcquireExecution(w) ==
    /\ pc[w] = "acquire"
    /\ \E o \in job[w].todo : AcquireObject(w, o)
    /\ UNCHANGED <<queueVars, dbVars, runtime, dlock, archive, execs, crashes>>

\* _download_sysmon_jsonl fails, for good or transiently: no run exists yet.
DownloadFails(w) ==
    /\ pc[w] = "execute"
    /\ "s3" \in Faults
    /\ Retain(w)
    /\ UNCHANGED <<queueVars, dbVars, runtime, archive, execs, crashes>>

\* Mutant: run ids are handed out without looking at the stored runs.
AllRuns == Runs

\* _allocate_identifiers: the first run id with no committed run.  The output
\* root is private to the Worker, so the directory does not reserve the id.
FreeRuns == {r \in Runs : runs[r] = None}

AllocateIdentifiers(w) ==
    /\ pc[w] = "execute"
    /\ \E r \in FreeRuns :
         /\ \A q \in FreeRuns : r <= q
         /\ job' = [job EXCEPT ![w] = [@ EXCEPT !.run = r, !.exec = execs + 1]]
    /\ pc' = [pc EXCEPT ![w] = "stages"]
    /\ execs' = execs + 1
    /\ UNCHANGED <<queueVars, dbVars, runtime, lockVars, archive, crashes>>

\* No run id is left for the date: an unclassified error, so a retry.
AllocationExhausted(w) ==
    /\ pc[w] = "execute"
    /\ FreeRuns = {}
    /\ Retain(w)
    /\ UNCHANGED <<queueVars, dbVars, runtime, archive, execs, crashes>>

\* Mutant: the Runtime is completed when the stages end, before any commit.
CompleteAfterStages(w) ==
    /\ pc[w] = "stages"
    /\ SaveRuntime(w, "completed")
    /\ pc' = [pc EXCEPT ![w] = "persist"]
    /\ UNCHANGED <<queueVars, dbVars, lockVars, archive, job, execs, crashes>>

\* start_stage of the pipeline stages publishes running snapshots.
RunStages(w) ==
    /\ pc[w] = "stages"
    /\ SaveRuntime(w, "running")
    /\ pc' = [pc EXCEPT ![w] = "persist"]
    /\ UNCHANGED <<queueVars, dbVars, lockVars, archive, job, execs, crashes>>

\* A stage raises: _run_stage marks the Runtime failed and re-raises.
StageFails(w) ==
    /\ pc[w] = "persist"
    /\ "stage" \in Faults
    /\ SaveRuntime(w, "failed")
    /\ Retain(w)
    /\ UNCHANGED <<queueVars, dbVars, archive, execs, crashes>>

\* Generating the R1 archive is no stage: when it raises, no terminal snapshot
\* is published and the Runtime row stays running.
ArchiveGenerationFails(w) ==
    /\ pc[w] = "persist"
    /\ R1Enabled
    /\ "stage" \in Faults
    /\ Retain(w)
    /\ UNCHANGED <<queueVars, dbVars, runtime, archive, execs, crashes>>

\* Mutant: the scope of the stored decision is not compared.
SameVerdict(o, p) == Verdict[o] = Verdict[p]

\* A committed decision of the same id blocks a different result, but an
\* equal one is taken for an idempotent replay.
SameDecision(o, p) == Host[o] = Host[p] /\ Verdict[o] = Verdict[p]

\* _persist under the decision id lock: insert the results, or return early.
Persist(w) ==
    /\ pc[w] = "persist"
    /\ LET r == job[w].run
       IN  /\ dlock[r] = None
           /\ runs[r] # None => SameDecision(runs[r], job[w].obj)
           /\ dlock' = [dlock EXCEPT ![r] = w]
           /\ job' = [job EXCEPT ![w].writes = (runs[r] = None)]
    /\ pc' = [pc EXCEPT ![w] = "commit"]
    /\ UNCHANGED <<queueVars, dbVars, runtime, lock, archive, execs, crashes>>

\* DecisionIntegrityError: the decision id exists with other content or scope.
PersistConflict(w) ==
    /\ pc[w] = "persist"
    /\ dlock[job[w].run] = None
    /\ runs[job[w].run] # None
    /\ ~SameDecision(runs[job[w].run], job[w].obj)
    /\ SaveRuntime(w, "failed")
    /\ Retain(w)
    /\ UNCHANGED <<queueVars, dbVars, archive, execs, crashes>>

\* save_pending finds another payload under the run id: fail_runtime, retain.
SavePendingConflict(w) ==
    /\ pc[w] = "commit"
    /\ R1Enabled
    /\ pubs[job[w].run] # None
    /\ pubs[job[w].run].payload # Payload[job[w].obj]
    /\ SaveRuntime(w, "failed")
    /\ Retain(w)
    /\ UNCHANGED <<queueVars, dbVars, archive, execs, crashes>>

\* Mutant: the receipt is committed without the results.
CommitReceiptOnly(w) ==
    /\ receipts' = [receipts EXCEPT ![job[w].obj] = job[w].run]
    /\ pubs' = IF R1Enabled /\ pubs[job[w].run] = None
               THEN [pubs EXCEPT ![job[w].run] =
                       [status |-> "pending", payload |-> Payload[job[w].obj]]]
               ELSE pubs
    /\ UNCHANGED runs

\* What the commit of save_success makes durable: results, outbox row, receipt.
CommitWrites(w) ==
    LET r == job[w].run
        o == job[w].obj
    IN  /\ runs' = IF job[w].writes THEN [runs EXCEPT ![r] = o] ELSE runs
        /\ pubs' = IF R1Enabled /\ pubs[r] = None
                   THEN [pubs EXCEPT ![r] =
                           [status |-> "pending", payload |-> Payload[o]]]
                   ELSE pubs
        /\ receipts' = [receipts EXCEPT ![o] = r]

PendingSaved(w) ==
    R1Enabled /\ pubs[job[w].run] # None =>
        pubs[job[w].run].payload = Payload[job[w].obj]

\* save_pending, then save_success.  After it the object lock is free, and the
\* archive is published outside any transaction.
SaveSuccess(w) ==
    /\ pc[w] = "commit"
    /\ PendingSaved(w)
    /\ CommitWrites(w)
    /\ ReleaseLocks(w)
    /\ pc' = [pc EXCEPT ![w] = IF R1Enabled THEN "publish" ELSE "complete"]
    /\ job' = IF R1Enabled
              THEN [job EXCEPT ![w] =
                      [@ EXCEPT !.fresh = TRUE,
                                !.payload = pubs'[job[w].run].payload,
                                !.status = pubs'[job[w].run].status]]
              ELSE [job EXCEPT ![w].fresh = TRUE]
    /\ UNCHANGED <<queueVars, runtime, archive, execs, crashes>>

\* The commit raises.  Either the server rolled back, or it had committed and
\* only the answer was lost; the Worker calls fail_runtime in both cases.
SaveSuccessFails(w) ==
    /\ pc[w] = "commit"
    /\ PendingSaved(w)
    /\ \/ "commit" \in Faults /\ UNCHANGED dbVars
       \/ "ambiguous" \in Faults /\ CommitWrites(w)
    /\ SaveRuntime(w, "failed")
    /\ Retain(w)
    /\ UNCHANGED <<queueVars, archive, execs, crashes>>

-----------------------------------------------------------------------------
(***************************************************************************)
(* Publishing the R1 archive                                               *)
(***************************************************************************)

\* An error of the publication: inside the runtime context of a fresh run a
\* permanent one also fails the Runtime.
PublicationRejected(w) ==
    /\ IF job[w].fresh THEN SaveRuntime(w, "failed") ELSE UNCHANGED runtime
    /\ Retain(w)

\* Mutant: a transient upload error is recorded as terminal.
RecordTerminal(w, status) ==
    pubs' = [pubs EXCEPT ![job[w].run].status = "failed"]

\* update_status; recording a failure may itself fail and is then dropped.
RecordFailure(w, status) ==
    \/ pubs' = [pubs EXCEPT ![job[w].run].status = status]
    \/ "commit" \in Faults /\ UNCHANGED pubs

\* A publication in terminal failed state is refused before any upload.
RefuseFailedPublication(w) ==
    /\ pc[w] = "publish"
    /\ job[w].status = "failed"
    /\ PublicationRejected(w)
    /\ UNCHANGED <<queueVars, dbVars, archive, execs, crashes>>

StartPublication(w) ==
    /\ pc[w] = "publish"
    /\ job[w].status # "failed"
    /\ pc' = [pc EXCEPT ![w] = "put_evidence"]
    /\ UNCHANGED <<queueVars, dbVars, runtime, lockVars, archive, job, execs,
                   crashes>>

\* Evidence is uploaded first, the summary last.
Part(w) == IF pc[w] = "put_evidence" THEN "evidence" ELSE "summary"
AfterPut(w) == IF pc[w] = "put_evidence" THEN "put_summary" ELSE "mark"

\* Mutant: an existing object is taken as ours without comparing its bytes.
AnyExisting(w) == TRUE

Stored(w) == archive[job[w].run][Part(w)]

\* put_object with IfNoneMatch="*", then the read back of what is stored.
Verified(w) == Stored(w) \in {None, job[w].payload}

Upload(w) ==
    archive' = IF Stored(w) = None
               THEN [archive EXCEPT ![job[w].run][Part(w)] = job[w].payload]
               ELSE archive

PutObject(w) ==
    /\ pc[w] \in {"put_evidence", "put_summary"}
    /\ Verified(w)
    /\ Upload(w)
    /\ pc' = [pc EXCEPT ![w] = AfterPut(w)]
    /\ UNCHANGED <<queueVars, dbVars, runtime, lockVars, job, execs, crashes>>

\* R1ArchiveConflictError: the key holds other bytes; terminal for the outbox.
PutConflict(w) ==
    /\ pc[w] \in {"put_evidence", "put_summary"}
    /\ ~Verified(w)
    /\ RecordFailure(w, "failed")
    /\ PublicationRejected(w)
    /\ UNCHANGED <<queueVars, receipts, runs, archive, execs, crashes>>

\* R1ArchiveUploadError: the object may or may not have reached S3.  The
\* receipt is durable, so the Runtime is left running for the retry.
PutFails(w) ==
    /\ pc[w] \in {"put_evidence", "put_summary"}
    /\ "s3" \in Faults
    /\ Upload(w) \/ UNCHANGED archive
    /\ RecordFailure(w, "retryable")
    /\ Retain(w)
    /\ UNCHANGED <<queueVars, receipts, runs, runtime, execs, crashes>>

RuntimeFailed(r) ==
    \E h \in Hosts : runtime[<<r, h>>] # None /\ runtime[<<r, h>>].state = "failed"

\* One commit: the outbox row is published and running Runtime rows complete.
MarkWrites(r) ==
    /\ pubs' = [pubs EXCEPT ![r].status = "published"]
    /\ runtime' = [s \in Scopes |->
                     IF s[1] = r /\ runtime[s] # None /\ runtime[s].state = "running"
                     THEN [runtime[s] EXCEPT !.state = "completed"]
                     ELSE runtime[s]]

MarkPublished(w) ==
    /\ pc[w] = "mark"
    /\ ~RuntimeFailed(job[w].run)
    /\ MarkWrites(job[w].run)
    /\ ReleaseLocks(w)
    /\ IF job[w].fresh
       THEN pc' = [pc EXCEPT ![w] = "complete"] /\ UNCHANGED job
       ELSE NextInput(w)
    /\ UNCHANGED <<queueVars, receipts, runs, archive, execs, crashes>>

\* A terminal failed Runtime of the run refuses the transition, or its commit
\* raises, applied or not: retry later.
MarkPublishedFails(w) ==
    /\ pc[w] = "mark"
    /\ \/ /\ RuntimeFailed(job[w].run) \/ "commit" \in Faults
          /\ UNCHANGED <<pubs, runtime>>
       \/ /\ "ambiguous" \in Faults
          /\ ~RuntimeFailed(job[w].run)
          /\ MarkWrites(job[w].run)
    /\ Retain(w)
    /\ UNCHANGED <<queueVars, receipts, runs, archive, execs, crashes>>

\* execution.complete_runtime() once the receipt (and archive) are durable.
CompleteRuntime(w) ==
    /\ pc[w] = "complete"
    /\ SaveRuntime(w, "completed")
    /\ NextInput(w)
    /\ UNCHANGED <<queueVars, dbVars, lockVars, archive, execs, crashes>>

\* The task dies: its transaction is gone, its message stays in flight.
Crash(w) ==
    /\ pc[w] # "idle"
    /\ crashes < MaxCrashes
    /\ crashes' = crashes + 1
    /\ Retain(w)
    /\ UNCHANGED <<queueVars, dbVars, runtime, archive, execs>>

-----------------------------------------------------------------------------
Step(w) ==
    \/ \E m \in Messages : ReceiveMessage(w, m)
    \/ AcquireExecution(w)
    \/ DownloadFails(w)
    \/ AllocateIdentifiers(w)
    \/ AllocationExhausted(w)
    \/ RunStages(w)
    \/ StageFails(w)
    \/ ArchiveGenerationFails(w)
    \/ Persist(w)
    \/ PersistConflict(w)
    \/ SavePendingConflict(w)
    \/ SaveSuccess(w)
    \/ SaveSuccessFails(w)
    \/ RefuseFailedPublication(w)
    \/ StartPublication(w)
    \/ PutObject(w)
    \/ PutConflict(w)
    \/ PutFails(w)
    \/ MarkPublished(w)
    \/ MarkPublishedFails(w)
    \/ CompleteRuntime(w)
    \/ DeleteMessage(w)

Queue(m) == VisibilityTimeout(m) \/ Redrive(m)

Next ==
    \/ \E w \in Workers : Step(w) \/ Crash(w)
    \/ \E m \in Messages : Queue(m)

Spec == Init /\ [][Next]_vars

\* run_worker loops for ever and ECS restarts a dead task; SQS expires
\* visibility and applies the redrive policy.  Crashes are never forced.
Fairness ==
    /\ \A w \in Workers : WF_vars(Step(w))
    /\ \A m \in Messages : WF_vars(Queue(m))

FairSpec == Spec /\ Fairness

-----------------------------------------------------------------------------
(***************************************************************************)
(* Correctness                                                             *)
(***************************************************************************)

\* Every store and every Worker holds values of its kind.
TypeOK ==
    /\ mst \in [Messages -> {"visible", "inflight", "deleted", "dlq"}]
    /\ rcv \in [Messages -> 0..MaxReceive]
    /\ receipts \in [Objects -> Runs \cup {None}]
    /\ runs \in [Runs -> Objects \cup {None}]
    /\ pubs \in [Runs -> Publication \cup {None}]
    /\ runtime \in [Scopes -> RuntimeRow \cup {None}]
    /\ lock \in [Objects -> Workers \cup {None}]
    /\ dlock \in [Runs -> Workers \cup {None}]
    /\ archive \in [Runs -> Artifacts]
    /\ pc \in [Workers -> PCs]
    /\ job \in [Workers -> Job]
    /\ execs \in Nat
    /\ crashes \in 0..MaxCrashes

\* sqs_worker._process_message with the receipt lock: however often an object
\* version is announced, and whatever crashes, its results are persisted under
\* at most one run.
AtMostOneRunPerObject ==
    \A r, q \in Runs : runs[r] # None /\ runs[r] = runs[q] => r = q

\* run_worker deletes only finished messages: every object a deleted message
\* announced has a durable success receipt, so no upload is silently dropped.
DeletedIsReceipted ==
    \A m \in Messages : mst[m] = "deleted" =>
        m \notin Malformed /\ \A o \in Records[m] : receipts[o] # None

\* persist_s0_results and save_success share one commit: the run a receipt
\* names holds the results of that very object version.
ReceiptHoldsOwnResults ==
    \A o \in Objects : receipts[o] # None => runs[receipts[o]] = o

\* _persist takes an equal stored decision for a replay, so two uploads may
\* share a run; but a receipt never names a run that is absent, or that holds
\* another host's or another verdict's decision.
ReceiptNamesDecision ==
    \A o \in Objects : receipts[o] # None =>
        runs[receipts[o]] # None /\ SameDecision(runs[receipts[o]], o)

\* publish_r1_archive and mark_published: an outbox row is published only when
\* both artifacts in S3 are byte for byte the durable payload.
PublishedArchiveComplete ==
    \A r \in Runs : pubs[r] # None /\ pubs[r].status = "published" =>
        archive[r] = [evidence |-> pubs[r].payload, summary |-> pubs[r].payload]

\* publish_r1_archive uploads the summary last: a reader that finds a summary
\* finds the Evidence it summarises, even after a crash between the uploads.
SummaryImpliesEvidence ==
    \A r \in Runs : archive[r].summary # None =>
        archive[r].evidence = archive[r].summary

\* Conditional uploads of concurrent Workers and retries never collide with
\* each other: only bytes from outside make a publication fail for good.
ConflictOnlyFromOutside ==
    \A r \in Runs : pubs[r] # None /\ pubs[r].status = "failed" => r \in Foreign

\* complete_runtime and mark_published: a Runtime is completed only once the
\* results of its own (run, entity) scope are committed.
CompletedIsCommitted ==
    \A r \in Runs, h \in Hosts :
        runtime[<<r, h>>] # None /\ runtime[<<r, h>>].state = "completed" =>
            runs[r] # None /\ Host[runs[r]] = h

\* mark_published: no Runtime row stands in the way of finishing an archive
\* whose receipt and payload are durable.
DurablePayloadPublishable ==
    \A r \in Runs : pubs[r] # None /\ pubs[r].status # "failed" =>
        ~RuntimeFailed(r)

\* What is durable is never rewritten: receipts, results, outbox payloads and
\* archive objects are write-once, and a terminal Runtime snapshot is final
\* for its execution and never replaced by an older execution.
DurableNeverRewritten ==
    [][/\ \A o \in Objects : receipts[o] # None => receipts'[o] = receipts[o]
       /\ \A r \in Runs :
            /\ runs[r] # None => runs'[r] = runs[r]
            /\ pubs[r] # None =>
                 pubs'[r] # None /\ pubs'[r].payload = pubs[r].payload
            /\ \A part \in {"evidence", "summary"} :
                 archive[r][part] # None => archive'[r][part] = archive[r][part]
       /\ \A s \in Scopes : runtime[s] # None =>
            /\ runtime'[s] # None
            /\ runtime'[s].exec >= runtime[s].exec
            /\ runtime'[s].exec = runtime[s].exec /\ runtime[s].state # "running"
                  => runtime'[s] = runtime[s]
      ]_vars

\* run_worker with the redrive policy: no message is retried for ever; each is
\* eventually deleted or dead-lettered, crashes and faults included.
EventuallySettled ==
    \A m \in Messages : <>(mst[m] \in {"deleted", "dlq"})

\* Without faults every announced upload is processed, however the Workers
\* interleave: losing a race costs a retry, never the upload.
EventuallyReceipted ==
    \A m \in Messages \ Malformed : \A o \in Records[m] : <>(receipts[o] # None)

=============================================================================
