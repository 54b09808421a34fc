-------------------------- MODULE PipelineTelemetry --------------------------
(***************************************************************************)
(* Time-series telemetry of pipeline executions: a collector counts the    *)
(* records of an attempt in one-second buckets, a session flushes its      *)
(* snapshots at callbacks, an observer keeps one pending snapshot and      *)
(* writes it to PostgreSQL, and the dashboard sums what is stored.  None   *)
(* of it may change the outcome of the attempt, so every error ends in a   *)
(* quality mark or in a disabled part.                                     *)
(*                                                                         *)
(* watch is what the attempts are given and nobody writes: the attempts as *)
(*   execution -> [run, entity, input, total]                              *)
(* with what their clocks and the database may answer: times, monos,       *)
(* ticks, outcomes.  An input is [supplied, file, records, verified].      *)
(* Content stands for its digest.                                          *)
(***************************************************************************)
EXTENDS Values, Integers, Sequences, FiniteSets, FiniteSetsExt, Functions, Folds

CONSTANTS Executions,   \* execution_id
          Second,       \* clock units in a bucket
          MaxBuckets, MaxRecords, MaxFailures,
          StageFlushes  \* stages after the normalization

ASSUME TelemetryLimits ==
    {Second, MaxBuckets, MaxRecords, MaxFailures, StageFlushes} \subseteq Nat \ {0}

\* The absence of an error is none of the errors.
ASSUME NoneIsNoError == None \notin {"internal_error", "wall_clock_regression", "buffer_limit"}

\* The absence of a duration is no duration, not even that of nothing.
ASSUME NoneIsNoDuration == None \notin Nat

VARIABLES watch,    \* the attempts and their environment, or None
          attempt,  \* execution -> [phase, left, collector, session, observer, log],
                    \* log being what really happened to its records
          rows,     \* pipeline_telemetry_executions with their buckets
          late      \* execution -> a row whose commit the server has not ended

telemetryVars == <<attempt, rows, late>>

-----------------------------------------------------------------------------
(***************************************************************************)
(* The collector                                                           *)
(***************************************************************************)
Unobserved(e, a, identity) ==
    [execution |-> e, run |-> a.run, entity |-> a.entity, identity |-> identity,
     revision |-> 0, total |-> None, acceptedAt |-> None, lastAt |-> None,
     status |-> "unavailable", issues |-> {}, disabled |-> FALSE, buckets |-> <<>>]

NewCollector(e, a, identity) ==
    [revision |-> 0, buckets |-> <<>>, records |-> {}, finished |-> {}, total |-> None,
     acceptedAt |-> None, lastAt |-> None, issues |-> {}, disabled |-> FALSE,
     snapshot |-> Unobserved(e, a, identity)]

\* Mutant: only the latest issue is kept.
KeepLatestIssue(c, issue) ==
    IF issue \in c.issues THEN c
    ELSE [c EXCEPT !.issues = {issue}, !.revision = @ + 1]

MarkIssue(c, issue) ==
    IF issue \in c.issues THEN c
    ELSE [c EXCEPT !.issues = @ \cup {issue}, !.revision = @ + 1]

Disable(c) == IF c.disabled THEN c ELSE [c EXCEPT !.disabled = TRUE, !.revision = @ + 1]

\* _best_effort: an error is marked and ends the collection.
BestEffort(c, issue) == Disable(MarkIssue(c, issue))

\* mark_observation_issue
MarkObservationIssue(c, issue, disable) ==
    IF disable THEN Disable(MarkIssue(c, issue)) ELSE MarkIssue(c, issue)

\* _observe_time and the bucket limit: why an observation cannot be recorded.
ObservationError(c, now) ==
    IF now = None THEN "internal_error"
    ELSE IF c.lastAt # None /\ now < c.lastAt THEN "wall_clock_regression"
    ELSE IF now \div Second \notin DOMAIN c.buckets /\ Cardinality(DOMAIN c.buckets) >= MaxBuckets
      THEN "buffer_limit"
    ELSE None

NewBucket(now) ==
    [first |-> now, last |-> now, revision |-> 0, accepted |-> 0, completed |-> 0,
     failed |-> 0, samples |-> 0, sum |-> 0]

\* _record_observation, after its checks.
RecordObservation(c, now, accepted, completed, failed, duration) ==
    LET start  == now \div Second
        bucket == IF start \in DOMAIN c.buckets THEN c.buckets[start] ELSE NewBucket(now)
        counted == [first |-> bucket.first, last |-> now, revision |-> bucket.revision + 1,
                    accepted |-> bucket.accepted + accepted,
                    completed |-> bucket.completed + completed,
                    failed |-> bucket.failed + failed,
                    samples |-> bucket.samples + (IF duration = None THEN 0 ELSE 1),
                    sum |-> bucket.sum + (IF duration = None THEN 0 ELSE duration)]
    IN  [c EXCEPT !.buckets = [s \in DOMAIN c.buckets \cup {start} |->
                                 IF s = start THEN counted ELSE c.buckets[s]],
                  !.lastAt = now, !.revision = @ + 1]

\* accept_batch, once per execution.
AcceptBatch(c, total, now) ==
    LET error == ObservationError(c, now)
    IN  IF error # None THEN BestEffort(c, error)
        ELSE [RecordObservation(c, now, total, 0, 0, None)
                EXCEPT !.total = total, !.acceptedAt = now]

\* begin_record: a token is the monotonic reading it started at.
BeginRefused(c, n) == c.total = None \/ n > c.total

BeginRecord(c, n, started) ==
    IF c.disabled \/ n \in c.records THEN c
    ELSE IF BeginRefused(c, n) THEN BestEffort(c, "invalid_callback")
    ELSE IF Cardinality(c.records) >= MaxRecords THEN BestEffort(c, "buffer_limit")
    ELSE LET marked == IF started = None THEN MarkIssue(c, "monotonic_clock_error") ELSE c
         IN  [marked EXCEPT !.records = @ \cup {n}]

\* The duration of a record, and the collector after it was read.
Measured(c, started, ended) ==
    IF ended = None THEN MarkIssue(c, "monotonic_clock_error")
    ELSE IF started # None /\ ended < started THEN MarkIssue(c, "invalid_monotonic_duration")
    ELSE c

Duration(started, ended) ==
    IF started = None \/ ended = None THEN None
    ELSE IF ended < started THEN None ELSE ended - started

\* record_success and record_failure of a record that was begun.
FinishRecord(c, n, ok, started, ended, now) ==
    IF c.disabled \/ n \notin c.records \/ n \in c.finished THEN c
    ELSE LET m == IF ok THEN Measured(c, started, ended) ELSE c
             d == IF ok THEN Duration(started, ended) ELSE None
             error == ObservationError(m, now)
         IN  IF error # None THEN BestEffort(m, error)
             ELSE [RecordObservation(m, now, 0, IF ok THEN 1 ELSE 0, IF ok THEN 0 ELSE 1, d)
                     EXCEPT !.finished = @ \cup {n}]

-----------------------------------------------------------------------------
(***************************************************************************)
(* Snapshots                                                               *)
(***************************************************************************)
SumOf(buckets, field(_)) == MapThenSumSet(LAMBDA s : field(buckets[s]), DOMAIN buckets)

StatusOf(buckets, issues) ==
    IF DOMAIN buckets = {} THEN "unavailable" ELSE IF issues # {} THEN "partial" ELSE "observed"

BucketValid(start, b) ==
    /\ b.revision >= 1
    /\ start * Second <= b.first /\ b.first <= b.last /\ b.last < (start + 1) * Second
    /\ b.samples <= b.completed /\ (b.samples = 0 => b.sum = 0)
    /\ b.accepted + b.completed + b.failed > 0

\* validate_snapshot
TelemetryValid(s) ==
    LET admission == {x \in DOMAIN s.buckets : s.buckets[x].accepted > 0}
    IN  /\ \A x \in DOMAIN s.buckets : BucketValid(x, s.buckets[x])
        /\ \A x \in DOMAIN s.buckets : s.buckets[x].revision <= s.revision
        /\ IF s.total = None
             THEN DOMAIN s.buckets = {} /\ s.acceptedAt = None
             ELSE /\ SumOf(s.buckets, LAMBDA b : b.accepted) = s.total
                  /\ SumOf(s.buckets, LAMBDA b : b.completed + b.failed) <= s.total
                  /\ s.acceptedAt # None
        /\ IF DOMAIN s.buckets = {}
             THEN s.lastAt = None
             ELSE /\ s.lastAt = s.buckets[Max(DOMAIN s.buckets)].last
                  /\ admission = {s.acceptedAt \div Second}
        /\ s.status = StatusOf(s.buckets, s.issues)
        /\ s.disabled => s.issues # {}

\* _build_snapshot
BuildSnapshot(c) ==
    [c.snapshot EXCEPT !.revision = c.revision, !.total = c.total, !.acceptedAt = c.acceptedAt,
                       !.lastAt = c.lastAt, !.status = StatusOf(c.buckets, c.issues),
                       !.issues = c.issues, !.disabled = c.disabled, !.buckets = c.buckets]

\* The values published last, never reported as intact.
Degraded(c) ==
    [c.snapshot EXCEPT !.revision = c.revision, !.issues = c.issues, !.disabled = c.disabled,
                       !.status = IF DOMAIN c.snapshot.buckets = {} THEN "unavailable" ELSE "partial"]

\* snapshot: the collector with its current snapshot.
TakeSnapshot(c) ==
    IF c.snapshot.revision = c.revision THEN c
    ELSE IF TelemetryValid(BuildSnapshot(c)) THEN [c EXCEPT !.snapshot = BuildSnapshot(c)]
    ELSE LET failed == BestEffort(c, "internal_error")
         IN  [failed EXCEPT !.snapshot = Degraded(failed)]

-----------------------------------------------------------------------------
(***************************************************************************)
(* The repository: save_snapshot under the advisory lock of the execution  *)
(***************************************************************************)
SameScope(row, s) ==
    /\ row.execution = s.execution /\ row.run = s.run
    /\ row.entity = s.entity /\ row.identity = s.identity

\* _validate_replacement
ReplacementValid(row, s) ==
    /\ row.total # None => s.total = row.total /\ s.acceptedAt = row.acceptedAt
    /\ \A x \in DOMAIN row.buckets :
          /\ x \in DOMAIN s.buckets
          /\ \/ s.buckets[x].revision > row.buckets[x].revision
             \/ s.buckets[x] = row.buckets[x]

SaveAccepts(row, s) ==
    /\ TelemetryValid(s)
    /\ row # None => /\ SameScope(row, s)
                     /\ s.revision = row.revision => s = row
                     /\ s.revision > row.revision => ReplacementValid(row, s)

\* A stale or identical snapshot changes nothing; a newer one replaces the row
\* and upserts the buckets that changed.
SaveSnapshot(row, s) ==
    IF row = None THEN s
    ELSE IF s.revision <= row.revision THEN row
    ELSE [s EXCEPT !.buckets = [x \in DOMAIN row.buckets \cup DOMAIN s.buckets |->
                                  IF x \in DOMAIN s.buckets THEN s.buckets[x] ELSE row.buckets[x]]]

-----------------------------------------------------------------------------
(***************************************************************************)
(* The observer: at most one pending snapshot                              *)
(***************************************************************************)
NewObserver == [pending |-> None, saved |-> None, failures |-> 0, disabled |-> FALSE, closed |-> FALSE]

Reference(o) == IF o.pending # None THEN o.pending ELSE o.saved

BufferAccepts(o, s) ==
    /\ Cardinality(DOMAIN s.buckets) <= MaxBuckets
    /\ Reference(o) # None => /\ s.execution = Reference(o).execution
                              /\ s.revision = Reference(o).revision => s = Reference(o)

\* Mutant: a snapshot that failed to be stored is forgotten.
Drop(o, s) == [o EXCEPT !.pending = None]

\* buffer: an older snapshot is ignored.
Buffer(o, s) ==
    IF Reference(o) # None THEN IF s.revision < Reference(o).revision THEN o
                                ELSE [o EXCEPT !.pending = s]
    ELSE [o EXCEPT !.pending = s]

\* _failed
Failed(o) == [o EXCEPT !.failures = @ + 1, !.disabled = o.failures + 1 >= MaxFailures]

\* What the database answers to a save and its commit: "ok", "error" before the
\* server committed, "lost" after it, and "late" while the server is still at it,
\* with the lock.  A save behind such a transaction runs into the lock timeout.
Answers(e) == IF late[e] = None THEN watch.outcomes ELSE watch.outcomes \cap {"error"}

\* flush: what becomes of the observer, the row and a transaction in flight.
FlushObserver(x, answer) ==
    LET o == x.observer
    IN  IF o.disabled \/ o.closed THEN [x EXCEPT !.ok = FALSE]
        ELSE IF o.pending = None \/ o.pending = o.saved
          THEN [x EXCEPT !.ok = TRUE, !.observer.pending = None, !.observer.failures = 0]
        ELSE IF ~SaveAccepts(x.row, o.pending) \/ answer = "error"
          THEN [x EXCEPT !.ok = FALSE, !.observer = Failed(o)]
        ELSE LET new == SaveSnapshot(x.row, o.pending)
             IN  CASE answer = "ok" ->
                        [x EXCEPT !.ok = TRUE, !.row = new,
                                  !.observer = [NewObserver EXCEPT !.saved = o.pending]]
                   [] answer = "lost" ->
                        [x EXCEPT !.ok = FALSE, !.row = new, !.observer = Failed(o)]
                   [] answer = "late" ->
                        [x EXCEPT !.ok = FALSE, !.late = new, !.observer = Failed(o)]

\* __call__
Observer(x, s, answer) ==
    LET o == x.observer
    IN  IF o.disabled \/ o.closed THEN [x EXCEPT !.ok = FALSE]
        ELSE IF ~BufferAccepts(o, s) THEN [x EXCEPT !.ok = FALSE, !.observer = Failed(o)]
        ELSE FlushObserver([x EXCEPT !.observer = Buffer(o, s)], answer)

-----------------------------------------------------------------------------
(***************************************************************************)
(* The session                                                             *)
(***************************************************************************)
NewSession == [attempted |-> FALSE, failures |-> 0, disabled |-> FALSE, clockFailed |-> FALSE]

\* An attempt to flush: a failure is a quality mark of the collector, and the
\* marked snapshot waits for the next attempt.
FlushNow(x, answer) ==
    LET c == TakeSnapshot(x.collector)
        y == Observer([x EXCEPT !.collector = c, !.session.attempted = TRUE], c.snapshot, answer)
        n == y.session.failures + 1
        m == TakeSnapshot(MarkObservationIssue(c, "storage_error", n >= MaxFailures))
    IN  IF y.ok THEN [y EXCEPT !.session.failures = 0]
        ELSE [y EXCEPT !.session.failures = n, !.session.disabled = n >= MaxFailures,
                       !.collector = m,
                       !.observer = IF BufferAccepts(@, m.snapshot) THEN Buffer(@, m.snapshot) ELSE @]

\* flush(force): tick is what the flush clock says, "early" within the interval.
Flush(x, force, tick, answer) ==
    LET failing == ~x.session.clockFailed /\ tick = "error"
        y == IF failing
               THEN [x EXCEPT !.session.clockFailed = TRUE,
                              !.collector = MarkObservationIssue(@, "internal_error", TRUE)]
               ELSE x
    IN  IF x.session.disabled \/ (x.session.clockFailed /\ ~force) THEN x
        ELSE IF ~force /\ (failing \/ (tick = "early" /\ x.session.attempted)) THEN y
        ELSE FlushNow(y, answer)

-----------------------------------------------------------------------------
(***************************************************************************)
(* One execution attempt                                                   *)
(***************************************************************************)
\* Mutant: the file is hashed without a look at the records that were loaded.
HashOnly(input) == <<"file", input.file>>

\* resolve_telemetry_input_identity: the identity of the S3 object when the
\* caller bound one, else the content of a file that still holds the records.
ResolveIdentity(input) ==
    IF input.supplied # None THEN input.supplied.identity
    ELSE IF input.file # input.records \/ input.verified \notin {None, input.file} THEN None
    ELSE <<"file", input.file>>

\* How long a record really took, when its clock can tell.
Took(mono) == IF Duration(mono.started, mono.ended) = None THEN 0 ELSE mono.ended - mono.started

\* A snapshot of the attempt's state for the pure operators above, and back.
Bundle(e) ==
    [collector |-> attempt[e].collector, session |-> attempt[e].session,
     observer |-> attempt[e].observer, row |-> rows[e], late |-> late[e], ok |-> TRUE]

Adopt(e, x, phase, left, log) ==
    /\ attempt' = [attempt EXCEPT ![e] =
                     [phase |-> phase, left |-> left, collector |-> x.collector,
                      session |-> x.session, observer |-> x.observer, log |-> log]]
    /\ rows' = [rows EXCEPT ![e] = x.row]
    /\ late' = [late EXCEPT ![e] = x.late]

TelemetryInit ==
    /\ attempt = [e \in Executions |->
                    [phase |-> "idle", left |-> 0, collector |-> None, session |-> NewSession,
                     observer |-> NewObserver, log |-> <<>>]]
    /\ rows = [e \in Executions |-> None]
    /\ late = [e \in Executions |-> None]

\* telemetry_session_context: bootstrap, admission and the first flush.
OpenSession(e) ==
    LET a == watch.attempts[e]
    IN  /\ attempt[e].phase = "idle"
        /\ \E now \in watch.times, tick \in watch.ticks, answer \in Answers(e) :
              LET c == AcceptBatch(NewCollector(e, a, ResolveIdentity(a.input)), a.total, now)
                  x == Flush([Bundle(e) EXCEPT !.collector = c], TRUE, tick, answer)
              IN  Adopt(e, x, "records", a.total, <<[kind |-> "accepted", at |-> now, count |-> a.total, took |-> 0]>>)

\* One record of normalize_sysmon_and_extract_evidence: begin, the work, then
\* the outcome and its flush, forced after a failure, which ends the stage.
MeasureRecord(e, ok) ==
    LET a == attempt[e]
        n == watch.attempts[e].total - a.left + 1
    IN  /\ a.phase = "records" /\ a.left > 0
        /\ \E now \in watch.times, tick \in watch.ticks, answer \in Answers(e), mono \in watch.monos :
              LET c == FinishRecord(BeginRecord(a.collector, n, mono.started), n, ok,
                                    mono.started, mono.ended, now)
                  x == Flush([Bundle(e) EXCEPT !.collector = c], ~ok, tick, answer)
              IN  Adopt(e, x, IF ok THEN "records" ELSE "stages",
                        IF ok THEN a.left - 1 ELSE 1,
                        Append(a.log, [kind |-> IF ok THEN "completed" ELSE "failed", at |-> now,
                                       count |-> 1, took |-> IF ok THEN Took(mono) ELSE 0]))

RecordSuccess(e) == MeasureRecord(e, TRUE)
RecordFailure(e) == MeasureRecord(e, FALSE)

\* _run_stage flushes when a stage ends.  Normalization is followed by the other
\* stages, and one that fails by none.
EndStage(e) ==
    LET a == attempt[e]
        after == IF a.phase = "records" THEN {StageFlushes} ELSE {a.left - 1, 0}
    IN  /\ \/ a.phase = "records" /\ a.left = 0
           \/ a.phase = "stages" /\ a.left > 0
        /\ \E tick \in watch.ticks, answer \in Answers(e), left \in after :
              Adopt(e, Flush(Bundle(e), TRUE, tick, answer), "stages", left, a.log)

\* The end of telemetry_session_context: the last forced flush.
CloseSession(e) ==
    /\ attempt[e].phase = "stages" /\ attempt[e].left = 0
    /\ \E tick \in watch.ticks, answer \in Answers(e) :
          Adopt(e, Flush(Bundle(e), TRUE, tick, answer), "leaving", 0, attempt[e].log)

\* close: one bounded retry of the pending snapshot.
CloseObserver(e) ==
    /\ attempt[e].phase = "leaving"
    /\ \E answer \in Answers(e) :
          LET x == FlushObserver(Bundle(e), answer)
          IN  Adopt(e, [x EXCEPT !.observer.closed = TRUE], "closed", 0, attempt[e].log)

\* The server ends a transaction whose client has given up.
EndLate(e) ==
    /\ late[e] # None
    /\ rows' = [rows EXCEPT ![e] = late[e]] \/ UNCHANGED rows
    /\ late' = [late EXCEPT ![e] = None]
    /\ UNCHANGED attempt
=============================================================================
