--------------------------- MODULE TelemetryProofs ---------------------------
(***************************************************************************)
(* Proofs about the telemetry of the composed system, for every set of     *)
(* executions, any record counts and limits, any clocks and any answers of *)
(* the database: what is stored only grows, and counts what happened.      *)
(*                                                                         *)
(* A row is written by transactions that may end after the client gave     *)
(* them up, so the invariant has to be about every copy of a snapshot that *)
(* can still reach it.                                                     *)
(***************************************************************************)
EXTENDS DecisionSystem, AlgorithmProofs

LEMMA RecordThere ==
    ASSUME NullIsNoFunction, NEW r, r = [x \in DOMAIN r |-> r[x]]
    PROVE  r # None
BY Zenon DEF NullIsNoFunction

-----------------------------------------------------------------------------
(***************************************************************************)
(* Telemetry: snapshots and collectors                                     *)
(***************************************************************************)

\* The shape of a bucket, of a table of buckets, of a snapshot and of a
\* collector, with the numbers that are compared.
IsBucket(b) ==
    /\ b.accepted \in Nat /\ b.completed \in Nat /\ b.failed \in Nat /\ b.sum \in Nat
    /\ b.samples \in Nat /\ b.first \in Int /\ b.last \in Int

IsBuckets(buckets) ==
    /\ buckets = [x \in DOMAIN buckets |-> buckets[x]]
    /\ \A x \in DOMAIN buckets : x \in Int /\ IsBucket(buckets[x])
    /\ IsFiniteSet(DOMAIN buckets) /\ Cardinality(DOMAIN buckets) <= MaxBuckets

SnapshotRecord(s) ==
    [execution |-> s.execution, run |-> s.run, entity |-> s.entity, identity |-> s.identity,
     revision |-> s.revision, total |-> s.total, acceptedAt |-> s.acceptedAt,
     lastAt |-> s.lastAt, status |-> s.status, issues |-> s.issues,
     disabled |-> s.disabled, buckets |-> s.buckets]

IsSnapshot(s) ==
    /\ s = SnapshotRecord(s)
    /\ s.revision \in Nat /\ s.disabled \in BOOLEAN /\ IsBuckets(s.buckets)

CollectorRecord(c) ==
    [revision |-> c.revision, buckets |-> c.buckets, records |-> c.records,
     finished |-> c.finished, total |-> c.total, acceptedAt |-> c.acceptedAt,
     lastAt |-> c.lastAt, issues |-> c.issues, disabled |-> c.disabled,
     snapshot |-> c.snapshot]

IsCollector(c) ==
    /\ c = CollectorRecord(c)
    /\ c.revision \in Nat /\ c.disabled \in BOOLEAN /\ IsBuckets(c.buckets)
    /\ IsSnapshot(c.snapshot)

\* What is observed later contains what was observed before.
BucketGrows(b, d) ==
    /\ b.accepted <= d.accepted /\ b.completed <= d.completed
    /\ b.failed <= d.failed /\ b.sum <= d.sum

Below(s, t) ==
    /\ s.revision <= t.revision
    /\ s.issues \subseteq t.issues
    /\ s.disabled => t.disabled
    /\ \A x \in DOMAIN s.buckets :
          x \in DOMAIN t.buckets /\ BucketGrows(s.buckets[x], t.buckets[x])

\* Snapshots of one execution: a revision names one content.
Grows(s, t) ==
    /\ Below(s, t)
    /\ s.execution = t.execution /\ s.identity = t.identity
    /\ s.revision = t.revision => s = t

-----------------------------------------------------------------------------
\* What the database has accepted.
Storable(s) == IsSnapshot(s) /\ \A x \in DOMAIN s.buckets : BucketValid(x, s.buckets[x])

\* The order in which an execution's snapshots stand: what is stored, what a
\* transaction in flight may still store, what the observer holds, and what the
\* collector published last.
ObserverRecord(o) ==
    [pending |-> o.pending, saved |-> o.saved, failures |-> o.failures,
     disabled |-> o.disabled, closed |-> o.closed]

IsObserver(o) ==
    /\ o = ObserverRecord(o)
    /\ o.failures \in Nat /\ o.disabled \in BOOLEAN /\ o.closed \in BOOLEAN
    /\ o.pending # None => IsSnapshot(o.pending)
    /\ o.saved # None => IsSnapshot(o.saved)
    /\ o.pending # None /\ o.saved # None => Grows(o.saved, o.pending)

Chain(c, o, row, stuck) ==
    /\ IsCollector(c) /\ Below(c.snapshot, c)
    /\ IsObserver(o)
    /\ Reference(o) # None => Grows(Reference(o), c.snapshot)
    /\ row # None => Storable(row) /\ Reference(o) # None /\ Grows(row, Reference(o))
    /\ stuck # None => /\ Storable(stuck)
                       /\ o.pending # None /\ o.pending # o.saved
                       /\ Grows(stuck, o.pending)
                       /\ row # None => Grows(row, stuck)
    /\ o.pending = None \/ o.pending = o.saved => row = o.saved

\* The observer holds the last word of the collector.
Synced(c, o) ==
    /\ c.snapshot.revision = c.revision
    /\ Reference(o) = c.snapshot

SessionRecord(n) ==
    [attempted |-> n.attempted, failures |-> n.failures, disabled |-> n.disabled,
     clockFailed |-> n.clockFailed]

\* Session and observer count the same failures; a session that gave up has
\* left the marked snapshot pending and its collector ended.
Counted(c, n, o) ==
    /\ n = SessionRecord(n)
    /\ o.failures = n.failures /\ (o.disabled <=> n.disabled) /\ ~o.closed
    /\ n.disabled => o.pending # None /\ c.disabled /\ Synced(c, o)

-----------------------------------------------------------------------------
\* v is the total of the first n values of f: a running total ends at v.
Adds(v, f, n) ==
    \E t \in [0..n -> Nat] :
        t[0] = 0 /\ t[n] = v /\ \A i \in 1..n : t[i] = t[i - 1] + f[i]

\* What the observations of a log say of one second: the records of a kind, and
\* the time they took.
Part(log, x, kind) ==
    [i \in 1..Len(log) |-> IF log[i].at \div Second = x /\ log[i].kind = kind
                             THEN log[i].count ELSE 0]

Time(log, x) ==
    [i \in 1..Len(log) |-> IF log[i].at \div Second = x THEN log[i].took ELSE 0]

BucketShows(b, log, x, n) ==
    /\ Adds(b.accepted, Part(log, x, "accepted"), n)
    /\ Adds(b.completed, Part(log, x, "completed"), n)
    /\ Adds(b.failed, Part(log, x, "failed"), n)
    /\ Adds(b.sum, Time(log, x), n)
    /\ b.samples = b.completed

\* The buckets are what the first n observations come to, second by second: none
\* of them is left out and none is counted twice.
Shown(buckets, log, n) ==
    /\ \A i \in 1..n : log[i].at # None /\ log[i].at \div Second \in DOMAIN buckets
    /\ \A x \in DOMAIN buckets : BucketShows(buckets[x], log, x, n)

\* A collector without a quality mark has counted everything that happened, and
\* its next record is a new one.
Counts(c, log) ==
    c.issues = {} =>
        /\ ~c.disabled /\ c.revision = Len(log)
        /\ \A k \in c.records \cup c.finished : k \in Nat /\ k < Len(log)
        /\ Shown(c.buckets, log, Len(log))

\* A snapshot without a quality mark is exact as of its revision.
Exact(s, log) ==
    s.issues = {} => s.revision \in 0..Len(log) /\ Shown(s.buckets, log, s.revision)

IsLog(log) ==
    /\ \E S : log \in Seq(S)
    /\ \A i \in 1..Len(log) :
          log[i].count \in Nat /\ log[i].took \in Nat /\ log[i].at \in Int \cup {None}

Tells(c, o, row, stuck, log) ==
    /\ IsLog(log) /\ Counts(c, log)
    /\ \A s \in {c.snapshot, o.pending, o.saved, row, stuck} : s # None => Exact(s, log)

\* An attempt of the scenario, whose snapshots name its input.
Identified(e, c) ==
    /\ watch # None /\ e \in DOMAIN watch.attempts
    /\ c.snapshot.identity = ResolveIdentity(watch.attempts[e].input)

AttemptSound(e) ==
    LET a == attempt[e]
    IN  /\ a.phase \in {"idle", "records", "stages", "leaving", "closed"}
        /\ a.phase = "idle" => /\ a.session = NewSession /\ a.observer = NewObserver
                               /\ rows[e] = None /\ late[e] = None
        /\ a.phase # "idle" => /\ Chain(a.collector, a.observer, rows[e], late[e])
                               /\ Tells(a.collector, a.observer, rows[e], late[e], a.log)
                               /\ Identified(e, a.collector)
        /\ a.phase = "records" => a.left = watch.attempts[e].total + 1 - Len(a.log)
        /\ a.phase \notin {"idle", "closed"} => Counted(a.collector, a.session, a.observer)
        /\ a.phase \in {"leaving", "closed"} => Synced(a.collector, a.observer)

TelemetrySound == \A e \in Executions : AttemptSound(e)

-----------------------------------------------------------------------------
(***************************************************************************)
(* The order of snapshots                                                  *)
(***************************************************************************)

LEMMA SnapshotPresent ==
    ASSUME NullIsNoFunction, NEW s, IsSnapshot(s)
    PROVE  s # None
<1>1. PICK r : r = SnapshotRecord(s)
  OBVIOUS
<1>2. r = [x \in DOMAIN r |-> r[x]]
  BY <1>1 DEF SnapshotRecord
<1>3. s = r
  BY <1>1 DEF IsSnapshot
<1> QED  BY <1>2, <1>3, RecordThere, Zenon

LEMMA BelowReflexive ==
    ASSUME NEW s, s.revision \in Nat, IsBuckets(s.buckets)
    PROVE  Below(s, s)
  BY DEF Below, IsBuckets, IsBucket, BucketGrows

LEMMA BelowTransitive ==
    ASSUME NEW r, NEW s, NEW t, Below(r, s), Below(s, t),
           r.revision \in Nat, s.revision \in Nat, t.revision \in Nat,
           IsBuckets(r.buckets), IsBuckets(s.buckets), IsBuckets(t.buckets)
    PROVE  Below(r, t)
<1>1. /\ r.revision <= t.revision
      /\ r.issues \subseteq t.issues
      /\ r.disabled => t.disabled
  BY DEF Below
<1>2. ASSUME NEW x \in DOMAIN r.buckets
      PROVE  x \in DOMAIN t.buckets /\ BucketGrows(r.buckets[x], t.buckets[x])
  <2>1. /\ x \in DOMAIN s.buckets /\ x \in DOMAIN t.buckets
        /\ BucketGrows(r.buckets[x], s.buckets[x])
        /\ BucketGrows(s.buckets[x], t.buckets[x])
    BY DEF Below
  <2>2. IsBucket(r.buckets[x]) /\ IsBucket(s.buckets[x]) /\ IsBucket(t.buckets[x])
    BY <2>1 DEF IsBuckets
  <2> QED  BY <2>1, <2>2 DEF IsBucket, BucketGrows
<1> QED  BY <1>1, <1>2 DEF Below

LEMMA GrowsReflexive == ASSUME NEW s, IsSnapshot(s) PROVE Grows(s, s)
  BY BelowReflexive DEF Grows, IsSnapshot

LEMMA GrowsTransitive ==
    ASSUME NEW r, NEW s, NEW t, IsSnapshot(r), IsSnapshot(s), IsSnapshot(t),
           Grows(r, s), Grows(s, t)
    PROVE  Grows(r, t)
<1>1. Below(r, t)
  BY BelowTransitive DEF Grows, IsSnapshot
<1>2. /\ r.revision \in Nat /\ s.revision \in Nat /\ t.revision \in Nat
      /\ r.revision <= s.revision /\ s.revision <= t.revision
  BY DEF Grows, Below, IsSnapshot
<1> QED  BY <1>1, <1>2 DEF Grows

-----------------------------------------------------------------------------
(***************************************************************************)
(* Running totals                                                          *)
(***************************************************************************)
LEMMA AddsNothing ==
    ASSUME NEW n \in Nat, NEW f, \A i \in 1..n : f[i] = 0
    PROVE  Adds(0, f, n)
<1> DEFINE t == [i \in 0..n |-> 0]
<1>1. t \in [0..n -> Nat] /\ t[0] = 0 /\ t[n] = 0
  OBVIOUS
<1>2. \A i \in 1..n : t[i] = t[i - 1] + f[i]
  OBVIOUS
<1> QED  BY <1>1, <1>2 DEF Adds

LEMMA AddsPrefix ==
    ASSUME NEW n \in Nat, NEW f, NEW g, \A i \in 1..n : g[i] = f[i],
           NEW v, Adds(v, f, n)
    PROVE  Adds(v, g, n)
<1>1. PICK t \in [0..n -> Nat] :
         t[0] = 0 /\ t[n] = v /\ \A i \in 1..n : t[i] = t[i - 1] + f[i]
  BY DEF Adds
<1>2. \A i \in 1..n : t[i] = t[i - 1] + g[i]
  BY <1>1
<1> QED  BY <1>1, <1>2 DEF Adds

LEMMA AddsMore ==
    ASSUME NEW n \in Nat, NEW f, NEW g, \A i \in 1..n : g[i] = f[i],
           NEW v, Adds(v, f, n), NEW more \in Nat, g[n + 1] = more
    PROVE  Adds(v + more, g, n + 1)
<1>1. PICK t \in [0..n -> Nat] :
         t[0] = 0 /\ t[n] = v /\ \A i \in 1..n : t[i] = t[i - 1] + f[i]
  BY DEF Adds
<1> DEFINE u == [i \in 0..(n + 1) |-> IF i = n + 1 THEN v + more ELSE t[i]]
<1>2. v \in Nat
  BY <1>1
<1>3. u \in [0..(n + 1) -> Nat] /\ u[0] = 0 /\ u[n + 1] = v + more
  BY <1>1, <1>2
<1>4. ASSUME NEW i \in 1..(n + 1)
      PROVE  u[i] = u[i - 1] + g[i]
  <2>1. CASE i = n + 1
    <3>1. u[i - 1] = v
      BY <1>1, <2>1
    <3> QED  BY <1>3, <2>1, <3>1
  <2>2. CASE i # n + 1
    <3>1. i \in 1..n /\ i - 1 \in 0..n /\ i - 1 # n + 1
      BY <2>2
    <3>2. u[i] = t[i] /\ u[i - 1] = t[i - 1] /\ g[i] = f[i]
      BY <2>2, <3>1
    <3> QED  BY <1>1, <3>1, <3>2
  <2> QED  BY <2>1, <2>2
<1> HIDE DEF u
<1> QED  BY <1>3, <1>4 DEF Adds

\* A function has one total.
LEMMA AddsOnce ==
    ASSUME NEW n \in Nat, NEW f, NEW v, NEW w, Adds(v, f, n), Adds(w, f, n)
    PROVE  v = w
<1>1. PICK t \in [0..n -> Nat] :
         t[0] = 0 /\ t[n] = v /\ \A i \in 1..n : t[i] = t[i - 1] + f[i]
  BY DEF Adds
<1>2. PICK u \in [0..n -> Nat] :
         u[0] = 0 /\ u[n] = w /\ \A i \in 1..n : u[i] = u[i - 1] + f[i]
  BY DEF Adds
<1> DEFINE Off == {i \in 0..n : t[i] # u[i]}
<1>3. SUFFICES ASSUME Off # {}
               PROVE  FALSE
  BY <1>1, <1>2
<1>4. PICK i \in Off : \A j \in Off : i <= j
  <2>1. Off \in SUBSET Nat
    OBVIOUS
  <2> HIDE DEF Off
  <2> QED  BY <1>3, <2>1, FirstExists
<1>5. i \in 1..n /\ i - 1 \in 0..n /\ i - 1 \notin Off
  BY <1>1, <1>2, <1>4
<1>6. t[i] = u[i]
  BY <1>1, <1>2, <1>5
<1> QED  BY <1>4, <1>6

-----------------------------------------------------------------------------
(***************************************************************************)
(* The collector only adds                                                 *)
(***************************************************************************)
Extends(c, d) == IsCollector(d) /\ Below(c, d) /\ d.snapshot = c.snapshot

LEMMA ExtendsReflexive == ASSUME NEW c, IsCollector(c) PROVE Extends(c, c)
  BY BelowReflexive DEF Extends, IsCollector

LEMMA ExtendsTransitive ==
    ASSUME NEW b, NEW c, NEW d, IsCollector(b), Extends(b, c), Extends(c, d)
    PROVE  Extends(b, d)
  BY BelowTransitive DEF Extends, IsCollector

LEMMA MarkIssueExtends ==
    ASSUME NEW c, IsCollector(c), NEW issue
    PROVE  Extends(c, MarkIssue(c, issue)) /\ MarkIssue(c, issue).disabled = c.disabled
<1>1. CASE issue \in c.issues
  BY <1>1, ExtendsReflexive DEF MarkIssue
<1>2. CASE issue \notin c.issues
  <2> DEFINE d == MarkIssue(c, issue)
  <2>1. d = [CollectorRecord(c) EXCEPT !.issues = c.issues \cup {issue},
                                       !.revision = c.revision + 1]
    BY <1>2 DEF MarkIssue, IsCollector
  <2>2. /\ d = CollectorRecord(d)
        /\ d.revision = c.revision + 1 /\ d.issues = c.issues \cup {issue}
        /\ d.disabled = c.disabled /\ d.buckets = c.buckets
        /\ d.snapshot = c.snapshot
    BY <2>1 DEF CollectorRecord
  <2> HIDE DEF d
  <2>3. IsCollector(d)
    BY <2>2 DEF IsCollector
  <2>4. Below(c, d)
    BY <2>2, BelowReflexive DEF Below, IsCollector
  <2> QED  BY <2>2, <2>3, <2>4 DEF Extends, d
<1> QED  BY <1>1, <1>2

LEMMA DisableExtends ==
    ASSUME NEW c, IsCollector(c)
    PROVE  Extends(c, Disable(c)) /\ Disable(c).disabled
<1>1. CASE c.disabled
  BY <1>1, ExtendsReflexive DEF Disable
<1>2. CASE ~c.disabled
  <2> DEFINE d == Disable(c)
  <2>1. d = [CollectorRecord(c) EXCEPT !.disabled = TRUE, !.revision = c.revision + 1]
    BY <1>2 DEF Disable, IsCollector
  <2>2. /\ d = CollectorRecord(d)
        /\ d.revision = c.revision + 1 /\ d.issues = c.issues
        /\ d.disabled \in BOOLEAN /\ d.disabled
        /\ d.buckets = c.buckets /\ d.snapshot = c.snapshot
    BY <2>1 DEF CollectorRecord
  <2> HIDE DEF d
  <2>3. IsCollector(d)
    BY <2>2 DEF IsCollector
  <2>4. Below(c, d)
    BY <2>2, BelowReflexive DEF Below, IsCollector
  <2> QED  BY <2>2, <2>3, <2>4 DEF Extends, d
<1> QED  BY <1>1, <1>2

LEMMA BestEffortExtends ==
    ASSUME NEW c, IsCollector(c), NEW issue
    PROVE  Extends(c, BestEffort(c, issue)) /\ BestEffort(c, issue).disabled
<1>1. Extends(c, MarkIssue(c, issue)) /\ IsCollector(MarkIssue(c, issue))
  BY MarkIssueExtends DEF Extends
<1>2. /\ Extends(MarkIssue(c, issue), Disable(MarkIssue(c, issue)))
      /\ Disable(MarkIssue(c, issue)).disabled
  BY <1>1, DisableExtends
<1> QED  BY <1>1, <1>2, ExtendsTransitive DEF BestEffort

LEMMA MarkObservationExtends ==
    ASSUME NEW c, IsCollector(c), NEW issue, NEW disable \in BOOLEAN
    PROVE  /\ Extends(c, MarkObservationIssue(c, issue, disable))
           /\ disable => MarkObservationIssue(c, issue, disable).disabled
<1>1. CASE disable
  BY <1>1, BestEffortExtends DEF BestEffort, MarkObservationIssue
<1>2. CASE ~disable
  BY <1>2, MarkIssueExtends DEF MarkObservationIssue
<1> QED  BY <1>1, <1>2

\* A bucket has room for the observation, or the table for a bucket.
Room(c, now) ==
    now \div Second \in DOMAIN c.buckets \/ Cardinality(DOMAIN c.buckets) < MaxBuckets

LEMMA NoErrorMeansRoom ==
    ASSUME NEW c, IsCollector(c), NEW now \in Int \cup {None},
           ObservationError(c, now) = None
    PROVE  Room(c, now) /\ now \in Int
<1>1. Cardinality(DOMAIN c.buckets) \in Nat /\ MaxBuckets \in Nat
  BY FS_CardinalityType, TelemetryLimits DEF IsCollector, IsBuckets
<1>2. ~(/\ now \div Second \notin DOMAIN c.buckets
        /\ Cardinality(DOMAIN c.buckets) >= MaxBuckets)
  BY NoneIsNoError DEF ObservationError
<1> QED  BY <1>1, <1>2 DEF Room

LEMMA RecordObservationExtends ==
    ASSUME NEW c, IsCollector(c), NEW now \in Int, Room(c, now),
           NEW accepted \in Nat, NEW completed \in Nat, NEW failed \in Nat,
           NEW duration, duration # None => duration \in Nat
    PROVE  Extends(c, RecordObservation(c, now, accepted, completed, failed, duration))
<1> DEFINE start == now \div Second
           bucket == IF start \in DOMAIN c.buckets THEN c.buckets[start] ELSE NewBucket(now)
           counted == [first |-> bucket.first, last |-> now, revision |-> bucket.revision + 1,
                       accepted |-> bucket.accepted + accepted,
                       completed |-> bucket.completed + completed,
                       failed |-> bucket.failed + failed,
                       samples |-> bucket.samples + (IF duration = None THEN 0 ELSE 1),
                       sum |-> bucket.sum + (IF duration = None THEN 0 ELSE duration)]
           buckets == [s \in DOMAIN c.buckets \cup {start} |->
                         IF s = start THEN counted ELSE c.buckets[s]]
           d == RecordObservation(c, now, accepted, completed, failed, duration)
<1>1. IsBucket(bucket)
  BY DEF IsCollector, IsBuckets, IsBucket, NewBucket
<1>2. IsBucket(counted) /\ BucketGrows(bucket, counted)
  BY <1>1 DEF IsBucket, BucketGrows
<1>3. start \in DOMAIN c.buckets => bucket = c.buckets[start]
  OBVIOUS
<1>4. d = [CollectorRecord(c) EXCEPT !.buckets = buckets, !.lastAt = now,
                                     !.revision = c.revision + 1]
  BY DEF RecordObservation, IsCollector
<1> HIDE DEF bucket, counted
<1>5. /\ IsFiniteSet(DOMAIN c.buckets \cup {start})
      /\ Cardinality(DOMAIN c.buckets \cup {start}) <= MaxBuckets
  <2>1. IsFiniteSet(DOMAIN c.buckets) /\ Cardinality(DOMAIN c.buckets) <= MaxBuckets
    BY DEF IsCollector, IsBuckets
  <2>2. CASE start \in DOMAIN c.buckets
    <3>1. DOMAIN c.buckets \cup {start} = DOMAIN c.buckets
      BY <2>2
    <3> QED  BY <2>1, <3>1
  <2>3. CASE start \notin DOMAIN c.buckets
    <3>1. /\ IsFiniteSet(DOMAIN c.buckets \cup {start})
          /\ Cardinality(DOMAIN c.buckets \cup {start})
                = Cardinality(DOMAIN c.buckets) + 1
      BY <2>1, <2>3, FS_AddElement
    <3>2. Cardinality(DOMAIN c.buckets) \in Nat /\ MaxBuckets \in Nat
      BY <2>1, FS_CardinalityType, TelemetryLimits
    <3> QED  BY <2>3, <3>1, <3>2 DEF Room
  <2> QED  BY <2>2, <2>3
<1>6. IsBuckets(buckets)
  <2>1. \A x \in DOMAIN c.buckets : IsBucket(c.buckets[x])
    BY DEF IsCollector, IsBuckets
  <2>2. DOMAIN buckets = DOMAIN c.buckets \cup {start}
    OBVIOUS
  <2>3. \A x \in DOMAIN buckets : IsBucket(buckets[x])
    BY <1>2, <2>1
  <2>4. buckets = [x \in DOMAIN buckets |-> buckets[x]]
    OBVIOUS
  <2>5. DOMAIN c.buckets \cup {start} \subseteq Int
    <3>1. Second \in Nat \ {0}
      BY TelemetryLimits
    <3>2. start \in Int
      BY <3>1
    <3> QED  BY <3>2 DEF IsCollector, IsBuckets
  <2> HIDE DEF buckets, start
  <2> QED  BY <1>5, <2>2, <2>3, <2>4, <2>5 DEF IsBuckets
<1>7. \A x \in DOMAIN c.buckets :
        x \in DOMAIN buckets /\ BucketGrows(c.buckets[x], buckets[x])
  <2> SUFFICES ASSUME NEW x \in DOMAIN c.buckets
               PROVE  x \in DOMAIN buckets /\ BucketGrows(c.buckets[x], buckets[x])
    OBVIOUS
  <2>1. CASE x = start
    BY <1>2, <1>3, <2>1
  <2>2. CASE x # start
    <3>1. IsBucket(c.buckets[x])
      BY DEF IsCollector, IsBuckets
    <3> QED  BY <2>2, <3>1 DEF IsBucket, BucketGrows
  <2> QED  BY <2>1, <2>2
<1> HIDE DEF buckets, d
<1>8. /\ d = CollectorRecord(d)
      /\ d.revision = c.revision + 1 /\ d.issues = c.issues
      /\ d.disabled = c.disabled /\ d.buckets = buckets
      /\ d.snapshot = c.snapshot
  BY <1>4 DEF CollectorRecord
<1>9. IsCollector(d)
  BY <1>6, <1>8 DEF IsCollector
<1>10. Below(c, d)
  BY <1>7, <1>8 DEF Below, IsCollector
<1> QED  BY <1>8, <1>9, <1>10 DEF Extends, d

\* The fields that no snapshot order compares may change with it.
Alike(c, d) ==
    /\ d = CollectorRecord(d)
    /\ d.revision = c.revision /\ d.issues = c.issues /\ d.disabled = c.disabled
    /\ d.buckets = c.buckets /\ d.snapshot = c.snapshot

LEMMA AlikeExtends ==
    ASSUME NEW b, NEW c, NEW d, IsCollector(b), Extends(b, c), Alike(c, d)
    PROVE  Extends(b, d)
<1>1. IsCollector(d)
  BY DEF Extends, Alike, IsCollector
<1> QED  BY <1>1 DEF Extends, Alike, Below

LEMMA AcceptBatchExtends ==
    ASSUME NEW c, IsCollector(c), NEW total \in Nat, NEW now \in Int \cup {None}
    PROVE  Extends(c, AcceptBatch(c, total, now))
<1>1. CASE ObservationError(c, now) # None
  BY <1>1, BestEffortExtends DEF AcceptBatch
<1>2. CASE ObservationError(c, now) = None
  <2> DEFINE r == RecordObservation(c, now, total, 0, 0, None)
             d == AcceptBatch(c, total, now)
  <2>1. Extends(c, r)
    BY <1>2, NoErrorMeansRoom, RecordObservationExtends
  <2>2. r = CollectorRecord(r)
    BY <2>1 DEF Extends, IsCollector
  <2> HIDE DEF r
  <2>3. d = [CollectorRecord(r) EXCEPT !.total = total, !.acceptedAt = now]
    BY <1>2, <2>2 DEF AcceptBatch, r
  <2> HIDE DEF d
  <2>4. Alike(r, d)
    BY <2>2, <2>3 DEF Alike, CollectorRecord
  <2> QED  BY <2>1, <2>4, AlikeExtends DEF d
<1> QED  BY <1>1, <1>2

LEMMA BeginRecordExtends ==
    ASSUME NEW c, IsCollector(c), NEW n, NEW started
    PROVE  /\ Extends(c, BeginRecord(c, n, started))
           /\ c.disabled => BeginRecord(c, n, started) = c
<1>1. CASE c.disabled \/ n \in c.records
  BY <1>1, ExtendsReflexive DEF BeginRecord
<1>2. CASE ~(c.disabled \/ n \in c.records)
           /\ (BeginRefused(c, n) \/ Cardinality(c.records) >= MaxRecords)
  BY <1>2, BestEffortExtends DEF BeginRecord
<1>3. CASE ~(c.disabled \/ n \in c.records)
           /\ ~(BeginRefused(c, n) \/ Cardinality(c.records) >= MaxRecords)
  <2> DEFINE marked == IF started = None THEN MarkIssue(c, "monotonic_clock_error") ELSE c
             d == BeginRecord(c, n, started)
  <2>1. Extends(c, marked)
    BY MarkIssueExtends, ExtendsReflexive
  <2>2. marked = CollectorRecord(marked)
    BY <2>1 DEF Extends, IsCollector
  <2>3. d = [marked EXCEPT !.records = marked.records \cup {n}]
    BY <1>3 DEF BeginRecord
  <2> HIDE DEF marked, d
  <2>4. d = [CollectorRecord(marked) EXCEPT !.records = marked.records \cup {n}]
    BY <2>2, <2>3
  <2>5. Alike(marked, d)
    BY <2>2, <2>4 DEF Alike, CollectorRecord
  <2> QED  BY <1>3, <2>1, <2>5, AlikeExtends DEF d
<1> QED  BY <1>1, <1>2, <1>3

LEMMA MeasuredExtends ==
    ASSUME NEW c, IsCollector(c), NEW started, NEW ended
    PROVE  Extends(c, Measured(c, started, ended))
  BY MarkIssueExtends, ExtendsReflexive DEF Measured

LEMMA DurationIsNat ==
    ASSUME NEW started \in Int \cup {None}, NEW ended \in Int \cup {None},
           Duration(started, ended) # None
    PROVE  Duration(started, ended) \in Nat
  BY DEF Duration

LEMMA FinishedExtends ==
    ASSUME NEW m, IsCollector(m), NEW n, NEW ok \in BOOLEAN, NEW now \in Int \cup {None},
           NEW t, t # None => t \in Nat, NEW d,
           d = IF ObservationError(m, now) # None THEN BestEffort(m, ObservationError(m, now))
               ELSE [RecordObservation(m, now, 0, IF ok THEN 1 ELSE 0, IF ok THEN 0 ELSE 1, t)
                       EXCEPT !.finished = @ \cup {n}]
    PROVE  Extends(m, d)
<1>1. CASE ObservationError(m, now) # None
  BY <1>1, BestEffortExtends
<1>2. CASE ObservationError(m, now) = None
  <2> DEFINE r == RecordObservation(m, now, 0, IF ok THEN 1 ELSE 0,
                                    IF ok THEN 0 ELSE 1, t)
  <2>1. /\ 0 \in Nat /\ (IF ok THEN 1 ELSE 0) \in Nat
        /\ (IF ok THEN 0 ELSE 1) \in Nat
    OBVIOUS
  <2>2. Extends(m, r)
    BY <1>2, <2>1, NoErrorMeansRoom, RecordObservationExtends
  <2>3. r = CollectorRecord(r)
    BY <2>2 DEF Extends, IsCollector
  <2>4. d = [r EXCEPT !.finished = r.finished \cup {n}]
    BY <1>2
  <2> HIDE DEF r
  <2>5. d = [CollectorRecord(r) EXCEPT !.finished = r.finished \cup {n}]
    BY <2>3, <2>4
  <2>6. Alike(r, d)
    BY <2>3, <2>5 DEF Alike, CollectorRecord
  <2> QED  BY <2>2, <2>6, AlikeExtends
<1> QED  BY <1>1, <1>2

LEMMA FinishRecordExtends ==
    ASSUME NEW c, IsCollector(c), NEW n, NEW ok \in BOOLEAN, NEW now \in Int \cup {None},
           NEW started \in Int \cup {None}, NEW ended \in Int \cup {None}
    PROVE  /\ Extends(c, FinishRecord(c, n, ok, started, ended, now))
           /\ c.disabled => FinishRecord(c, n, ok, started, ended, now) = c
<1> DEFINE m == IF ok THEN Measured(c, started, ended) ELSE c
           t == IF ok THEN Duration(started, ended) ELSE None
           d == FinishRecord(c, n, ok, started, ended, now)
<1>1. CASE c.disabled \/ n \notin c.records \/ n \in c.finished
  BY <1>1, ExtendsReflexive DEF FinishRecord
<1>2. CASE ~(c.disabled \/ n \notin c.records \/ n \in c.finished)
  <2>1. Extends(c, m) /\ IsCollector(m)
    BY MeasuredExtends, ExtendsReflexive DEF Extends
  <2>2. t # None => t \in Nat
    BY DurationIsNat
  <2>3. d = IF ObservationError(m, now) # None THEN BestEffort(m, ObservationError(m, now))
            ELSE [RecordObservation(m, now, 0, IF ok THEN 1 ELSE 0, IF ok THEN 0 ELSE 1, t)
                    EXCEPT !.finished = @ \cup {n}]
    BY <1>2 DEF FinishRecord
  <2> HIDE DEF m, t, d
  <2>4. Extends(m, d)
    BY <2>1, <2>2, <2>3, FinishedExtends
  <2> QED  BY <1>2, <2>1, <2>4, ExtendsTransitive DEF d
<1> QED  BY <1>1, <1>2

\* What FinishRecordExtends says, for every argument at once.
LEMMA FinishRecordKeeps ==
    \A c, n, ok, started, ended, now :
       /\ IsCollector(c) /\ ok \in BOOLEAN
       /\ started \in Int \cup {None} /\ ended \in Int \cup {None} /\ now \in Int \cup {None}
       => /\ Extends(c, FinishRecord(c, n, ok, started, ended, now))
          /\ c.disabled => FinishRecord(c, n, ok, started, ended, now) = c
<1> SUFFICES ASSUME NEW c, IsCollector(c), NEW n, NEW ok \in BOOLEAN,
                    NEW started \in Int \cup {None}, NEW ended \in Int \cup {None},
                    NEW now \in Int \cup {None}
             PROVE  /\ Extends(c, FinishRecord(c, n, ok, started, ended, now))
                    /\ c.disabled => FinishRecord(c, n, ok, started, ended, now) = c
  OBVIOUS
<1>1. Extends(c, FinishRecord(c, n, ok, started, ended, now))
  BY FinishRecordExtends
<1>2. c.disabled => FinishRecord(c, n, ok, started, ended, now) = c
  BY FinishRecordExtends
<1> QED  BY <1>1, <1>2

\* A collector starts below everything it will publish.
LEMMA NewCollectorSound ==
    ASSUME NEW e, NEW a, NEW identity
    PROVE  LET c == NewCollector(e, a, identity)
           IN  IsCollector(c) /\ Below(c.snapshot, c)
<1> DEFINE c == NewCollector(e, a, identity)
           s == Unobserved(e, a, identity)
           nothing == <<>>
<1>1. IsBuckets(nothing)
  <2>1. DOMAIN nothing = {}
    OBVIOUS
  <2>2. nothing = [x \in DOMAIN nothing |-> nothing[x]]
    OBVIOUS
  <2>3. IsFiniteSet({}) /\ Cardinality({}) = 0 /\ 0 <= MaxBuckets
    BY FS_EmptySet, TelemetryLimits
  <2> QED  BY <2>1, <2>2, <2>3 DEF IsBuckets
<1>2. /\ s.revision = 0 /\ s.issues = {} /\ s.disabled \in BOOLEAN /\ ~s.disabled
      /\ s.buckets = nothing
  BY DEF Unobserved
<1>3. s = SnapshotRecord(s)
  <2>1. ASSUME NEW d
        PROVE  LET t == [execution |-> e, run |-> a.run, entity |-> a.entity,
                         identity |-> identity, revision |-> 0, total |-> None,
                         acceptedAt |-> None, lastAt |-> None, status |-> "unavailable",
                         issues |-> {}, disabled |-> d, buckets |-> <<>>]
               IN  t = SnapshotRecord(t)
    BY DEF SnapshotRecord
  <2> QED  BY <2>1 DEF Unobserved
<1>4. /\ c.revision = 0 /\ c.issues = {} /\ c.disabled \in BOOLEAN /\ ~c.disabled
      /\ c.buckets = nothing /\ c.snapshot = s
  BY DEF NewCollector
<1>5. c = CollectorRecord(c)
  <2>1. ASSUME NEW d, NEW t
        PROVE  LET k == [revision |-> 0, buckets |-> <<>>, records |-> {},
                         finished |-> {}, total |-> None, acceptedAt |-> None,
                         lastAt |-> None, issues |-> {}, disabled |-> d, snapshot |-> t]
               IN  k = CollectorRecord(k)
    BY DEF CollectorRecord
  <2> QED  BY <2>1 DEF NewCollector
<1> HIDE DEF c, s, nothing
<1>6. IsSnapshot(s)
  BY <1>1, <1>2, <1>3 DEF IsSnapshot
<1>7. IsCollector(c)
  BY <1>1, <1>4, <1>5, <1>6 DEF IsCollector
<1>8. Below(s, s)
  BY <1>6, BelowReflexive DEF IsSnapshot
<1>9. Below(c.snapshot, c)
  BY <1>2, <1>4, <1>8 DEF Below
<1> QED  BY <1>7, <1>9 DEF c

-----------------------------------------------------------------------------
(***************************************************************************)
(* What a collector without a quality mark has counted                     *)
(***************************************************************************)
\* A log with one more observation.
Longer(log, new) == Len(new) = Len(log) + 1 /\ \A i \in 1..Len(log) : new[i] = log[i]

LEMMA LogLength == ASSUME NEW log, IsLog(log) PROVE Len(log) \in Nat
  BY DEF IsLog

LEMMA ShownIsStable ==
    ASSUME NEW log, IsLog(log), NEW new, IsLog(new), Longer(log, new),
           NEW buckets, NEW n \in 0..Len(log), Shown(buckets, log, n)
    PROVE  Shown(buckets, new, n)
<1>1. Len(log) \in Nat /\ Len(new) = Len(log) + 1 /\ n \in Nat
  BY LogLength DEF Longer
<1>2. \A i \in 1..n : i \in 1..Len(log) /\ i \in 1..Len(new) /\ new[i] = log[i]
  BY <1>1 DEF Longer
<1>3. ASSUME NEW x, NEW kind
      PROVE  /\ \A i \in 1..n : Part(new, x, kind)[i] = Part(log, x, kind)[i]
             /\ \A i \in 1..n : Time(new, x)[i] = Time(log, x)[i]
  BY <1>2 DEF Part, Time
<1>4. ASSUME NEW x, NEW kind, NEW v
      PROVE  /\ Adds(v, Part(log, x, kind), n) => Adds(v, Part(new, x, kind), n)
             /\ Adds(v, Time(log, x), n) => Adds(v, Time(new, x), n)
  <2> DEFINE f == Part(log, x, kind)
             g == Part(new, x, kind)
             h == Time(log, x)
             k == Time(new, x)
  <2>1. (\A i \in 1..n : g[i] = f[i]) /\ (\A i \in 1..n : k[i] = h[i])
    BY <1>3
  <2> HIDE DEF f, g, h, k
  <2>2. Adds(v, f, n) => Adds(v, g, n)
    BY <1>1, <2>1, AddsPrefix
  <2>3. Adds(v, h, n) => Adds(v, k, n)
    BY <1>1, <2>1, AddsPrefix
  <2> QED  BY <2>2, <2>3 DEF f, g, h, k
<1>5. ASSUME NEW x \in DOMAIN buckets
      PROVE  BucketShows(buckets[x], new, x, n)
  BY <1>4 DEF Shown, BucketShows
<1> QED  BY <1>2, <1>5 DEF Shown

LEMMA ExactIsStable ==
    ASSUME NEW log, IsLog(log), NEW new, IsLog(new), Longer(log, new), NEW s, Exact(s, log)
    PROVE  Exact(s, new)
<1>1. Len(log) \in Nat /\ Len(new) = Len(log) + 1
  BY LogLength DEF Longer
<1> QED  BY <1>1, ShownIsStable DEF Exact

LEMMA MarkIsFlaw ==
    ASSUME NEW c, IsCollector(c), NEW issue
    PROVE  MarkIssue(c, issue).issues # {} /\ BestEffort(c, issue).issues # {}
<1>1. MarkIssue(c, issue).issues # {}
  <2>1. CASE issue \in c.issues
    BY <2>1 DEF MarkIssue
  <2>2. CASE issue \notin c.issues
    <3> DEFINE d == MarkIssue(c, issue)
    <3>1. d = [CollectorRecord(c) EXCEPT !.issues = c.issues \cup {issue},
                                         !.revision = c.revision + 1]
      BY <2>2 DEF MarkIssue, IsCollector
    <3> HIDE DEF d
    <3>2. d.issues = c.issues \cup {issue}
      BY <3>1 DEF CollectorRecord
    <3> QED  BY <3>2 DEF d
  <2> QED  BY <2>1, <2>2
<1>2. Extends(MarkIssue(c, issue), BestEffort(c, issue))
  BY MarkIssueExtends, DisableExtends DEF Extends, BestEffort
<1> QED  BY <1>1, <1>2 DEF Extends, Below

\* What is counted later is not marked unless it was before.
LEMMA FlawsStay ==
    ASSUME NEW c, NEW d, Extends(c, d), d.issues = {}
    PROVE  c.issues = {}
  BY DEF Extends, Below

\* One observation adds what the log says of it to its second, and nothing to
\* the others.
LEMMA ObservationCounts ==
    ASSUME NEW c, IsCollector(c), NEW log, IsLog(log), NEW new, IsLog(new),
           Longer(log, new), Shown(c.buckets, log, Len(log)),
           NEW now, now # None, new[Len(new)].at = now,
           NEW accepted, accepted = IF new[Len(new)].kind = "accepted"
                                      THEN new[Len(new)].count ELSE 0,
           NEW completed, completed = IF new[Len(new)].kind = "completed"
                                        THEN new[Len(new)].count ELSE 0,
           NEW failed, failed = IF new[Len(new)].kind = "failed"
                                  THEN new[Len(new)].count ELSE 0,
           NEW duration, new[Len(new)].took = IF duration = None THEN 0 ELSE duration,
           completed = IF duration = None THEN 0 ELSE 1
    PROVE  Shown(RecordObservation(c, now, accepted, completed, failed, duration).buckets,
                 new, Len(new))
<1> DEFINE start == now \div Second
           m == Len(log)
           z == new[Len(new)]
           took == IF duration = None THEN 0 ELSE duration
           bucket == IF start \in DOMAIN c.buckets THEN c.buckets[start] ELSE NewBucket(now)
           counted == [first |-> bucket.first, last |-> now, revision |-> bucket.revision + 1,
                       accepted |-> bucket.accepted + accepted,
                       completed |-> bucket.completed + completed,
                       failed |-> bucket.failed + failed,
                       samples |-> bucket.samples + (IF duration = None THEN 0 ELSE 1),
                       sum |-> bucket.sum + (IF duration = None THEN 0 ELSE duration)]
           buckets == [s \in DOMAIN c.buckets \cup {start} |->
                         IF s = start THEN counted ELSE c.buckets[s]]
           d == RecordObservation(c, now, accepted, completed, failed, duration)
<1>1. m \in Nat /\ Len(new) = m + 1 /\ m + 1 \in 1..Len(new)
  BY LogLength DEF Longer
<1>2. \A i \in 1..m : i \in 1..Len(new) /\ new[i] = log[i]
  BY <1>1 DEF Longer
<1>3. d.buckets = buckets
  <2>1. d = [CollectorRecord(c) EXCEPT !.buckets = buckets, !.lastAt = now,
                                       !.revision = c.revision + 1]
    BY DEF RecordObservation, IsCollector
  <2> HIDE DEF d, buckets
  <2> QED  BY <2>1 DEF CollectorRecord
<1>4. /\ accepted \in Nat /\ completed \in Nat /\ failed \in Nat /\ took \in Nat
      /\ z.at = now /\ z.took = took
  BY <1>1 DEF IsLog
<1>5. ASSUME NEW x, NEW kind
      PROVE  /\ \A i \in 1..m : Part(new, x, kind)[i] = Part(log, x, kind)[i]
             /\ \A i \in 1..m : Time(new, x)[i] = Time(log, x)[i]
  BY <1>1, <1>2 DEF Part, Time
<1>6. ASSUME NEW x
      PROVE  /\ Part(new, x, "accepted")[m + 1] = IF x = start THEN accepted ELSE 0
             /\ Part(new, x, "completed")[m + 1] = IF x = start THEN completed ELSE 0
             /\ Part(new, x, "failed")[m + 1] = IF x = start THEN failed ELSE 0
             /\ Time(new, x)[m + 1] = IF x = start THEN took ELSE 0
  BY <1>1, <1>4 DEF Part, Time
<1>7. ASSUME NEW x, NEW kind, NEW v, NEW k \in Nat
      PROVE  /\ Adds(v, Part(log, x, kind), m) /\ Part(new, x, kind)[m + 1] = k
                   => Adds(v + k, Part(new, x, kind), m + 1)
             /\ Adds(v, Time(log, x), m) /\ Time(new, x)[m + 1] = k
                   => Adds(v + k, Time(new, x), m + 1)
  <2> DEFINE f == Part(log, x, kind)
             g == Part(new, x, kind)
             h == Time(log, x)
             u == Time(new, x)
  <2>1. (\A i \in 1..m : g[i] = f[i]) /\ (\A i \in 1..m : u[i] = h[i])
    BY <1>5
  <2>2. m \in Nat
    BY <1>1
  <2> HIDE DEF f, g, h, u, m
  <2>3. Adds(v, f, m) /\ g[m + 1] = k => Adds(v + k, g, m + 1)
    BY <2>1, <2>2, AddsMore
  <2>4. Adds(v, h, m) /\ u[m + 1] = k => Adds(v + k, u, m + 1)
    BY <2>1, <2>2, AddsMore
  <2> QED  BY <2>3, <2>4 DEF f, g, h, u
<1>8. BucketShows(bucket, log, start, m)
  <2>1. CASE start \in DOMAIN c.buckets
    BY <2>1 DEF Shown
  <2>2. CASE start \notin DOMAIN c.buckets
    <3>1. \A i \in 1..m : log[i].at \div Second # start
      BY <2>2 DEF Shown
    <3>2. ASSUME NEW kind
          PROVE  Adds(0, Part(log, start, kind), m)
      BY <1>1, <3>1, AddsNothing DEF Part
    <3>3. Adds(0, Time(log, start), m)
      BY <1>1, <3>1, AddsNothing DEF Time
    <3>4. /\ bucket.accepted = 0 /\ bucket.completed = 0 /\ bucket.failed = 0
          /\ bucket.samples = 0 /\ bucket.sum = 0
      BY <2>2 DEF NewBucket
    <3> QED  BY <3>2, <3>3, <3>4 DEF BucketShows
  <2> QED  BY <2>1, <2>2
<1>9. /\ counted.accepted = bucket.accepted + accepted
      /\ counted.completed = bucket.completed + completed
      /\ counted.failed = bucket.failed + failed
      /\ counted.samples = bucket.samples + completed
      /\ counted.sum = bucket.sum + took
  OBVIOUS
<1>10. /\ DOMAIN buckets = DOMAIN c.buckets \cup {start} /\ buckets[start] = counted
      /\ \A x \in DOMAIN c.buckets : x # start => buckets[x] = c.buckets[x]
  BY Zenon
<1> HIDE DEF bucket, counted, buckets, d, took
<1>11. BucketShows(counted, new, start, m + 1)
  <2>1. /\ Adds(counted.accepted, Part(new, start, "accepted"), m + 1)
        /\ Adds(counted.completed, Part(new, start, "completed"), m + 1)
        /\ Adds(counted.failed, Part(new, start, "failed"), m + 1)
    BY <1>4, <1>6, <1>8, <1>9, <1>7 DEF BucketShows
  <2>2. Adds(counted.sum, Time(new, start), m + 1)
    BY <1>4, <1>6, <1>8, <1>9, <1>7 DEF BucketShows
  <2> QED  BY <1>8, <1>9, <2>1, <2>2 DEF BucketShows
<1>12. ASSUME NEW x \in DOMAIN c.buckets, x # start
       PROVE  BucketShows(c.buckets[x], new, x, m + 1)
  <2> DEFINE b == c.buckets[x]
  <2>1. BucketShows(b, log, x, m)
    BY DEF Shown
  <2>2. /\ b.accepted + 0 = b.accepted /\ b.completed + 0 = b.completed
        /\ b.failed + 0 = b.failed /\ b.sum + 0 = b.sum
    BY DEF IsCollector, IsBuckets, IsBucket
  <2>3. /\ Adds(b.accepted + 0, Part(new, x, "accepted"), m + 1)
        /\ Adds(b.completed + 0, Part(new, x, "completed"), m + 1)
        /\ Adds(b.failed + 0, Part(new, x, "failed"), m + 1)
    BY <1>6, <1>12, <2>1, <1>7 DEF BucketShows
  <2>4. Adds(b.sum + 0, Time(new, x), m + 1)
    BY <1>6, <1>12, <2>1, <1>7 DEF BucketShows
  <2> QED  BY <2>1, <2>2, <2>3, <2>4 DEF BucketShows
<1>13. \A i \in 1..(m + 1) : new[i].at # None /\ new[i].at \div Second \in DOMAIN buckets
  <2> SUFFICES ASSUME NEW i \in 1..(m + 1)
               PROVE  new[i].at # None /\ new[i].at \div Second \in DOMAIN buckets
    OBVIOUS
  <2>1. CASE i = m + 1
    BY <1>1, <1>4, <1>10, <2>1
  <2>2. CASE i # m + 1
    <3>1. i \in 1..m
      BY <1>1, <2>2
    <3>2. new[i] = log[i] /\ log[i].at # None /\ log[i].at \div Second \in DOMAIN c.buckets
      BY <1>2, <3>1 DEF Shown
    <3> QED  BY <1>10, <3>2
  <2> QED  BY <2>1, <2>2
<1>14. \A x \in DOMAIN buckets : BucketShows(buckets[x], new, x, m + 1)
  BY <1>10, <1>11, <1>12
<1>15. Shown(buckets, new, m + 1)
  BY <1>13, <1>14 DEF Shown
<1> QED  BY <1>1, <1>3, <1>15 DEF d

\* What an observation changes besides the buckets.
LEMMA ObservationFields ==
    ASSUME NEW c, IsCollector(c), NEW now, NEW accepted, NEW completed, NEW failed,
           NEW duration
    PROVE  LET r == RecordObservation(c, now, accepted, completed, failed, duration)
           IN  /\ r = CollectorRecord(r)
               /\ r.revision = c.revision + 1 /\ r.disabled = c.disabled
               /\ r.records = c.records /\ r.finished = c.finished
<1> DEFINE r == RecordObservation(c, now, accepted, completed, failed, duration)
<1>1. PICK buckets : r = [CollectorRecord(c) EXCEPT !.buckets = buckets, !.lastAt = now,
                                                    !.revision = c.revision + 1]
  BY Zenon DEF RecordObservation, IsCollector
<1> HIDE DEF r
<1>2. /\ r = CollectorRecord(r)
      /\ r.revision = c.revision + 1 /\ r.disabled = c.disabled
      /\ r.records = c.records /\ r.finished = c.finished
  BY <1>1 DEF CollectorRecord
<1> QED  BY <1>2 DEF r

\* An execution starts with nothing counted, and its batch is the first thing.
LEMMA AcceptBatchCounts ==
    ASSUME NEW e, NEW a, NEW identity, NEW total \in Nat, NEW now \in Int \cup {None},
           NEW new, IsLog(new),
           Len(new) = 1, new[1] = [kind |-> "accepted", at |-> now, count |-> total, took |-> 0]
    PROVE  LET c == AcceptBatch(NewCollector(e, a, identity), total, now)
           IN  Counts(c, new) /\ (c.snapshot # None => Exact(c.snapshot, new))
<1> DEFINE c == NewCollector(e, a, identity)
           d == AcceptBatch(c, total, now)
           nothing == <<>>
<1>1. /\ IsCollector(c) /\ c.buckets = nothing /\ c.revision = 0 /\ ~c.disabled
      /\ c.records = {} /\ c.finished = {}
      /\ c.snapshot.revision = 0 /\ c.snapshot.buckets = nothing
  BY NewCollectorSound DEF NewCollector, Unobserved
<1>2. Shown(nothing, new, 0)
  <2>1. DOMAIN nothing = {} /\ 1..0 = {}
    OBVIOUS
  <2> HIDE DEF nothing
  <2> QED  BY <2>1 DEF Shown
<1>3. Extends(c, d) /\ d.snapshot = c.snapshot
  BY <1>1, AcceptBatchExtends DEF Extends
<1> HIDE DEF c
<1>4. Exact(d.snapshot, new)
  BY <1>1, <1>2, <1>3 DEF Exact
<1>5. SUFFICES ASSUME d.issues = {}
               PROVE  Counts(d, new)
  BY <1>4 DEF Counts, c
<1>6. ObservationError(c, now) = None
  BY <1>1, <1>5, MarkIsFlaw DEF AcceptBatch
<1> DEFINE r == RecordObservation(c, now, total, 0, 0, None)
<1>7. now # None
  BY <1>6, NoneIsNoError DEF ObservationError
<1>8. Shown(r.buckets, new, 1)
  <2>1. IsLog(nothing) /\ Len(nothing) = 0
    <3>1. nothing \in Seq({}) /\ Len(nothing) = 0 /\ 1..0 = {}
      OBVIOUS
    <3> HIDE DEF nothing
    <3> QED  BY <3>1 DEF IsLog
  <2>2. Shown(c.buckets, nothing, Len(nothing))
    <3>1. DOMAIN c.buckets = {} /\ 1..0 = {}
      BY <1>1
    <3> QED  BY <2>1, <3>1 DEF Shown
  <2>3. Longer(nothing, new)
    BY <2>1 DEF Longer
  <2>4. /\ new[1].kind = "accepted" /\ new[1].at = now /\ new[1].count = total
        /\ new[1].took = 0
    OBVIOUS
  <2> DEFINE z == new[Len(new)]
  <2>5. /\ z.at = now /\ total = IF z.kind = "accepted" THEN z.count ELSE 0
        /\ 0 = IF z.kind = "completed" THEN z.count ELSE 0
        /\ 0 = IF z.kind = "failed" THEN z.count ELSE 0
        /\ z.took = IF None = None THEN 0 ELSE None
        /\ 0 = IF None = None THEN 0 ELSE 1
    BY <2>4
  <2> HIDE DEF nothing
  <2>6. Shown(r.buckets, new, Len(new))
    BY <1>1, <1>7, <2>1, <2>2, <2>3, <2>5, ObservationCounts
  <2> QED  BY <2>6
<1>9. /\ d.buckets = r.buckets /\ d.revision = 1 /\ d.records = {} /\ d.finished = {}
      /\ ~d.disabled
  <2>1. Extends(c, r)
    BY <1>1, <1>6, NoErrorMeansRoom, RecordObservationExtends
  <2>2. r = CollectorRecord(r)
    BY <2>1 DEF Extends, IsCollector
  <2>3. /\ r.revision = 1 /\ r.records = {} /\ r.finished = {} /\ r.disabled = c.disabled
    BY <1>1, ObservationFields
  <2>4. d = [CollectorRecord(r) EXCEPT !.total = total, !.acceptedAt = now]
    BY <1>6, <2>2 DEF AcceptBatch
  <2> HIDE DEF r, d
  <2>5. /\ d.buckets = r.buckets /\ d.revision = r.revision /\ d.records = r.records
        /\ d.finished = r.finished /\ d.disabled = r.disabled
    BY <2>4 DEF CollectorRecord
  <2> QED  BY <1>1, <2>3, <2>5
<1> HIDE DEF r, d
<1> QED  BY <1>8, <1>9 DEF Counts

\* A record that is begun and ends is counted once, with the time it took, or
\* leaves a quality mark.
LEMMA CallbackCounts ==
    ASSUME NEW c, IsCollector(c), NEW log, IsLog(log), Counts(c, log),
           NEW ok \in BOOLEAN, NEW now \in Int \cup {None}, NEW mono,
           mono.started \in Int \cup {None}, mono.ended \in Int \cup {None},
           NEW new, IsLog(new), Longer(log, new),
           new[Len(new)] = [kind |-> IF ok THEN "completed" ELSE "failed", at |-> now,
                            count |-> 1, took |-> IF ok THEN Took(mono) ELSE 0]
    PROVE  Counts(FinishRecord(BeginRecord(c, Len(log), mono.started), Len(log), ok,
                               mono.started, mono.ended, now), new)
<1> DEFINE n == Len(log)
           g == BeginRecord(c, n, mono.started)
           t == IF ok THEN Duration(mono.started, mono.ended) ELSE None
           r == RecordObservation(g, now, 0, IF ok THEN 1 ELSE 0, IF ok THEN 0 ELSE 1, t)
           d == FinishRecord(g, n, ok, mono.started, mono.ended, now)
<1>1. Len(log) \in Nat /\ Len(new) = Len(log) + 1
  BY LogLength DEF Longer
<1>2. Extends(c, g) /\ IsCollector(g)
  BY BeginRecordExtends DEF Extends
<1>3. Extends(g, d)
  <2>1. ASSUME NEW i \in Int \cup {None}, NEW j \in Int \cup {None}
        PROVE  Extends(g, FinishRecord(g, n, ok, i, j, now))
    BY <1>2, FinishRecordExtends
  <2> QED  BY <2>1, Zenon
<1>4. SUFFICES ASSUME d.issues = {}
               PROVE  Counts(d, new)
  BY DEF Counts
<1>5. g.issues = {} /\ c.issues = {}
  BY <1>2, <1>3, <1>4, FlawsStay
<1>6. /\ ~c.disabled /\ c.revision = n /\ n \notin c.records /\ n \notin c.finished
      /\ \A k \in c.records \cup c.finished : k \in Nat /\ k < n
      /\ Shown(c.buckets, log, n)
  BY <1>1, <1>5 DEF Counts
<1>7. /\ g.records = c.records \cup {n} /\ g.finished = c.finished /\ ~g.disabled
      /\ g.revision = n /\ g.buckets = c.buckets /\ mono.started # None
  <2>1. ~(BeginRefused(c, n) \/ Cardinality(c.records) >= MaxRecords)
    BY <1>5, <1>6, MarkIsFlaw DEF BeginRecord
  <2> DEFINE marked == IF mono.started = None THEN MarkIssue(c, "monotonic_clock_error") ELSE c
  <2>2. g = [marked EXCEPT !.records = marked.records \cup {n}]
    BY <1>6, <2>1 DEF BeginRecord
  <2>3. marked = CollectorRecord(marked)
    BY MarkIssueExtends DEF Extends, IsCollector
  <2>4. mono.started = None => marked.issues # {}
    BY MarkIsFlaw
  <2>5. mono.started # None => marked = c
    OBVIOUS
  <2> HIDE DEF g, marked, n
  <2>6. g = [CollectorRecord(marked) EXCEPT !.records = marked.records \cup {n}]
    BY <2>2, <2>3
  <2>7. /\ g.records = marked.records \cup {n} /\ g.finished = marked.finished
        /\ g.disabled = marked.disabled /\ g.revision = marked.revision
        /\ g.buckets = marked.buckets /\ g.issues = marked.issues
    BY <2>6 DEF CollectorRecord
  <2>8. marked = c /\ mono.started # None
    BY <1>5, <2>4, <2>5, <2>7
  <2>9. ~g.disabled
    BY <1>6, <2>7, <2>8, Zenon
  <2> QED  BY <1>6, <2>7, <2>8, <2>9
<1> HIDE DEF g
<1>8. t # None => t \in Nat
  BY DurationIsNat
<1>9. ok => Measured(g, mono.started, mono.ended) = g /\ t # None
  <2> SUFFICES ASSUME ok
               PROVE  mono.ended # None /\ ~(mono.ended < mono.started)
    <3>1. ASSUME NEW i \in Int \cup {None}, NEW j \in Int \cup {None},
                 i # None, j # None, ~(j < i)
          PROVE  Measured(g, i, j) = g /\ Duration(i, j) # None
      <4>1. j - i \in Nat
        BY <3>1
      <4> QED  BY <3>1, <4>1, NoneIsNoDuration DEF Measured, Duration
    <3> QED  BY <1>7, <3>1
  <2> DEFINE m == Measured(g, mono.started, mono.ended)
  <2>1. IsCollector(m)
    BY <1>2, MeasuredExtends DEF Extends
  <2>2. d = IF ObservationError(m, now) # None THEN BestEffort(m, ObservationError(m, now))
            ELSE [RecordObservation(m, now, 0, IF ok THEN 1 ELSE 0,
                                    IF ok THEN 0 ELSE 1, t) EXCEPT !.finished = @ \cup {n}]
    BY <1>6, <1>7 DEF FinishRecord
  <2> HIDE DEF m, t, d
  <2>3. Extends(m, d)
    BY <1>8, <2>1, <2>2, FinishedExtends
  <2>4. m.issues = {}
    BY <1>4, <2>3, FlawsStay
  <2> QED  BY <1>2, <1>7, <2>4, MarkIsFlaw DEF Measured, m
<1>10. d = IF ObservationError(g, now) # None THEN BestEffort(g, ObservationError(g, now))
           ELSE [r EXCEPT !.finished = @ \cup {n}]
  BY <1>6, <1>7, <1>9 DEF FinishRecord
<1>11. ObservationError(g, now) = None
  BY <1>2, <1>4, <1>10, MarkIsFlaw
<1>12. now # None
  BY <1>11, NoneIsNoError DEF ObservationError
<1>13. Shown(r.buckets, new, Len(new))
  <2> DEFINE z == new[Len(new)]
             completed == IF ok THEN 1 ELSE 0
             failed == IF ok THEN 0 ELSE 1
  <2>1. /\ z.kind = (IF ok THEN "completed" ELSE "failed") /\ z.at = now /\ z.count = 1
        /\ z.took = IF ok THEN Took(mono) ELSE 0
    OBVIOUS
  <2>2. z.took = IF t = None THEN 0 ELSE t
    BY <1>9, <2>1 DEF Took, Duration
  <2>3. completed = IF t = None THEN 0 ELSE 1
    BY <1>9
  <2>4. /\ 0 = IF z.kind = "accepted" THEN z.count ELSE 0
        /\ completed = IF z.kind = "completed" THEN z.count ELSE 0
        /\ failed = IF z.kind = "failed" THEN z.count ELSE 0
    BY <2>1
  <2>5. Shown(g.buckets, log, Len(log))
    BY <1>6, <1>7
  <2> HIDE DEF t, completed, failed
  <2>6. Shown(RecordObservation(g, now, 0, completed, failed, t).buckets, new, Len(new))
    BY <1>2, <1>12, <2>1, <2>2, <2>3, <2>4, <2>5, ObservationCounts
  <2> QED  BY <2>6 DEF completed, failed
<1>14. /\ d.buckets = r.buckets /\ d.revision = n + 1 /\ ~d.disabled
       /\ d.records = g.records /\ d.finished = g.finished \cup {n}
  <2>1. /\ r = CollectorRecord(r) /\ r.revision = n + 1 /\ r.disabled = g.disabled
        /\ r.records = g.records /\ r.finished = g.finished
    BY <1>2, <1>7, ObservationFields
  <2>2. d = [CollectorRecord(r) EXCEPT !.finished = r.finished \cup {n}]
    BY <1>10, <1>11, <2>1
  <2> HIDE DEF r, d, n
  <2>3. /\ d.buckets = r.buckets /\ d.revision = r.revision /\ d.disabled = r.disabled
        /\ d.records = r.records /\ d.finished = r.finished \cup {n}
    BY <2>2 DEF CollectorRecord
  <2> QED  BY <1>7, <2>1, <2>3
<1> HIDE DEF r, d, t
<1>15. \A k \in d.records \cup d.finished : k \in Nat /\ k < Len(new)
  BY <1>1, <1>6, <1>7, <1>14
<1> QED  BY <1>1, <1>13, <1>14, <1>15 DEF Counts

-----------------------------------------------------------------------------
(***************************************************************************)
(* Snapshots, buffering and storing keep the order                         *)
(***************************************************************************)
LEMMA TakeSnapshotEffect ==
    ASSUME NEW c, IsCollector(c), Below(c.snapshot, c)
    PROVE  LET d == TakeSnapshot(c)
           IN  /\ IsCollector(d) /\ Below(d.snapshot, d)
               /\ d.snapshot.revision = d.revision
               /\ Grows(c.snapshot, d.snapshot)
               /\ d.snapshot.identity = c.snapshot.identity
               /\ c.disabled => d.disabled
<1> DEFINE d == TakeSnapshot(c)
<1>1. CASE c.snapshot.revision = c.revision
  <2>1. d = c
    BY <1>1 DEF TakeSnapshot
  <2>2. Grows(c.snapshot, c.snapshot)
    BY GrowsReflexive DEF IsCollector
  <2> QED  BY <1>1, <2>1, <2>2
<1>2. CASE c.snapshot.revision # c.revision /\ TelemetryValid(BuildSnapshot(c))
  <2> DEFINE b == BuildSnapshot(c)
  <2>1. b = [SnapshotRecord(c.snapshot) EXCEPT
               !.revision = c.revision, !.total = c.total, !.acceptedAt = c.acceptedAt,
               !.lastAt = c.lastAt, !.status = StatusOf(c.buckets, c.issues),
               !.issues = c.issues, !.disabled = c.disabled, !.buckets = c.buckets]
    BY DEF BuildSnapshot, IsCollector, IsSnapshot
  <2>2. d = [CollectorRecord(c) EXCEPT !.snapshot = b]
    BY <1>2 DEF TakeSnapshot, IsCollector
  <2> HIDE DEF b, d
  <2>3. /\ b = SnapshotRecord(b)
        /\ b.execution = c.snapshot.execution /\ b.revision = c.revision
        /\ b.identity = c.snapshot.identity
        /\ b.issues = c.issues /\ b.disabled = c.disabled /\ b.buckets = c.buckets
    BY <2>1 DEF SnapshotRecord
  <2>4. /\ d = CollectorRecord(d) /\ d.snapshot = b
        /\ d.revision = c.revision /\ d.issues = c.issues
        /\ d.disabled = c.disabled /\ d.buckets = c.buckets
    BY <2>2 DEF CollectorRecord
  <2>5. IsSnapshot(b)
    BY <2>3 DEF IsSnapshot, IsCollector
  <2>6. IsCollector(d)
    BY <2>4, <2>5 DEF IsCollector
  <2>7. Below(c, c)
    BY BelowReflexive DEF IsCollector
  <2>8. Below(d.snapshot, d) /\ Below(c.snapshot, b)
    BY <2>3, <2>4, <2>7 DEF Below
  <2>9. Grows(c.snapshot, b)
    BY <1>2, <2>3, <2>8 DEF Grows
  <2> QED  BY <2>3, <2>4, <2>6, <2>8, <2>9 DEF d
<1>3. CASE c.snapshot.revision # c.revision /\ ~TelemetryValid(BuildSnapshot(c))
  <2> DEFINE failed == BestEffort(c, "internal_error")
             b == Degraded(failed)
  <2>1. Extends(c, failed) /\ failed.disabled
    BY BestEffortExtends
  <2>2. IsCollector(failed) /\ failed.snapshot = c.snapshot /\ Below(c, failed)
    BY <2>1 DEF Extends
  <2>3. d = [failed EXCEPT !.snapshot = b]
    BY <1>3 DEF TakeSnapshot
  <2> HIDE DEF failed, d
  <2>4. b = [SnapshotRecord(c.snapshot) EXCEPT
               !.revision = failed.revision, !.issues = failed.issues,
               !.disabled = failed.disabled,
               !.status = IF DOMAIN c.snapshot.buckets = {} THEN "unavailable" ELSE "partial"]
    BY <2>2 DEF Degraded, IsCollector, IsSnapshot
  <2> HIDE DEF b
  <2>5. d = [CollectorRecord(failed) EXCEPT !.snapshot = b]
    BY <2>2, <2>3 DEF IsCollector
  <2>6. /\ b = SnapshotRecord(b)
        /\ b.execution = c.snapshot.execution /\ b.revision = failed.revision
        /\ b.identity = c.snapshot.identity
        /\ b.issues = failed.issues /\ b.disabled = failed.disabled
        /\ b.buckets = c.snapshot.buckets
    BY <2>4 DEF SnapshotRecord
  <2>7. /\ d = CollectorRecord(d) /\ d.snapshot = b
        /\ d.revision = failed.revision /\ d.issues = failed.issues
        /\ d.disabled = failed.disabled /\ d.buckets = failed.buckets
    BY <2>5 DEF CollectorRecord
  <2>8. IsSnapshot(b)
    BY <2>2, <2>6 DEF IsSnapshot, IsCollector
  <2>9. IsCollector(d)
    BY <2>2, <2>7, <2>8 DEF IsCollector
  <2>10. Below(c.snapshot, failed)
    BY <2>2, BelowTransitive DEF IsCollector, IsSnapshot
  <2>11. Below(c.snapshot, c.snapshot)
    BY BelowReflexive DEF IsCollector, IsSnapshot
  <2>12. Below(d.snapshot, d) /\ Below(c.snapshot, b)
    BY <2>2, <2>6, <2>7, <2>10, <2>11 DEF Below, IsCollector
  <2>13. b.revision # c.snapshot.revision
    BY <1>3, <2>2, <2>6 DEF Below, IsCollector, IsSnapshot
  <2>14. Grows(c.snapshot, b)
    BY <2>6, <2>12, <2>13 DEF Grows
  <2> QED  BY <2>1, <2>6, <2>7, <2>9, <2>12, <2>14 DEF d
<1> QED  BY <1>1, <1>2, <1>3

\* A snapshot without a quality mark is taken of a collector without one.
LEMMA TakeSnapshotTells ==
    ASSUME NEW c, IsCollector(c), NEW log, IsLog(log), Counts(c, log),
           c.snapshot # None => Exact(c.snapshot, log)
    PROVE  LET d == TakeSnapshot(c)
           IN  Counts(d, log) /\ (d.snapshot # None => Exact(d.snapshot, log))
<1> DEFINE d == TakeSnapshot(c)
<1>1. CASE c.snapshot.revision = c.revision
  BY <1>1 DEF TakeSnapshot
<1>2. CASE c.snapshot.revision # c.revision /\ TelemetryValid(BuildSnapshot(c))
  <2> DEFINE b == BuildSnapshot(c)
  <2>1. b = [SnapshotRecord(c.snapshot) EXCEPT
               !.revision = c.revision, !.total = c.total, !.acceptedAt = c.acceptedAt,
               !.lastAt = c.lastAt, !.status = StatusOf(c.buckets, c.issues),
               !.issues = c.issues, !.disabled = c.disabled, !.buckets = c.buckets]
    BY DEF BuildSnapshot, IsCollector, IsSnapshot
  <2>2. d = [CollectorRecord(c) EXCEPT !.snapshot = b]
    BY <1>2 DEF TakeSnapshot, IsCollector
  <2> HIDE DEF b, d
  <2>3. b.revision = c.revision /\ b.issues = c.issues /\ b.buckets = c.buckets
    BY <2>1 DEF SnapshotRecord
  <2>4. /\ d.snapshot = b /\ d.revision = c.revision /\ d.issues = c.issues
        /\ d.disabled = c.disabled /\ d.buckets = c.buckets
        /\ d.records = c.records /\ d.finished = c.finished
    BY <2>2 DEF CollectorRecord
  <2>5. Counts(d, log)
    BY <2>4 DEF Counts
  <2>6. Exact(b, log)
    BY <2>3, LogLength DEF Exact, Counts
  <2> QED  BY <2>4, <2>5, <2>6 DEF d
<1>3. CASE c.snapshot.revision # c.revision /\ ~TelemetryValid(BuildSnapshot(c))
  <2> DEFINE failed == BestEffort(c, "internal_error")
             b == Degraded(failed)
  <2>1. failed.issues # {} /\ Extends(c, failed)
    BY MarkIsFlaw, BestEffortExtends
  <2>2. IsCollector(failed) /\ failed.snapshot = c.snapshot
    BY <2>1 DEF Extends
  <2>3. d = [failed EXCEPT !.snapshot = b]
    BY <1>3 DEF TakeSnapshot
  <2> HIDE DEF failed, d
  <2>4. b = [SnapshotRecord(c.snapshot) EXCEPT
               !.revision = failed.revision, !.issues = failed.issues,
               !.disabled = failed.disabled,
               !.status = IF DOMAIN c.snapshot.buckets = {} THEN "unavailable" ELSE "partial"]
    BY <2>2 DEF Degraded, IsCollector, IsSnapshot
  <2> HIDE DEF b
  <2>5. d = [CollectorRecord(failed) EXCEPT !.snapshot = b]
    BY <2>2, <2>3 DEF IsCollector
  <2>6. b.issues = failed.issues
    BY <2>4 DEF SnapshotRecord
  <2>7. d.snapshot = b /\ d.issues = failed.issues
    BY <2>5 DEF CollectorRecord
  <2> QED  BY <2>1, <2>6, <2>7 DEF Counts, Exact, d
<1> QED  BY <1>1, <1>2, <1>3

\* Two snapshots that contain each other are one.
LEMMA GrowsAntisymmetric ==
    ASSUME NEW s, NEW t, IsSnapshot(s), IsSnapshot(t), Grows(s, t), Grows(t, s)
    PROVE  s = t
<1>1. s.revision \in Nat /\ t.revision \in Nat
  BY DEF IsSnapshot
<1> QED  BY <1>1 DEF Grows, Below

LEMMA ReferencePresent ==
    ASSUME NEW o, IsObserver(o), Reference(o) # None
    PROVE  IsSnapshot(Reference(o))
  BY DEF IsObserver, Reference

\* The order knows pending and saved only.
LEMMA ChainOfObserver ==
    ASSUME NEW c, NEW o, NEW row, NEW stuck, Chain(c, o, row, stuck),
           NEW p, p = ObserverRecord(p), p.failures \in Nat, p.disabled \in BOOLEAN,
           p.closed \in BOOLEAN, p.pending = o.pending, p.saved = o.saved
    PROVE  Chain(c, p, row, stuck)
<1>1. Reference(p) = Reference(o)
  BY DEF Reference
<1>2. IsObserver(p)
  BY DEF Chain, IsObserver
<1> QED  BY <1>1, <1>2 DEF Chain

LEMMA ChainOfCollector ==
    ASSUME NEW c, NEW o, NEW row, NEW stuck, Chain(c, o, row, stuck),
           NEW d, Extends(c, d)
    PROVE  Chain(d, o, row, stuck)
<1>1. IsCollector(c) /\ Below(c.snapshot, c)
  BY DEF Chain
<1>2. IsCollector(d) /\ d.snapshot = c.snapshot /\ Below(c, d)
  BY DEF Extends
<1>3. Below(d.snapshot, d)
  BY <1>1, <1>2, BelowTransitive DEF IsCollector, IsSnapshot
<1> QED  BY <1>2, <1>3 DEF Chain

LEMMA ChainOfSnapshot ==
    ASSUME NEW c, NEW o, NEW row, NEW stuck, Chain(c, o, row, stuck)
    PROVE  Chain(TakeSnapshot(c), o, row, stuck)
<1> DEFINE d == TakeSnapshot(c)
<1>1. IsCollector(c) /\ Below(c.snapshot, c) /\ IsSnapshot(c.snapshot)
  BY DEF Chain, IsCollector
<1>2. /\ IsCollector(d) /\ Below(d.snapshot, d) /\ Grows(c.snapshot, d.snapshot)
      /\ IsSnapshot(d.snapshot)
  BY <1>1, TakeSnapshotEffect DEF IsCollector
<1> HIDE DEF d
<1>3. Reference(o) # None => Grows(Reference(o), d.snapshot)
  BY <1>1, <1>2, ReferencePresent, GrowsTransitive DEF Chain
<1>4. Chain(d, o, row, stuck)
  BY <1>2, <1>3 DEF Chain
<1> QED  BY <1>4 DEF d

\* The observer takes every snapshot its collector publishes.
LEMMA BufferEffect ==
    ASSUME NullIsNoFunction, NEW c, NEW o, NEW row, NEW stuck, Chain(c, o, row, stuck)
    PROVE  LET p == Buffer(o, c.snapshot)
           IN  /\ BufferAccepts(o, c.snapshot)
               /\ p.pending = c.snapshot /\ p.saved = o.saved
               /\ p.failures = o.failures /\ p.disabled = o.disabled
               /\ p.closed = o.closed
               /\ Reference(p) = c.snapshot
               /\ Chain(c, p, row, stuck)
<1> DEFINE s == c.snapshot
           p == Buffer(o, s)
<1>1. IsSnapshot(s) /\ s # None /\ IsObserver(o)
  BY SnapshotPresent DEF Chain, IsCollector
<1>2. ASSUME Reference(o) # None
      PROVE  /\ IsSnapshot(Reference(o)) /\ Grows(Reference(o), s)
             /\ s.execution = Reference(o).execution
             /\ s.revision = Reference(o).revision => s = Reference(o)
             /\ ~(s.revision < Reference(o).revision)
  <2>1. IsSnapshot(Reference(o)) /\ Grows(Reference(o), s)
    BY <1>1, <1>2, ReferencePresent DEF Chain
  <2>2. Reference(o).revision \in Nat /\ s.revision \in Nat
    BY <1>1, <2>1 DEF IsSnapshot
  <2> QED  BY <2>1, <2>2 DEF Grows, Below
<1>3. BufferAccepts(o, s)
  BY <1>1, <1>2 DEF BufferAccepts, IsSnapshot, IsBuckets
<1>4. p = [ObserverRecord(o) EXCEPT !.pending = s]
  BY <1>1, <1>2 DEF Buffer, IsObserver
<1> HIDE DEF p
<1>5. /\ p = ObserverRecord(p) /\ p.pending = s /\ p.saved = o.saved
      /\ p.failures = o.failures /\ p.disabled = o.disabled /\ p.closed = o.closed
  BY <1>4 DEF ObserverRecord
<1> HIDE DEF s
<1>6. Reference(p) = s
  BY <1>1, <1>5 DEF Reference
<1>7. o.pending # None => IsSnapshot(o.pending) /\ Grows(o.pending, s)
  BY <1>2 DEF Reference
<1>8. o.saved # None => IsSnapshot(o.saved) /\ Grows(o.saved, s)
  <2>1. CASE o.pending = None
    BY <1>2, <2>1 DEF Reference
  <2>2. CASE o.pending # None
    BY <1>1, <1>7, <2>2, GrowsTransitive DEF IsObserver
  <2> QED  BY <2>1, <2>2
<1>9. IsObserver(p)
  BY <1>1, <1>5, <1>8 DEF IsObserver
<1>10. o.pending # None /\ s = o.saved => o.pending = o.saved
  BY <1>1, <1>7, <1>8, GrowsAntisymmetric DEF IsObserver
<1>11. row # None => Storable(row) /\ Grows(row, s)
  BY <1>1, <1>2, GrowsTransitive DEF Chain, Storable
<1>12. stuck # None => /\ Storable(stuck) /\ Grows(stuck, s) /\ s # o.saved
                       /\ row # None => Grows(row, stuck)
  BY <1>1, <1>7, <1>10, GrowsTransitive DEF Chain, Storable
<1>13. s = o.saved => row = o.saved
  BY <1>10 DEF Chain
<1>14. Grows(s, s) /\ c.snapshot = s
  BY <1>1, GrowsReflexive DEF s
<1>15. Chain(c, p, row, stuck)
  BY <1>1, <1>5, <1>6, <1>9, <1>11, <1>12, <1>13, <1>14 DEF Chain
<1> QED  BY <1>3, <1>5, <1>6, <1>15 DEF p, s

\* What a save writes is the snapshot it was given.
LEMMA SaveWritesSnapshot ==
    ASSUME NEW row, NEW s, IsSnapshot(s), row # None => IsSnapshot(row) /\ Grows(row, s)
    PROVE  SaveSnapshot(row, s) = s
<1>1. CASE row = None
  BY <1>1 DEF SaveSnapshot
<1>2. CASE row # None
  <2>1. /\ row.revision \in Nat /\ s.revision \in Nat
        /\ row.revision <= s.revision
        /\ DOMAIN row.buckets \subseteq DOMAIN s.buckets
        /\ row.revision = s.revision => row = s
    BY <1>2 DEF IsSnapshot, Grows, Below
  <2>2. CASE s.revision <= row.revision
    BY <1>2, <2>1, <2>2 DEF SaveSnapshot
  <2>3. CASE ~(s.revision <= row.revision)
    <3> DEFINE merged == [x \in DOMAIN row.buckets \cup DOMAIN s.buckets |->
                            IF x \in DOMAIN s.buckets THEN s.buckets[x] ELSE row.buckets[x]]
    <3>1. DOMAIN row.buckets \cup DOMAIN s.buckets = DOMAIN s.buckets
      BY <2>1
    <3>2. merged = [x \in DOMAIN s.buckets |-> s.buckets[x]]
      BY <3>1
    <3>3. merged = s.buckets
      BY <3>2 DEF IsSnapshot, IsBuckets
    <3>4. SaveSnapshot(row, s) = [s EXCEPT !.buckets = merged]
      BY <1>2, <2>3 DEF SaveSnapshot
    <3> HIDE DEF merged
    <3>5. s = SnapshotRecord(s)
      BY DEF IsSnapshot
    <3> QED  BY <3>3, <3>4, <3>5 DEF SnapshotRecord
  <2> QED  BY <2>2, <2>3
<1> QED  BY <1>1, <1>2

-----------------------------------------------------------------------------
(***************************************************************************)
(* A flush                                                                 *)
(***************************************************************************)
BundleRecord(x) ==
    [collector |-> x.collector, session |-> x.session, observer |-> x.observer,
     row |-> x.row, late |-> x.late, ok |-> x.ok]

\* A bundle that its attempt can be in before it is closed.
Sound(x) ==
    /\ x = BundleRecord(x)
    /\ Chain(x.collector, x.observer, x.row, x.late)
    /\ Counted(x.collector, x.session, x.observer)

\* What the database may answer: nothing but an error while it is still at it.
Answered(x, answer) ==
    /\ answer \in {"ok", "error", "lost", "late"}
    /\ x.late # None => answer = "error"

\* A row stays and grows.
RowKept(row, new) == row # None => new # None /\ Grows(row, new)

LEMMA RowKeptReflexive ==
    ASSUME NEW row, row # None => IsSnapshot(row)
    PROVE  RowKept(row, row)
  BY GrowsReflexive DEF RowKept

\* The copies of a snapshot outside the collector, and what all copies tell.
Held(x) == {x.observer.pending, x.observer.saved, x.row, x.late}

BundleTells(x, log) == Tells(x.collector, x.observer, x.row, x.late, log)

LEMMA HeldTells ==
    ASSUME NEW x, NEW log, IsLog(log), Counts(x.collector, log),
           x.collector.snapshot # None => Exact(x.collector.snapshot, log),
           \A s \in Held(x) : s # None => Exact(s, log)
    PROVE  BundleTells(x, log)
  BY DEF BundleTells, Tells, Held

LEMMA TellsHeld ==
    ASSUME NEW x, NEW log, BundleTells(x, log)
    PROVE  /\ IsLog(log) /\ Counts(x.collector, log)
           /\ x.collector.snapshot # None => Exact(x.collector.snapshot, log)
           /\ \A s \in Held(x) : s # None => Exact(s, log)
  BY DEF BundleTells, Tells, Held

\* What a flush makes of an observer.
LEMMA EmptiedObserver ==
    ASSUME NEW o
    PROVE  LET p == [ObserverRecord(o) EXCEPT !.pending = None, !.failures = 0]
           IN  /\ p = ObserverRecord(p) /\ p.pending = None /\ p.saved = o.saved
               /\ p.failures = 0 /\ p.disabled = o.disabled /\ p.closed = o.closed
<1> DEFINE p == [ObserverRecord(o) EXCEPT !.pending = None, !.failures = 0]
<1>1. p = [ObserverRecord(o) EXCEPT !.pending = None, !.failures = 0]
  OBVIOUS
<1> HIDE DEF p
<1>2. /\ p = ObserverRecord(p) /\ p.pending = None /\ p.saved = o.saved
      /\ p.failures = 0 /\ p.disabled = o.disabled /\ p.closed = o.closed
  BY <1>1 DEF ObserverRecord
<1> QED  BY <1>2 DEF p

LEMMA NewObserverFields ==
    /\ NewObserver = ObserverRecord(NewObserver)
    /\ NewObserver.pending = None /\ NewObserver.saved = None /\ NewObserver.failures = 0
    /\ NewObserver.disabled \in BOOLEAN /\ ~NewObserver.disabled
    /\ NewObserver.closed \in BOOLEAN /\ ~NewObserver.closed
<1>1. NewObserver = ObserverRecord(NewObserver)
  <2>1. ASSUME NEW d, NEW c
        PROVE  LET p == [pending |-> None, saved |-> None, failures |-> 0,
                         disabled |-> d, closed |-> c]
               IN  p = ObserverRecord(p)
    BY DEF ObserverRecord
  <2> QED  BY <2>1 DEF NewObserver
<1>2. NewObserver.pending = None /\ NewObserver.saved = None /\ NewObserver.failures = 0
  BY DEF NewObserver
<1>3. /\ NewObserver.disabled \in BOOLEAN /\ ~NewObserver.disabled
      /\ NewObserver.closed \in BOOLEAN /\ ~NewObserver.closed
  BY DEF NewObserver
<1> QED  BY <1>1, <1>2, <1>3

LEMMA StoredObserver ==
    ASSUME NEW o, o = ObserverRecord(o), NEW s
    PROVE  LET p == [o EXCEPT !.saved = s]
           IN  /\ p = ObserverRecord(p) /\ p.pending = o.pending /\ p.saved = s
               /\ p.failures = o.failures /\ p.disabled = o.disabled /\ p.closed = o.closed
<1> DEFINE p == [o EXCEPT !.saved = s]
<1>1. p = [ObserverRecord(o) EXCEPT !.saved = s]
  OBVIOUS
<1> HIDE DEF p
<1>2. /\ p = ObserverRecord(p) /\ p.pending = o.pending /\ p.saved = s
      /\ p.failures = o.failures /\ p.disabled = o.disabled /\ p.closed = o.closed
  BY <1>1 DEF ObserverRecord
<1> QED  BY <1>2 DEF p

\* flush keeps the order; only a pending snapshot reaches the row, and what the
\* observer refers to stays.
LEMMA FlushObserverEffect ==
    ASSUME NullIsNoFunction, NEW x, x = BundleRecord(x),
           Chain(x.collector, x.observer, x.row, x.late), ~x.observer.closed,
           NEW answer, Answered(x, answer)
    PROVE  LET y == FlushObserver(x, answer)
           IN  /\ y = BundleRecord(y)
               /\ y.collector = x.collector /\ y.session = x.session
               /\ Chain(y.collector, y.observer, y.row, y.late)
               /\ ~y.observer.closed
               /\ Reference(y.observer) = Reference(x.observer)
               /\ RowKept(x.row, y.row) /\ Held(y) \subseteq Held(x) \cup {None}
               /\ x.observer.disabled => y.observer = x.observer /\ ~y.ok
               /\ ~x.observer.disabled /\ y.ok =>
                     y.observer.failures = 0 /\ ~y.observer.disabled
               /\ ~x.observer.disabled /\ ~y.ok =>
                     /\ y.observer.pending # None
                     /\ y.observer.failures = x.observer.failures + 1
                     /\ y.observer.disabled <=> x.observer.failures + 1 >= MaxFailures
<1> DEFINE o == x.observer
           y == FlushObserver(x, answer)
<1>1. IsObserver(o) /\ o = ObserverRecord(o)
  BY DEF Chain, IsObserver
<1>2. x.row # None => IsSnapshot(x.row)
  BY DEF Chain, Storable
<1>3. CASE o.disabled
  <2>1. y = [BundleRecord(x) EXCEPT !.ok = FALSE]
    BY <1>3 DEF FlushObserver
  <2> HIDE DEF y
  <2>2. /\ y = BundleRecord(y) /\ y.collector = x.collector /\ y.session = x.session
        /\ y.observer = o /\ y.row = x.row /\ y.late = x.late /\ ~y.ok
    BY <2>1 DEF BundleRecord
  <2>3. Held(y) \subseteq Held(x) \cup {None}
    BY <2>2 DEF Held
  <2> QED  BY <1>2, <1>3, <2>2, <2>3, RowKeptReflexive DEF y
<1>4. CASE ~o.disabled /\ (o.pending = None \/ o.pending = o.saved)
  <2> DEFINE p == [ObserverRecord(o) EXCEPT !.pending = None, !.failures = 0]
  <2>1. y = [BundleRecord(x) EXCEPT !.ok = TRUE, !.observer = p]
    <3>1. [x EXCEPT !.ok = TRUE, !.observer.pending = None, !.observer.failures = 0]
            = [BundleRecord(x) EXCEPT !.ok = TRUE, !.observer = p]
      BY <1>1 DEF BundleRecord
    <3> QED  BY <1>4, <3>1 DEF FlushObserver
  <2>2. /\ p = ObserverRecord(p) /\ p.pending = None /\ p.saved = o.saved
        /\ p.failures = 0 /\ p.disabled \in BOOLEAN /\ ~p.disabled
        /\ p.closed \in BOOLEAN /\ ~p.closed
    <3>1. /\ p = ObserverRecord(p) /\ p.pending = None /\ p.saved = o.saved
          /\ p.failures = 0 /\ p.disabled = o.disabled /\ p.closed = o.closed
      BY EmptiedObserver, Zenon
    <3>2. /\ o.disabled \in BOOLEAN /\ o.closed \in BOOLEAN
          /\ ~o.disabled /\ ~o.closed
      BY <1>1, <1>4 DEF IsObserver
    <3> HIDE DEF p
    <3> QED  BY <3>1, <3>2
  <2> HIDE DEF y, p
  <2>3. /\ y = BundleRecord(y) /\ y.collector = x.collector /\ y.session = x.session
        /\ y.observer = p /\ y.row = x.row /\ y.late = x.late /\ y.ok
    BY <2>1 DEF BundleRecord
  <2>4. Reference(p) = Reference(o)
    BY <1>4, <2>2 DEF Reference
  <2>5. IsObserver(p)
    BY <1>1, <2>2 DEF IsObserver
  <2>6. x.late = None /\ x.row = o.saved
    BY <1>4 DEF Chain
  <2>7. Chain(x.collector, p, x.row, x.late)
    BY <2>2, <2>4, <2>5, <2>6 DEF Chain
  <2>8. Held(y) \subseteq Held(x) \cup {None}
    BY <2>2, <2>3 DEF Held
  <2> QED  BY <1>1, <1>2, <1>4, <2>2, <2>3, <2>4, <2>7, <2>8, RowKeptReflexive
           DEF y, IsObserver
<1>5. CASE ~o.disabled /\ o.pending # None /\ o.pending # o.saved
  <2> DEFINE f == Failed(o)
             save == SaveAccepts(x.row, o.pending)
  <2>1. /\ Reference(o) = o.pending /\ IsSnapshot(o.pending)
        /\ x.row # None => Grows(x.row, o.pending)
    BY <1>1, <1>5 DEF Reference, Chain, IsObserver
  <2>2. SaveSnapshot(x.row, o.pending) = o.pending
    BY <1>2, <2>1, SaveWritesSnapshot
  <2>3. save => Storable(o.pending)
    BY <2>1, Zenon DEF SaveAccepts, TelemetryValid, Storable
  <2>4. /\ f = ObserverRecord(f) /\ f.pending = o.pending /\ f.saved = o.saved
        /\ f.failures = o.failures + 1
        /\ f.disabled \in BOOLEAN /\ (f.disabled <=> o.failures + 1 >= MaxFailures)
        /\ f.closed = o.closed
    <3> DEFINE gone == o.failures + 1 >= MaxFailures
    <3>1. f = [ObserverRecord(o) EXCEPT !.failures = o.failures + 1, !.disabled = gone]
      BY <1>1 DEF Failed
    <3>2. gone \in BOOLEAN
      OBVIOUS
    <3> HIDE DEF gone, f
    <3>3. /\ f = ObserverRecord(f) /\ f.pending = o.pending /\ f.saved = o.saved
          /\ f.failures = o.failures + 1 /\ f.disabled = gone /\ f.closed = o.closed
      BY <3>1 DEF ObserverRecord
    <3>4. f.disabled \in BOOLEAN /\ (f.disabled <=> gone)
      BY <3>2, <3>3
    <3> QED  BY <3>3, <3>4 DEF gone
  <2>5. Reference(f) = Reference(o)
    BY <2>4 DEF Reference
  <2> HIDE DEF f
  <2>6. f.failures \in Nat /\ f.closed \in BOOLEAN
    BY <1>1, <2>4 DEF IsObserver
  <2>7. Chain(x.collector, f, x.row, x.late)
    BY <2>4, <2>6, ChainOfObserver
  <2>8. CASE ~save \/ answer = "error"
    <3>1. y = [BundleRecord(x) EXCEPT !.ok = FALSE, !.observer = f]
      BY <1>5, <2>8 DEF FlushObserver, f
    <3> HIDE DEF y
    <3>2. /\ y = BundleRecord(y) /\ y.collector = x.collector /\ y.session = x.session
          /\ y.observer = f /\ y.row = x.row /\ y.late = x.late /\ ~y.ok
      BY <3>1 DEF BundleRecord
    <3>3. Held(y) \subseteq Held(x) \cup {None}
      BY <2>4, <3>2 DEF Held
    <3> QED  BY <1>2, <1>5, <2>4, <2>5, <2>7, <3>2, <3>3, RowKeptReflexive DEF y
  <2>9. CASE save /\ answer = "ok"
    <3> DEFINE p == [NewObserver EXCEPT !.saved = o.pending]
    <3>1. y = [BundleRecord(x) EXCEPT !.ok = TRUE, !.row = o.pending, !.observer = p]
      BY <1>5, <2>2, <2>9 DEF FlushObserver
    <3>2. /\ p = ObserverRecord(p) /\ p.pending = None /\ p.saved = o.pending
          /\ p.failures = 0 /\ ~p.disabled /\ ~p.closed
          /\ p.disabled \in BOOLEAN /\ p.closed \in BOOLEAN
      <4>1. /\ p = ObserverRecord(p) /\ p.pending = NewObserver.pending
            /\ p.saved = o.pending /\ p.failures = NewObserver.failures
            /\ p.disabled = NewObserver.disabled /\ p.closed = NewObserver.closed
        BY NewObserverFields, StoredObserver
      <4> HIDE DEF p
      <4> QED  BY <4>1, NewObserverFields
    <3> HIDE DEF y, p
    <3>3. /\ y = BundleRecord(y) /\ y.collector = x.collector /\ y.session = x.session
          /\ y.observer = p /\ y.row = o.pending /\ y.late = x.late /\ y.ok
      BY <3>1 DEF BundleRecord
    <3>4. Reference(p) = o.pending
      BY <3>2 DEF Reference
    <3>5. IsObserver(p)
      BY <2>1, <3>2 DEF IsObserver
    <3>6. x.late = None
      BY <2>9 DEF Answered
    <3>7. Grows(o.pending, o.pending) /\ Grows(o.pending, x.collector.snapshot)
      BY <1>5, <2>1, GrowsReflexive DEF Chain
    <3>8. Chain(x.collector, p, o.pending, x.late)
      BY <2>1, <2>9, <2>3, <3>2, <3>4, <3>5, <3>6, <3>7 DEF Chain
    <3>9. RowKept(x.row, o.pending)
      BY <1>5, <2>1 DEF RowKept
    <3>10. Held(y) \subseteq Held(x) \cup {None}
      BY <3>2, <3>3 DEF Held
    <3> QED  BY <1>5, <2>1, <3>2, <3>3, <3>4, <3>8, <3>9, <3>10 DEF y
  <2>10. CASE save /\ answer = "lost"
    <3>1. y = [BundleRecord(x) EXCEPT !.ok = FALSE, !.row = o.pending, !.observer = f]
      BY <1>5, <2>2, <2>10 DEF FlushObserver, f
    <3> HIDE DEF y
    <3>2. /\ y = BundleRecord(y) /\ y.collector = x.collector /\ y.session = x.session
          /\ y.observer = f /\ y.row = o.pending /\ y.late = x.late /\ ~y.ok
      BY <3>1 DEF BundleRecord
    <3>3. x.late = None
      BY <2>10 DEF Answered
    <3>4. Grows(o.pending, o.pending)
      BY <2>1, GrowsReflexive
    <3>5. Chain(x.collector, f, o.pending, x.late)
      BY <1>5, <2>1, <2>4, <2>5, <2>7, <2>10, <2>3, <3>3, <3>4 DEF Chain
    <3>6. RowKept(x.row, o.pending)
      BY <1>5, <2>1 DEF RowKept
    <3>7. Held(y) \subseteq Held(x) \cup {None}
      BY <2>4, <3>2 DEF Held
    <3> QED  BY <1>5, <2>4, <2>5, <3>2, <3>5, <3>6, <3>7 DEF y
  <2>11. CASE save /\ answer = "late"
    <3>1. y = [BundleRecord(x) EXCEPT !.ok = FALSE, !.late = o.pending, !.observer = f]
      BY <1>5, <2>2, <2>11 DEF FlushObserver, f
    <3> HIDE DEF y
    <3>2. /\ y = BundleRecord(y) /\ y.collector = x.collector /\ y.session = x.session
          /\ y.observer = f /\ y.row = x.row /\ y.late = o.pending /\ ~y.ok
      BY <3>1 DEF BundleRecord
    <3>3. Grows(o.pending, o.pending)
      BY <2>1, GrowsReflexive
    <3>4. Chain(x.collector, f, x.row, o.pending)
      BY <1>5, <2>1, <2>4, <2>7, <2>11, <2>3, <3>3 DEF Chain
    <3>5. Held(y) \subseteq Held(x) \cup {None}
      BY <2>4, <3>2 DEF Held
    <3> QED  BY <1>2, <1>5, <2>4, <2>5, <3>2, <3>4, <3>5, RowKeptReflexive DEF y
  <2> QED  BY <2>8, <2>9, <2>10, <2>11 DEF Answered
<1> QED  BY <1>3, <1>4, <1>5

\* An attempt to flush: whatever the database answers, the observer ends with
\* the last word of the collector, and session and observer count alike.
LEMMA FlushNowEffect ==
    ASSUME NullIsNoFunction, NEW x, Sound(x), ~x.session.disabled,
           NEW answer, Answered(x, answer), NEW log, BundleTells(x, log)
    PROVE  LET w == FlushNow(x, answer)
           IN  /\ Sound(w) /\ RowKept(x.row, w.row) /\ BundleTells(w, log)
               /\ Synced(w.collector, w.observer)
               /\ w.collector.snapshot.identity = x.collector.snapshot.identity
<1> DEFINE c == TakeSnapshot(x.collector)
           o == x.observer
           p == Buffer(o, c.snapshot)
           k == [x.session EXCEPT !.attempted = TRUE]
           z == [x EXCEPT !.collector = c, !.session.attempted = TRUE]
           b == [z EXCEPT !.observer = p]
           y == Observer(z, c.snapshot, answer)
           w == FlushNow(x, answer)
<1>1. /\ x = BundleRecord(x) /\ Chain(x.collector, o, x.row, x.late)
      /\ IsCollector(x.collector) /\ Below(x.collector.snapshot, x.collector)
      /\ x.session = SessionRecord(x.session)
      /\ o.failures = x.session.failures /\ ~o.disabled /\ ~o.closed
  BY DEF Sound, Counted, Chain
<1>2. o.failures \in Nat
  BY <1>1 DEF Chain, IsObserver
<1>3. /\ IsCollector(c) /\ c.snapshot.revision = c.revision /\ Chain(c, o, x.row, x.late)
      /\ c.snapshot.identity = x.collector.snapshot.identity
  BY <1>1, TakeSnapshotEffect, ChainOfSnapshot
<1>4. /\ p.pending = c.snapshot /\ p.failures = o.failures /\ p.disabled = o.disabled
      /\ p.closed = o.closed /\ Reference(p) = c.snapshot
      /\ BufferAccepts(o, c.snapshot) /\ Chain(c, p, x.row, x.late)
  BY <1>3, BufferEffect
<1>5. /\ IsLog(log) /\ Counts(c, log) /\ Exact(c.snapshot, log) /\ c.snapshot # None
       /\ \A s \in Held(x) : s # None => Exact(s, log)
  <2>1. Counts(c, log) /\ (c.snapshot # None => Exact(c.snapshot, log))
    BY <1>1, TellsHeld, TakeSnapshotTells
  <2>2. c.snapshot # None
    BY <1>3, SnapshotPresent DEF IsCollector
  <2> QED  BY <2>1, <2>2, TellsHeld
<1> HIDE DEF c
<1>6. k = SessionRecord(k) /\ k.failures = x.session.failures
      /\ k.clockFailed = x.session.clockFailed
  <2>1. k = [SessionRecord(x.session) EXCEPT !.attempted = TRUE]
    BY <1>1
  <2> HIDE DEF k
  <2> QED  BY <2>1 DEF SessionRecord
<1>7. ~k.disabled
  <2>1. ASSUME NEW t PROVE [SessionRecord(x.session) EXCEPT !.attempted = t].disabled
                             = x.session.disabled
    BY DEF SessionRecord
  <2> QED  BY <1>1, <2>1
<1>8. z = [BundleRecord(x) EXCEPT !.collector = c, !.session = k]
  BY <1>1 DEF BundleRecord
<1> HIDE DEF k, z, p
<1>9. /\ z = BundleRecord(z) /\ z.collector = c /\ z.session = k /\ z.observer = o
      /\ z.row = x.row /\ z.late = x.late
  BY <1>8 DEF BundleRecord
<1>10. y = FlushObserver(b, answer)
  BY <1>1, <1>4, <1>9 DEF Observer, p
<1>11. b = [BundleRecord(z) EXCEPT !.observer = p]
  BY <1>9
<1> HIDE DEF b, y
<1>12. /\ b = BundleRecord(b) /\ b.collector = c /\ b.session = k /\ b.observer = p
       /\ b.row = x.row /\ b.late = x.late
  BY <1>9, <1>11 DEF BundleRecord
<1>13. Answered(b, answer)
  BY <1>12 DEF Answered
<1>14. ~b.observer.closed /\ ~b.observer.disabled
  BY <1>1, <1>4, <1>12
<1>15. Chain(b.collector, b.observer, b.row, b.late)
  BY <1>4, <1>12
<1>16. /\ y = BundleRecord(y)
       /\ y.collector = b.collector /\ y.session = b.session
       /\ Chain(y.collector, y.observer, y.row, y.late)
       /\ ~y.observer.closed
       /\ Reference(y.observer) = Reference(b.observer)
       /\ RowKept(b.row, y.row) /\ Held(y) \subseteq Held(b) \cup {None}
       /\ y.ok => y.observer.failures = 0 /\ ~y.observer.disabled
       /\ ~y.ok => /\ y.observer.pending # None
                   /\ y.observer.failures = b.observer.failures + 1
                   /\ y.observer.disabled <=> b.observer.failures + 1 >= MaxFailures
  BY <1>10, <1>12, <1>13, <1>14, <1>15, FlushObserverEffect
<1>17. /\ y.collector = c /\ y.session = k /\ RowKept(x.row, y.row)
       /\ Reference(y.observer) = c.snapshot /\ b.observer.failures = o.failures
  BY <1>4, <1>12, <1>16
<1>18. /\ p.saved = o.saved
       /\ \A s \in Held(y) : s # None => Exact(s, log)
  <2>1. p.saved = o.saved
    BY <1>3, BufferEffect DEF p
  <2>2. Held(b) \subseteq Held(x) \cup {c.snapshot}
    BY <1>4, <1>12, <2>1 DEF Held
  <2> QED  BY <1>16, <1>5, <2>1, <2>2
<1>19. CASE y.ok
  <2> DEFINE n == [k EXCEPT !.failures = 0]
  <2>1. n = [SessionRecord(k) EXCEPT !.failures = 0]
    BY <1>6
  <2> HIDE DEF n
  <2>2. /\ n = SessionRecord(n) /\ n.failures = 0 /\ n.disabled = k.disabled
    BY <2>1 DEF SessionRecord
  <2>3. w = [BundleRecord(y) EXCEPT !.session = n]
    <3>1. w = [y EXCEPT !.session.failures = 0]
      BY <1>19 DEF FlushNow, y, z, c
    <3>2. [y EXCEPT !.session.failures = 0] = [y EXCEPT !.session = n]
      BY <1>16, <1>17 DEF n
    <3> QED  BY <1>16, <3>1, <3>2
  <2> HIDE DEF w
  <2>4. /\ w = BundleRecord(w) /\ w.collector = c /\ w.session = n
        /\ w.observer = y.observer /\ w.row = y.row /\ w.late = y.late
    BY <1>17, <2>3 DEF BundleRecord
  <2>5. ~n.disabled
    BY <1>7, <2>2
  <2>6. Counted(c, n, y.observer)
    BY <1>16, <1>19, <2>2, <2>5 DEF Counted
  <2>7. Synced(c, y.observer)
    BY <1>3, <1>17 DEF Synced
  <2>8. Sound(w)
    BY <1>16, <1>17, <2>4, <2>6 DEF Sound
  <2>9. BundleTells(w, log)
    <3>1. Held(w) = Held(y)
      BY <2>4 DEF Held
    <3> QED  BY <1>5, <1>18, <2>4, <3>1, HeldTells
  <2> QED  BY <1>3, <1>17, <2>4, <2>7, <2>8, <2>9 DEF w
<1>20. CASE ~y.ok
  <2> DEFINE f == o.failures + 1
             gone == f >= MaxFailures
             d == MarkObservationIssue(c, "storage_error", gone)
             m == TakeSnapshot(d)
             q == Buffer(y.observer, m.snapshot)
             n == [k EXCEPT !.failures = f, !.disabled = gone]
  <2>1. gone \in BOOLEAN /\ f \in Nat
    BY <1>2
  <2> HIDE DEF gone
  <2>2. Extends(c, d) /\ (gone => d.disabled)
    BY <1>3, <2>1, MarkObservationExtends
  <2>3. IsCollector(c) /\ Chain(c, y.observer, y.row, y.late)
    BY <1>3, <1>16, <1>17
  <2>4. Chain(d, y.observer, y.row, y.late)
    BY <2>2, <2>3, ChainOfCollector
  <2>5. Counts(d, log) /\ d.snapshot = c.snapshot
    BY <1>3, <2>1, <2>2, MarkIsFlaw DEF Counts, MarkObservationIssue, BestEffort, Extends
  <2> HIDE DEF d
  <2>6. Counts(m, log) /\ (m.snapshot # None => Exact(m.snapshot, log))
    BY <1>5, <2>2, <2>5, TakeSnapshotTells DEF Extends
  <2>7. Chain(m, y.observer, y.row, y.late)
    BY <2>4, ChainOfSnapshot
  <2>8. /\ m.snapshot.revision = m.revision /\ (gone => m.disabled)
        /\ m.snapshot.identity = c.snapshot.identity
    BY <2>2, <2>4, <2>5, TakeSnapshotEffect DEF Chain
  <2> HIDE DEF m
  <2>9. /\ BufferAccepts(y.observer, m.snapshot)
        /\ q.pending = m.snapshot /\ q.failures = y.observer.failures
        /\ q.disabled = y.observer.disabled /\ q.closed = y.observer.closed
        /\ q.saved = y.observer.saved /\ Reference(q) = m.snapshot /\ Chain(m, q, y.row, y.late)
    BY <2>7, BufferEffect
  <2> HIDE DEF q
  <2>10. n = [SessionRecord(k) EXCEPT !.failures = f, !.disabled = gone]
    BY <1>6
  <2> HIDE DEF n
  <2>11. n = SessionRecord(n) /\ n.failures = f /\ n.disabled = gone
    BY <2>10 DEF SessionRecord
  <2>12. w = [BundleRecord(y) EXCEPT !.session = n, !.collector = m, !.observer = q]
    <3>1. y.session.failures + 1 = f
      BY <1>1, <1>6, <1>17
    <3>2. w = [y EXCEPT !.session.failures = f, !.session.disabled = gone,
                        !.collector = m, !.observer = q]
      BY <1>20, <2>9, <3>1 DEF FlushNow, y, z, c, m, d, q, gone
    <3>3. [y EXCEPT !.session.failures = f, !.session.disabled = gone,
                    !.collector = m, !.observer = q]
            = [y EXCEPT !.session = n, !.collector = m, !.observer = q]
      BY <1>16, <1>17 DEF n
    <3> QED  BY <1>16, <3>2, <3>3
  <2> HIDE DEF w, f
  <2>13. /\ w = BundleRecord(w) /\ w.collector = m /\ w.session = n
         /\ w.observer = q /\ w.row = y.row /\ w.late = y.late
    BY <2>12 DEF BundleRecord
  <2>14. Synced(m, q)
    BY <2>8, <2>9 DEF Synced
  <2>15. q.pending # None
    <3>1. m.snapshot # None
      BY <2>7, SnapshotPresent DEF Chain, IsCollector
    <3> QED  BY <2>9, <3>1
  <2>16. q.failures = n.failures /\ (q.disabled <=> n.disabled) /\ ~q.closed
    <3>1. q.failures = f /\ (y.observer.disabled <=> gone)
      BY <1>16, <1>17, <1>20, <2>9 DEF f, gone
    <3> QED  BY <1>16, <2>9, <2>11, <3>1
  <2>17. n.disabled => m.disabled
    BY <2>8, <2>11
  <2>18. Counted(m, n, q)
    BY <2>11, <2>14, <2>15, <2>16, <2>17 DEF Counted
  <2>19. Sound(w)
    BY <2>9, <2>13, <2>18 DEF Sound
  <2>20. BundleTells(w, log)
    <3>1. Held(w) \subseteq Held(y) \cup {m.snapshot}
      BY <2>9, <2>13 DEF Held
    <3>2. \A s \in Held(w) : s # None => Exact(s, log)
      BY <1>18, <2>6, <3>1
    <3> QED  BY <1>5, <2>13, <2>6, <3>2, HeldTells
  <2> QED  BY <1>3, <1>17, <2>8, <2>13, <2>14, <2>19, <2>20 DEF w
<1> QED  BY <1>19, <1>20

\* flush: a session that gave up or whose clock failed does nothing, and a
\* forced one leaves the last word of the collector with the observer.
LEMMA FlushEffect ==
    ASSUME NullIsNoFunction, NEW x, Sound(x), NEW force \in BOOLEAN, NEW tick,
           NEW answer, Answered(x, answer), NEW log, BundleTells(x, log)
    PROVE  LET w == Flush(x, force, tick, answer)
           IN  /\ Sound(w) /\ RowKept(x.row, w.row) /\ BundleTells(w, log)
               /\ force => Synced(w.collector, w.observer)
               /\ w.collector.snapshot.identity = x.collector.snapshot.identity
<1> DEFINE failing == ~x.session.clockFailed /\ tick = "error"
           y == IF failing
                  THEN [x EXCEPT !.session.clockFailed = TRUE,
                                 !.collector = MarkObservationIssue(@, "internal_error", TRUE)]
                  ELSE x
           w == Flush(x, force, tick, answer)
<1>1. /\ x = BundleRecord(x) /\ IsCollector(x.collector)
      /\ Chain(x.collector, x.observer, x.row, x.late)
      /\ x.session = SessionRecord(x.session)
      /\ x.row # None => IsSnapshot(x.row)
  BY DEF Sound, Counted, Chain, Storable
<1>2. RowKept(x.row, x.row)
  BY <1>1, RowKeptReflexive
<1>3. CASE x.session.disabled
  <2>1. w = x
    BY <1>3 DEF Flush
  <2>2. Synced(x.collector, x.observer)
    BY <1>3 DEF Sound, Counted
  <2> QED  BY <1>2, <2>1, <2>2
<1>4. CASE ~x.session.disabled
  <2>1. /\ Sound(y) /\ ~y.session.disabled /\ y.row = x.row /\ y.late = x.late
        /\ BundleTells(y, log)
        /\ y.collector.snapshot.identity = x.collector.snapshot.identity
    <3>1. CASE ~failing
      BY <1>4, <3>1
    <3>2. CASE failing
      <4> DEFINE d == MarkObservationIssue(x.collector, "internal_error", TRUE)
                 k == [x.session EXCEPT !.clockFailed = TRUE]
      <4>1. y = [BundleRecord(x) EXCEPT !.session = k, !.collector = d]
        BY <1>1, <3>2 DEF BundleRecord
      <4>2. Extends(x.collector, d)
        BY <1>1, MarkObservationExtends
      <4>3. Chain(d, x.observer, x.row, x.late)
        BY <1>1, <4>2, ChainOfCollector
      <4>4. k = [SessionRecord(x.session) EXCEPT !.clockFailed = TRUE]
        BY <1>1
      <4>5. Counts(d, log) /\ d.snapshot = x.collector.snapshot
        <5>1. d.issues # {}
          BY <1>1, MarkIsFlaw DEF MarkObservationIssue, BestEffort
        <5> QED  BY <4>2, <5>1 DEF Counts, Extends
      <4> HIDE DEF d, k, y
      <4>6. k = SessionRecord(k) /\ k.failures = x.session.failures
            /\ k.disabled = x.session.disabled
        BY <4>4 DEF SessionRecord
      <4>7. ~k.disabled
        BY <1>4, <4>6
      <4>8. /\ y = BundleRecord(y) /\ y.collector = d /\ y.session = k
            /\ y.observer = x.observer /\ y.row = x.row /\ y.late = x.late
        BY <4>1 DEF BundleRecord
      <4>9. /\ x.observer.failures = x.session.failures
            /\ ~x.observer.disabled /\ ~x.observer.closed
        BY <1>4 DEF Sound, Counted
      <4>10. Counted(d, k, x.observer)
        BY <4>6, <4>7, <4>9 DEF Counted
      <4>11. BundleTells(y, log)
        <5>1. Held(y) = Held(x)
          BY <4>8 DEF Held
        <5> QED  BY <4>8, <4>5, <5>1, TellsHeld, HeldTells
      <4> QED  BY <4>3, <4>5, <4>7, <4>8, <4>10, <4>11 DEF Sound
    <3> QED  BY <3>1, <3>2
  <2>2. Answered(y, answer)
    BY <2>1 DEF Answered
  <2> HIDE DEF y
  <2> DEFINE v == FlushNow(y, answer)
  <2>3. /\ Sound(v) /\ RowKept(x.row, v.row) /\ Synced(v.collector, v.observer)
        /\ BundleTells(v, log)
        /\ v.collector.snapshot.identity = x.collector.snapshot.identity
    BY <2>1, <2>2, FlushNowEffect
  <2>4. CASE x.session.clockFailed /\ ~force
    <3>1. w = x
      BY <2>4 DEF Flush
    <3> QED  BY <1>2, <2>4, <3>1
  <2>5. CASE ~(x.session.clockFailed /\ ~force)
             /\ ~force /\ (failing \/ (tick = "early" /\ x.session.attempted))
    <3>1. w = y
      BY <1>4, <2>5 DEF Flush, y
    <3> QED  BY <1>2, <2>1, <2>5, <3>1
  <2>6. CASE ~(x.session.clockFailed /\ ~force)
             /\ ~(~force /\ (failing \/ (tick = "early" /\ x.session.attempted)))
    <3>1. w = v
      BY <1>4, <2>6 DEF Flush, y
    <3> QED  BY <2>3, <3>1
  <2> QED  BY <2>4, <2>5, <2>6
<1> QED  BY <1>3, <1>4

-----------------------------------------------------------------------------
(***************************************************************************)
(* The steps of an attempt                                                 *)
(***************************************************************************)
\* A callback that counts something leaves a session that gave up alone.
LEMMA CollectorStepSound ==
    ASSUME NEW x, Sound(x), NEW c, Extends(x.collector, c),
           x.collector.disabled => c = x.collector
    PROVE  LET y == [x EXCEPT !.collector = c]
           IN  Sound(y) /\ y.row = x.row /\ y.late = x.late
<1> DEFINE y == [x EXCEPT !.collector = c]
<1>1. /\ x = BundleRecord(x) /\ Chain(x.collector, x.observer, x.row, x.late)
      /\ Counted(x.collector, x.session, x.observer)
  BY DEF Sound
<1>2. y = [BundleRecord(x) EXCEPT !.collector = c]
  BY <1>1
<1> HIDE DEF y
<1>3. /\ y = BundleRecord(y) /\ y.collector = c /\ y.session = x.session
      /\ y.observer = x.observer /\ y.row = x.row /\ y.late = x.late
  BY <1>2 DEF BundleRecord
<1>4. Chain(c, x.observer, x.row, x.late)
  BY <1>1, ChainOfCollector
<1>5. Counted(c, x.session, x.observer)
  BY <1>1 DEF Counted
<1>6. Sound(y)
  BY <1>3, <1>4, <1>5 DEF Sound
<1> QED  BY <1>3, <1>6 DEF y

-----------------------------------------------------------------------------
TelemetryShape ==
    DOMAIN attempt = Executions /\ DOMAIN rows = Executions /\ DOMAIN late = Executions

\* The inputs of a run are those of a scenario.
Given ==
    \E s \in Scenarios :
        /\ watch = s.watch
        /\ cast.executions = IF s.watch = None THEN {} ELSE DOMAIN s.watch.attempts

TelemetryInv == TelemetryShape /\ Given /\ TelemetrySound

\* No stored telemetry is lost or shrinks.
RowsKept == \A f \in Executions : RowKept(rows[f], rows'[f])

LEMMA AdoptSound ==
    ASSUME TelemetryShape, TelemetrySound, UNCHANGED watch, NEW e \in Executions,
           NEW x, NEW phase, NEW left, NEW log, Adopt(e, x, phase, left, log),
           phase \in {"records", "stages", "leaving", "closed"},
           Chain(x.collector, x.observer, x.row, x.late),
           phase # "closed" => Counted(x.collector, x.session, x.observer),
           phase \in {"leaving", "closed"} => Synced(x.collector, x.observer),
           BundleTells(x, log), Identified(e, x.collector),
           phase = "records" => left = watch.attempts[e].total + 1 - Len(log),
           RowKept(rows[e], x.row)
    PROVE  TelemetryShape' /\ TelemetrySound' /\ RowsKept
<1>1. /\ attempt'[e] = [phase |-> phase, left |-> left, collector |-> x.collector,
                        session |-> x.session, observer |-> x.observer, log |-> log]
      /\ rows'[e] = x.row /\ late'[e] = x.late
  BY DEF Adopt, TelemetryShape
<1>2. TelemetryShape'
  BY DEF Adopt, TelemetryShape
<1>3. ASSUME NEW f \in Executions, f # e
      PROVE  attempt'[f] = attempt[f] /\ rows'[f] = rows[f] /\ late'[f] = late[f]
  BY <1>3 DEF Adopt, TelemetryShape
<1>4. ASSUME NEW f \in Executions
      PROVE  AttemptSound(f)' /\ RowKept(rows[f], rows'[f])
  <2>1. CASE f = e
    <3>1. AttemptSound(e)'
      BY <1>1 DEF AttemptSound, BundleTells, Identified
    <3> QED  BY <1>1, <2>1, <3>1
  <2>2. CASE f # e
    <3>1. AttemptSound(f)
      BY DEF TelemetrySound
    <3>2. AttemptSound(f)'
      BY <1>3, <2>2, <3>1 DEF AttemptSound, Identified
    <3>3. rows[f] # None => IsSnapshot(rows[f])
      BY <3>1 DEF AttemptSound, Chain, Storable
    <3> QED  BY <1>3, <2>2, <3>2, <3>3, RowKeptReflexive
  <2> QED  BY <2>1, <2>2
<1> QED  BY <1>2, <1>4 DEF TelemetrySound, RowsKept

LEMMA BundleFields ==
    ASSUME NEW e
    PROVE  /\ Bundle(e) = BundleRecord(Bundle(e))
           /\ Bundle(e).collector = attempt[e].collector
           /\ Bundle(e).session = attempt[e].session
           /\ Bundle(e).observer = attempt[e].observer
           /\ Bundle(e).row = rows[e] /\ Bundle(e).late = late[e]
<1>1. ASSUME NEW t
      PROVE  LET b == [collector |-> attempt[e].collector,
                       session |-> attempt[e].session,
                       observer |-> attempt[e].observer, row |-> rows[e],
                       late |-> late[e], ok |-> t]
             IN  /\ b = BundleRecord(b) /\ b.collector = attempt[e].collector
                 /\ b.session = attempt[e].session /\ b.observer = attempt[e].observer
                 /\ b.row = rows[e] /\ b.late = late[e]
  BY DEF BundleRecord
<1> QED  BY <1>1 DEF Bundle

\* The bundle of an attempt that runs.
LEMMA BundleSound ==
    ASSUME TelemetrySound, NEW e \in Executions,
           attempt[e].phase \notin {"idle", "closed"}
    PROVE  /\ Sound(Bundle(e)) /\ BundleTells(Bundle(e), attempt[e].log)
           /\ Bundle(e).row = rows[e] /\ Bundle(e).late = late[e]
           /\ Identified(e, Bundle(e).collector)
<1>1. /\ Chain(attempt[e].collector, attempt[e].observer, rows[e], late[e])
      /\ Identified(e, attempt[e].collector)
      /\ Counted(attempt[e].collector, attempt[e].session, attempt[e].observer)
      /\ Tells(attempt[e].collector, attempt[e].observer, rows[e], late[e], attempt[e].log)
  BY DEF TelemetrySound, AttemptSound
<1> QED  BY <1>1, BundleFields DEF Sound, BundleTells

LEMMA AnswersAnswered ==
    ASSUME Given, watch # None, NEW e, NEW answer \in Answers(e), NEW x, x.late = late[e]
    PROVE  Answered(x, answer)
<1>1. watch.outcomes \subseteq {"ok", "error", "lost", "late"}
  BY WatchAssumption DEF Given
<1> QED  BY <1>1 DEF Answers, Answered

-----------------------------------------------------------------------------
\* What a flush of a bundle leaves may be adopted.
LEMMA FlushStep ==
    ASSUME NullIsNoFunction, TelemetryInv, UNCHANGED watch, watch # None,
           NEW e \in Executions, NEW x, Sound(x), x.row = rows[e], x.late = late[e],
           NEW force \in BOOLEAN, NEW tick, NEW answer \in Answers(e),
           NEW phase \in {"records", "stages", "leaving"}, phase = "leaving" => force,
           NEW left, NEW log, BundleTells(x, log), Identified(e, x.collector),
           phase = "records" => left = watch.attempts[e].total + 1 - Len(log),
           Adopt(e, Flush(x, force, tick, answer), phase, left, log)
    PROVE  TelemetryShape' /\ TelemetrySound' /\ RowsKept
<1> DEFINE w == Flush(x, force, tick, answer)
<1>1. Answered(x, answer)
  BY AnswersAnswered DEF TelemetryInv
<1>2. /\ Sound(w) /\ RowKept(rows[e], w.row) /\ (force => Synced(w.collector, w.observer))
      /\ BundleTells(w, log)
      /\ w.collector.snapshot.identity = x.collector.snapshot.identity
  BY <1>1, FlushEffect
<1> HIDE DEF w
<1>3. Identified(e, w.collector)
  BY <1>2 DEF Identified
<1>4. /\ Chain(w.collector, w.observer, w.row, w.late)
      /\ Counted(w.collector, w.session, w.observer)
  BY <1>2 DEF Sound
<1>5. Adopt(e, w, phase, left, log)
  BY DEF w
<1> QED  BY <1>2, <1>3, <1>4, <1>5, AdoptSound DEF TelemetryInv

LEMMA OpenSessionSound ==
    ASSUME NullIsNoFunction, TelemetryInv, UNCHANGED watch, watch # None,
           NEW e \in cast.executions, e \in Executions, OpenSession(e)
    PROVE  TelemetryShape' /\ TelemetrySound' /\ RowsKept
<1> DEFINE a == watch.attempts[e]
           new == NewCollector(e, a, ResolveIdentity(a.input))
<1>1. PICK now \in watch.times, tick \in watch.ticks, answer \in Answers(e) :
         LET c == AcceptBatch(new, a.total, now)
             x == Flush([Bundle(e) EXCEPT !.collector = c], TRUE, tick, answer)
         IN  Adopt(e, x, "records", a.total,
                   <<[kind |-> "accepted", at |-> now, count |-> a.total, took |-> 0]>>)
  BY DEF OpenSession
<1> DEFINE c == AcceptBatch(new, a.total, now)
           b == [Bundle(e) EXCEPT !.collector = c]
<1>2. attempt[e].phase = "idle"
  BY DEF OpenSession
<1>3. /\ attempt[e].session = NewSession /\ attempt[e].observer = NewObserver
      /\ rows[e] = None /\ late[e] = None
  BY <1>2 DEF TelemetryInv, TelemetrySound, AttemptSound
<1>4. a.total \in Nat /\ now \in Int \cup {None} /\ e \in DOMAIN watch.attempts
  BY WatchAssumption DEF TelemetryInv, Given
<1>5. /\ IsCollector(new) /\ Below(new.snapshot, new)
      /\ new.snapshot.identity = ResolveIdentity(watch.attempts[e].input)
  <2>1. IsCollector(new) /\ Below(new.snapshot, new)
    BY NewCollectorSound
  <2>2. new.snapshot.identity = ResolveIdentity(a.input)
    BY DEF NewCollector, Unobserved
  <2> QED  BY <2>1, <2>2
<1> DEFINE log == <<[kind |-> "accepted", at |-> now, count |-> a.total, took |-> 0]>>
<1>6. IsLog(log) /\ Len(log) = 1
  <2> DEFINE z == [kind |-> "accepted", at |-> now, count |-> a.total, took |-> 0]
  <2>1. z.count \in Nat /\ z.took \in Nat /\ z.at \in Int \cup {None}
    BY <1>4
  <2> HIDE DEF z, a
  <2> DEFINE one == <<z>>
  <2>2. one \in Seq({z}) /\ Len(one) = 1 /\ one[1] = z
    OBVIOUS
  <2> HIDE DEF one
  <2>3. IsLog(one)
    BY <2>1, <2>2 DEF IsLog
  <2> QED  BY <2>2, <2>3 DEF z, one
<1>7. Counts(c, log) /\ (c.snapshot # None => Exact(c.snapshot, log))
  <2>1. log[1] = [kind |-> "accepted", at |-> now, count |-> a.total, took |-> 0]
    OBVIOUS
  <2> DEFINE id == ResolveIdentity(a.input)
             n == a.total
  <2>2. c = AcceptBatch(NewCollector(e, a, id), n, now)
    OBVIOUS
  <2> HIDE DEF c
  <2>3. n \in Nat /\ now \in Int \cup {None}
    BY <1>4
  <2>4. log[1] = [kind |-> "accepted", at |-> now, count |-> n, took |-> 0]
    BY <2>1
  <2> HIDE DEF log, id, n, a, new, b
  <2> QED  BY <1>6, <2>2, <2>3, <2>4, AcceptBatchCounts
<1>8. watch.attempts[e].total = a.total
  OBVIOUS
<1> HIDE DEF new, a, log
<1>9. Extends(new, c)
  BY <1>4, <1>5, AcceptBatchExtends
<1>10. IsCollector(c) /\ Below(c.snapshot, c)
  BY <1>5, <1>9, BelowTransitive DEF Extends, IsCollector, IsSnapshot
<1>11. Identified(e, c)
  BY <1>4, <1>5, <1>9 DEF Identified, Extends
<1> HIDE DEF c
<1>12. /\ b = BundleRecord(b) /\ b.collector = c /\ b.session = NewSession
      /\ b.observer = NewObserver /\ b.row = rows[e] /\ b.late = late[e]
  <2>1. b = [BundleRecord(Bundle(e)) EXCEPT !.collector = c]
    BY BundleFields
  <2> HIDE DEF b
  <2>2. /\ b = BundleRecord(b) /\ b.collector = c /\ b.session = Bundle(e).session
        /\ b.observer = Bundle(e).observer /\ b.row = Bundle(e).row
        /\ b.late = Bundle(e).late
    BY <2>1 DEF BundleRecord
  <2> QED  BY <1>3, <2>2, BundleFields
<1> HIDE DEF b
<1>13. IsObserver(NewObserver) /\ Reference(NewObserver) = None
  BY NewObserverFields DEF IsObserver, Reference
<1>14. Chain(c, NewObserver, None, None)
  BY <1>10, <1>13, NewObserverFields DEF Chain
<1>15. NewSession.failures = 0 /\ ~NewSession.disabled /\ NewSession = SessionRecord(NewSession)
  <2>1. ASSUME NEW s, NEW d, NEW k
        PROVE  LET n == [attempted |-> s, failures |-> 0, disabled |-> d, clockFailed |-> k]
               IN  n = SessionRecord(n)
    BY DEF SessionRecord
  <2>2. NewSession = SessionRecord(NewSession)
    BY <2>1 DEF NewSession
  <2>3. NewSession.failures = 0 /\ ~NewSession.disabled
    BY DEF NewSession
  <2> QED  BY <2>2, <2>3
<1>16. Counted(c, NewSession, NewObserver)
  BY <1>15, NewObserverFields DEF Counted
<1>17. Sound(b)
  BY <1>3, <1>12, <1>14, <1>16 DEF Sound
<1>18. Adopt(e, Flush(b, TRUE, tick, answer), "records", a.total, log)
  BY <1>1 DEF b, c, log
<1>19. BundleTells(b, log)
  <2>1. Held(b) = {None}
    BY <1>3, <1>12, NewObserverFields DEF Held
  <2> QED  BY <1>12, <1>6, <1>7, <2>1, HeldTells
<1>20. a.total = watch.attempts[e].total + 1 - Len(log)
  BY <1>4, <1>6, <1>8
<1> QED  BY <1>12, <1>17, <1>18, <1>19, <1>20, <1>11, FlushStep

LEMMA MeasureRecordSound ==
    ASSUME NullIsNoFunction, TelemetryInv, UNCHANGED watch, watch # None,
           NEW e \in cast.executions, e \in Executions, NEW ok \in BOOLEAN, MeasureRecord(e, ok)
    PROVE  TelemetryShape' /\ TelemetrySound' /\ RowsKept
<1> DEFINE a == attempt[e]
           n == watch.attempts[e].total - a.left + 1
           Log(now, mono) ==
              Append(a.log, [kind |-> IF ok THEN "completed" ELSE "failed", at |-> now,
                             count |-> 1, took |-> IF ok THEN Took(mono) ELSE 0])
<1>1. PICK now \in watch.times, tick \in watch.ticks, answer \in Answers(e),
           mono \in watch.monos :
         LET c == FinishRecord(BeginRecord(a.collector, n, mono.started), n, ok,
                               mono.started, mono.ended, now)
             x == Flush([Bundle(e) EXCEPT !.collector = c], ~ok, tick, answer)
         IN  Adopt(e, x, IF ok THEN "records" ELSE "stages", IF ok THEN a.left - 1 ELSE 1,
                   Log(now, mono))
  BY DEF MeasureRecord
<1> DEFINE g == BeginRecord(a.collector, n, mono.started)
           c == FinishRecord(g, n, ok, mono.started, mono.ended, now)
           b == [Bundle(e) EXCEPT !.collector = c]
<1>2. a.phase = "records"
  BY DEF MeasureRecord
<1>3. /\ Sound(Bundle(e)) /\ BundleTells(Bundle(e), a.log)
      /\ Bundle(e).row = rows[e] /\ Bundle(e).late = late[e]
  BY <1>2, BundleSound DEF TelemetryInv
<1>4. a.left = watch.attempts[e].total + 1 - Len(a.log) /\ watch.attempts[e].total \in Nat
  <2>1. a.left = watch.attempts[e].total + 1 - Len(a.log)
    BY <1>2 DEF TelemetryInv, TelemetrySound, AttemptSound
  <2>2. watch.attempts[e].total \in Nat
    BY WatchAssumption DEF TelemetryInv, Given
  <2> QED  BY <2>1, <2>2
<1>5. IsLog(a.log) /\ Len(a.log) \in Nat
  BY <1>3, TellsHeld, LogLength
<1>6. n = Len(a.log)
  BY <1>4, <1>5
<1>7. Bundle(e).collector = a.collector /\ IsCollector(a.collector)
  <2>1. Bundle(e).collector = a.collector
    BY DEF Bundle
  <2> QED  BY <1>3, <2>1 DEF Sound, Chain
<1>8. /\ mono.started \in Int \cup {None} /\ mono.ended \in Int \cup {None}
      /\ now \in Int \cup {None}
  BY WatchAssumption DEF TelemetryInv, Given
<1> DEFINE log == Log(now, mono)
<1>9. /\ IsLog(log) /\ Longer(a.log, log)
       /\ log[Len(log)] = [kind |-> IF ok THEN "completed" ELSE "failed", at |-> now,
                           count |-> 1, took |-> IF ok THEN Took(mono) ELSE 0]
  <2> DEFINE z == [kind |-> IF ok THEN "completed" ELSE "failed", at |-> now,
                   count |-> 1, took |-> IF ok THEN Took(mono) ELSE 0]
             old == a.log
  <2>1. Took(mono) \in Nat
    <3>1. ASSUME NEW i \in Int \cup {None}, NEW j \in Int \cup {None}, Duration(i, j) # None
          PROVE  j - i \in Nat
      BY <3>1 DEF Duration
    <3> QED  BY <1>8, <3>1 DEF Took
  <2>2. z.count \in Nat /\ z.took \in Nat /\ z.at \in Int \cup {None}
    BY <1>8, <2>1
  <2>3. IsLog(old)
    BY <1>5
  <2> HIDE DEF z, old
  <2>4. PICK S : old \in Seq(S)
    BY <2>3 DEF IsLog
  <2>5. /\ Append(old, z) \in Seq(S \cup {z}) /\ Len(Append(old, z)) = Len(old) + 1
        /\ \A i \in 1..Len(old) : Append(old, z)[i] = old[i]
        /\ Append(old, z)[Len(old) + 1] = z
    BY <2>4
  <2>6. IsLog(Append(old, z)) /\ Longer(old, Append(old, z))
    BY <2>2, <2>3, <2>5, LogLength DEF IsLog, Longer
  <2>7. Append(old, z)[Len(Append(old, z))] = z
    BY <2>5
  <2> QED  BY <2>6, <2>7 DEF z, old
<1>10. Counts(c, log)
  <2>1. IsCollector(a.collector) /\ Counts(a.collector, a.log)
    <3>1. Counts(Bundle(e).collector, a.log)
      BY <1>3, TellsHeld
    <3> QED  BY <1>7, <3>1
  <2> DEFINE col == a.collector
             old == a.log
  <2> HIDE DEF col, old, log
  <2>2. IsCollector(col) /\ Counts(col, old) /\ IsLog(old) /\ Longer(old, log)
    BY <1>5, <1>9, <2>1 DEF col, old
  <2>3. Counts(FinishRecord(BeginRecord(col, Len(old), mono.started), Len(old), ok,
                            mono.started, mono.ended, now), log)
    BY <1>8, <1>9, <2>2, CallbackCounts
  <2> QED  BY <1>6, <2>3 DEF col, old
<1> HIDE DEF a, n, log
<1>11. Extends(a.collector, g) /\ (a.collector.disabled => g = a.collector)
  BY <1>7, BeginRecordExtends
<1>12. IsCollector(g)
  BY <1>11 DEF Extends
<1> HIDE DEF g
<1>13. Extends(g, c) /\ (g.disabled => c = g)
  <2> DEFINE s == mono.started
             t == mono.ended
  <2>1. IsCollector(g) /\ ok \in BOOLEAN
    BY <1>12
  <2>2. s \in Int \cup {None} /\ t \in Int \cup {None} /\ now \in Int \cup {None}
    BY <1>8
  <2> HIDE DEF s, t
  <2>3. /\ Extends(g, FinishRecord(g, n, ok, s, t, now))
        /\ g.disabled => FinishRecord(g, n, ok, s, t, now) = g
    BY <2>1, <2>2, FinishRecordKeeps
  <2> QED  BY <2>3 DEF s, t
<1> HIDE DEF c
<1>14. Extends(a.collector, c) /\ (a.collector.disabled => c = a.collector)
  BY <1>7, <1>11, <1>13, ExtendsTransitive
<1>15. Sound(b) /\ b.row = rows[e] /\ b.late = late[e]
  BY <1>3, <1>7, <1>14, CollectorStepSound
<1>16. Identified(e, a.collector)
  <2>1. Identified(e, Bundle(e).collector)
    BY <1>2, BundleSound DEF TelemetryInv, a
  <2> QED  BY <1>7, <2>1 DEF Identified
<1>17. BundleTells(b, log)
  <2>1. b = [BundleRecord(Bundle(e)) EXCEPT !.collector = c]
    BY <1>3 DEF Sound
  <2> HIDE DEF b
  <2>2. /\ b.collector = c /\ b.observer = Bundle(e).observer /\ b.row = Bundle(e).row
        /\ b.late = Bundle(e).late
    BY <2>1 DEF BundleRecord
  <2>3. Held(b) = Held(Bundle(e)) /\ c.snapshot = Bundle(e).collector.snapshot
    BY <1>7, <1>14, <2>2 DEF Held, Extends
  <2>4. /\ \A s \in Held(Bundle(e)) : s # None => Exact(s, a.log)
        /\ c.snapshot # None => Exact(c.snapshot, a.log)
    BY <1>3, <2>3, TellsHeld
  <2>5. /\ \A s \in Held(b) : s # None => Exact(s, log)
        /\ b.collector.snapshot # None => Exact(b.collector.snapshot, log)
    BY <1>5, <1>9, <2>2, <2>3, <2>4, ExactIsStable
  <2> QED  BY <1>9, <1>10, <2>2, <2>5, HeldTells
<1>18. Identified(e, b.collector)
  <2>1. b = [BundleRecord(Bundle(e)) EXCEPT !.collector = c]
    BY <1>3 DEF Sound
  <2> HIDE DEF b
  <2>2. b.collector = c
    BY <2>1 DEF BundleRecord
  <2> QED  BY <1>16, <1>14, <2>2 DEF Identified, Extends
<1>19. Adopt(e, Flush(b, ~ok, tick, answer), IF ok THEN "records" ELSE "stages",
             IF ok THEN a.left - 1 ELSE 1, log)
  BY <1>1 DEF b, c, g, log
<1> DEFINE force == ~ok
           phase == IF ok THEN "records" ELSE "stages"
           left == IF ok THEN a.left - 1 ELSE 1
<1>20. phase \in {"records", "stages", "leaving"} /\ phase # "leaving" /\ force \in BOOLEAN
  OBVIOUS
<1>21. Adopt(e, Flush(b, force, tick, answer), phase, left, log)
  BY <1>19
<1>22. phase = "records" => left = watch.attempts[e].total + 1 - Len(log)
  BY <1>4, <1>5, <1>9 DEF Longer
<1> HIDE DEF b, Log, force, phase, left
<1> QED  BY <1>15, <1>20, <1>21, <1>17, <1>22, <1>18, FlushStep

LEMMA EndStageSound ==
    ASSUME NullIsNoFunction, TelemetryInv, UNCHANGED watch, watch # None,
           NEW e \in Executions, EndStage(e)
    PROVE  TelemetryShape' /\ TelemetrySound' /\ RowsKept
<1>1. PICK tick \in watch.ticks, answer \in Answers(e) : \E left :
         Adopt(e, Flush(Bundle(e), TRUE, tick, answer), "stages", left, attempt[e].log)
  BY DEF EndStage
<1>2. PICK left :
         Adopt(e, Flush(Bundle(e), TRUE, tick, answer), "stages", left, attempt[e].log)
  BY <1>1
<1>3. attempt[e].phase \in {"records", "stages"}
  BY DEF EndStage
<1>4. /\ Sound(Bundle(e)) /\ BundleTells(Bundle(e), attempt[e].log)
      /\ Bundle(e).row = rows[e] /\ Bundle(e).late = late[e]
      /\ Identified(e, Bundle(e).collector)
  BY <1>3, BundleSound DEF TelemetryInv
<1> QED  BY <1>2, <1>4, FlushStep

LEMMA CloseSessionSound ==
    ASSUME NullIsNoFunction, TelemetryInv, UNCHANGED watch, watch # None,
           NEW e \in Executions, CloseSession(e)
    PROVE  TelemetryShape' /\ TelemetrySound' /\ RowsKept
<1>1. PICK tick \in watch.ticks, answer \in Answers(e) :
         Adopt(e, Flush(Bundle(e), TRUE, tick, answer), "leaving", 0, attempt[e].log)
  BY DEF CloseSession
<1>2. attempt[e].phase = "stages"
  BY DEF CloseSession
<1>3. /\ Sound(Bundle(e)) /\ BundleTells(Bundle(e), attempt[e].log)
      /\ Bundle(e).row = rows[e] /\ Bundle(e).late = late[e]
      /\ Identified(e, Bundle(e).collector)
  BY <1>2, BundleSound DEF TelemetryInv
<1> QED  BY <1>1, <1>3, FlushStep

LEMMA CloseObserverSound ==
    ASSUME NullIsNoFunction, TelemetryInv, UNCHANGED watch, watch # None,
           NEW e \in Executions, CloseObserver(e)
    PROVE  TelemetryShape' /\ TelemetrySound' /\ RowsKept
<1>1. PICK answer \in Answers(e) :
         Adopt(e, [FlushObserver(Bundle(e), answer) EXCEPT !.observer.closed = TRUE],
               "closed", 0, attempt[e].log)
  BY DEF CloseObserver
<1> DEFINE x == Bundle(e)
           y == FlushObserver(x, answer)
           p == [y.observer EXCEPT !.closed = TRUE]
           w == [y EXCEPT !.observer.closed = TRUE]
<1>2. attempt[e].phase = "leaving"
  BY DEF CloseObserver
<1>3. /\ Sound(x) /\ BundleTells(x, attempt[e].log)
      /\ x.row = rows[e] /\ x.late = late[e] /\ Identified(e, x.collector)
  BY <1>2, BundleSound DEF TelemetryInv
<1>4. Synced(x.collector, x.observer)
  <2>1. Synced(attempt[e].collector, attempt[e].observer)
    BY <1>2 DEF TelemetryInv, TelemetrySound, AttemptSound
  <2>2. x.collector = attempt[e].collector /\ x.observer = attempt[e].observer
    BY DEF Bundle
  <2> QED  BY <2>1, <2>2
<1>5. Answered(x, answer)
  BY <1>3, AnswersAnswered DEF TelemetryInv
<1> HIDE DEF x
<1>6. /\ x = BundleRecord(x) /\ ~x.observer.closed
      /\ Chain(x.collector, x.observer, x.row, x.late)
  BY <1>3 DEF Sound, Counted
<1>7. /\ y = BundleRecord(y) /\ y.collector = x.collector
      /\ Chain(y.collector, y.observer, y.row, y.late)
      /\ Reference(y.observer) = Reference(x.observer) /\ RowKept(x.row, y.row)
      /\ Held(y) \subseteq Held(x) \cup {None}
  BY <1>5, <1>6, FlushObserverEffect
<1> HIDE DEF y
<1>8. /\ y.observer = ObserverRecord(y.observer) /\ y.observer.failures \in Nat
      /\ y.observer.disabled \in BOOLEAN
  BY <1>7 DEF Chain, IsObserver
<1>9. /\ p = ObserverRecord(p) /\ p.pending = y.observer.pending
      /\ p.saved = y.observer.saved /\ p.failures = y.observer.failures
      /\ p.disabled = y.observer.disabled /\ p.closed \in BOOLEAN
  <2>1. p = [ObserverRecord(y.observer) EXCEPT !.closed = TRUE]
    BY <1>8
  <2> HIDE DEF p
  <2>2. /\ p = ObserverRecord(p) /\ p.pending = y.observer.pending
        /\ p.saved = y.observer.saved /\ p.failures = y.observer.failures
        /\ p.disabled = y.observer.disabled
    BY <2>1 DEF ObserverRecord
  <2>3. p.closed = TRUE
    BY <2>1 DEF ObserverRecord
  <2>4. p.closed \in BOOLEAN
    BY <2>3
  <2> QED  BY <2>2, <2>4
<1>10. w = [BundleRecord(y) EXCEPT !.observer = p]
  BY <1>7
<1> HIDE DEF p, w
<1>11. /\ w.collector = y.collector /\ w.observer = p /\ w.row = y.row /\ w.late = y.late
  BY <1>10 DEF BundleRecord
<1>12. p.disabled \in BOOLEAN /\ p.failures \in Nat
  BY <1>8, <1>9
<1>13. Chain(w.collector, w.observer, w.row, w.late)
  BY <1>7, <1>9, <1>11, <1>12, ChainOfObserver
<1>14. Synced(w.collector, w.observer)
  <2>1. Reference(p) = Reference(y.observer)
    BY <1>9 DEF Reference
  <2> QED  BY <1>4, <1>7, <1>11, <2>1 DEF Synced
<1>15. RowKept(rows[e], w.row)
  BY <1>3, <1>7, <1>11
<1>16. Adopt(e, w, "closed", 0, attempt[e].log)
  BY <1>1 DEF w, y, x
<1>17. BundleTells(w, attempt[e].log)
  <2>1. Held(w) = Held(y)
    BY <1>9, <1>11 DEF Held
  <2>2. /\ IsLog(attempt[e].log) /\ Counts(w.collector, attempt[e].log)
        /\ w.collector.snapshot # None => Exact(w.collector.snapshot, attempt[e].log)
        /\ \A s \in Held(x) : s # None => Exact(s, attempt[e].log)
    BY <1>3, <1>7, <1>11, TellsHeld
  <2> QED  BY <1>7, <2>1, <2>2, HeldTells
<1>18. Identified(e, w.collector)
  BY <1>3, <1>7, <1>11
<1> QED  BY <1>13, <1>14, <1>15, <1>16, <1>17, <1>18, AdoptSound DEF TelemetryInv

\* A commit the server ends late is older than what the observer holds and newer
\* than what is stored.
LEMMA EndLateSound ==
    ASSUME TelemetryInv, UNCHANGED watch, NEW e \in Executions, EndLate(e)
    PROVE  TelemetryShape' /\ TelemetrySound' /\ RowsKept
<1>1. /\ late[e] # None /\ late'[e] = None /\ attempt' = attempt
      /\ rows'[e] = late[e] \/ rows'[e] = rows[e]
      /\ TelemetryShape'
  BY DEF EndLate, TelemetryInv, TelemetryShape
<1>2. ASSUME NEW f \in Executions, f # e
      PROVE  rows'[f] = rows[f] /\ late'[f] = late[f]
  BY <1>2 DEF EndLate, TelemetryInv, TelemetryShape
<1>3. ASSUME NEW f \in Executions
      PROVE  AttemptSound(f)' /\ RowKept(rows[f], rows'[f])
  <2>1. AttemptSound(f) /\ attempt'[f] = attempt[f]
    BY <1>1 DEF TelemetryInv, TelemetrySound
  <2>2. rows[f] # None => IsSnapshot(rows[f])
    BY <2>1 DEF AttemptSound, Chain, Storable
  <2>3. CASE f # e
    <3>1. AttemptSound(f)'
      BY <1>2, <2>1, <2>3 DEF AttemptSound, Identified
    <3> QED  BY <1>2, <2>2, <2>3, <3>1, RowKeptReflexive
  <2>4. CASE f = e
    <3> DEFINE a == attempt[e]
    <3>1. a.phase # "idle" /\ Chain(a.collector, a.observer, rows[e], late[e])
      BY <1>1, <2>1, <2>4 DEF AttemptSound
    <3>2. /\ Storable(late[e]) /\ a.observer.pending # None
          /\ a.observer.pending # a.observer.saved
          /\ Grows(late[e], a.observer.pending)
          /\ rows[e] # None => Grows(rows[e], late[e])
      BY <1>1, <3>1 DEF Chain
    <3>3. Reference(a.observer) = a.observer.pending
      BY <3>2 DEF Reference
    <3>4. Chain(a.collector, a.observer, late[e], None)
      BY <3>1, <3>2, <3>3 DEF Chain
    <3>5. Chain(a.collector, a.observer, rows[e], None)
      BY <3>1 DEF Chain
    <3>6. Chain(a.collector, a.observer, rows'[e], late'[e])
      BY <1>1, <3>4, <3>5
    <3>7. Tells(a.collector, a.observer, rows'[e], late'[e], a.log)
      <4>1. Tells(a.collector, a.observer, rows[e], late[e], a.log)
        BY <1>1, <2>1, <2>4 DEF AttemptSound
      <4> QED  BY <1>1, <4>1 DEF Tells
    <3>8. AttemptSound(e)'
      BY <1>1, <2>1, <2>4, <3>1, <3>6, <3>7 DEF AttemptSound, Identified
    <3>9. RowKept(rows[e], late[e])
      BY <1>1, <3>2 DEF RowKept
    <3>10. RowKept(rows[e], rows'[e])
      BY <1>1, <2>2, <2>4, <3>9, RowKeptReflexive
    <3> QED  BY <2>4, <3>8, <3>10
  <2> QED  BY <2>3, <2>4
<1> QED  BY <1>1, <1>3 DEF TelemetrySound, RowsKept

-----------------------------------------------------------------------------
(***************************************************************************)
(* The telemetry of the whole system                                       *)
(***************************************************************************)
\* Everything else leaves the telemetry alone, and nobody changes the inputs.
LEMMA OthersLeaveTelemetry ==
    ASSUME Next, ~\E e \in cast.executions : watch # None /\ Telemetry(e)
    PROVE  UNCHANGED <<telemetryVars, watch, cast>>
<1>1. CASE Fast
  BY <1>1 DEF Fast, FastOnly, given
<1>2. CASE Replaying
  BY <1>2 DEF Replaying, ReplayOnly, given
<1>3. CASE Store
  BY <1>3 DEF Store, StoreOnly, given
<1>4. CASE Feeding
  BY <1>4 DEF Feeding, FeedOnly, given
<1>5. ASSUME NEW p \in cast.procs, Pipeline(p)
      PROVE  UNCHANGED <<telemetryVars, watch, cast>>
  BY <1>5 DEF Pipeline, FastOnly, PipelineOnly, given
<1>6. ASSUME NEW p \in cast.procs, Handoff(p)
      PROVE  UNCHANGED <<telemetryVars, watch, cast>>
  BY <1>6 DEF Handoff, HandoffOnly, given
<1>7. ASSUME NEW e \in cast.executions, Telemetry(e)
      PROVE  watch # None
  BY <1>7 DEF Telemetry, TelemetryOnly
<1> QED  BY <1>1, <1>2, <1>3, <1>4, <1>5, <1>6, <1>7 DEF Next

LEMMA TelemetryStep ==
    ASSUME NullIsNoFunction, TelemetryInv, watch # None,
           NEW e \in cast.executions, Telemetry(e)
    PROVE  TelemetryInv' /\ RowsKept
<1>1. e \in Executions
  BY WatchAssumption DEF TelemetryInv, Given
<1>2. UNCHANGED <<watch, cast>>
  BY DEF Telemetry, TelemetryOnly, given
<1>3. Given'
  BY <1>2 DEF TelemetryInv, Given
<1>4. TelemetryShape' /\ TelemetrySound' /\ RowsKept
  <2>1. CASE OpenSession(e)
    BY <1>1, <1>2, <2>1, OpenSessionSound
  <2>2. CASE RecordSuccess(e)
    <3>1. MeasureRecord(e, TRUE)
      BY <2>2 DEF RecordSuccess
    <3> QED  BY <1>1, <1>2, <3>1, MeasureRecordSound
  <2>3. CASE RecordFailure(e)
    <3>1. MeasureRecord(e, FALSE)
      BY <2>3 DEF RecordFailure
    <3> QED  BY <1>1, <1>2, <3>1, MeasureRecordSound
  <2>4. CASE EndStage(e)
    BY <1>1, <1>2, <2>4, EndStageSound
  <2>5. CASE CloseSession(e)
    BY <1>1, <1>2, <2>5, CloseSessionSound
  <2>6. CASE CloseObserver(e)
    BY <1>1, <1>2, <2>6, CloseObserverSound
  <2>7. CASE EndLate(e)
    BY <1>1, <1>2, <2>7, EndLateSound
  <2> QED  BY <2>1, <2>2, <2>3, <2>4, <2>5, <2>6, <2>7 DEF Telemetry
<1> QED  BY <1>3, <1>4 DEF TelemetryInv

LEMMA TelemetryUnchanged ==
    ASSUME TelemetryInv, UNCHANGED <<telemetryVars, watch, cast>>
    PROVE  TelemetryInv' /\ RowsKept
<1>1. attempt' = attempt /\ rows' = rows /\ late' = late
  BY DEF telemetryVars
<1>2. TelemetryShape' /\ Given'
  BY <1>1 DEF TelemetryInv, TelemetryShape, Given
<1>3. ASSUME NEW e \in Executions
      PROVE  AttemptSound(e)' /\ RowKept(rows[e], rows'[e])
  <2>1. AttemptSound(e)
    BY DEF TelemetryInv, TelemetrySound
  <2>2. AttemptSound(e)'
    BY <1>1, <2>1 DEF AttemptSound, Identified
  <2>3. rows[e] # None => IsSnapshot(rows[e])
    BY <2>1 DEF AttemptSound, Chain, Storable
  <2> QED  BY <1>1, <2>2, <2>3, RowKeptReflexive
<1> QED  BY <1>2, <1>3 DEF TelemetryInv, TelemetrySound, RowsKept

LEMMA TelemetryInitially == ASSUME Init PROVE TelemetryInv
<1>1. Given
  BY DEF Init, Given
<1>2. TelemetryShape
  BY DEF Init, TelemetryInit, TelemetryShape
<1>3. ASSUME NEW e \in Executions
      PROVE  AttemptSound(e)
  <2>1. /\ attempt[e].phase = "idle" /\ attempt[e].session = NewSession
        /\ attempt[e].observer = NewObserver /\ rows[e] = None /\ late[e] = None
    BY DEF Init, TelemetryInit
  <2> QED  BY <2>1 DEF AttemptSound
<1> QED  BY <1>1, <1>2, <1>3 DEF TelemetryInv, TelemetrySound

LEMMA TelemetryNext ==
    ASSUME NullIsNoFunction, TelemetryInv, [Next]_vars
    PROVE  TelemetryInv' /\ RowsKept
<1>1. CASE UNCHANGED vars
  <2>1. UNCHANGED <<telemetryVars, watch, cast>>
    BY <1>1 DEF vars, given
  <2> QED  BY <2>1, TelemetryUnchanged
<1>2. CASE Next
  <2>1. CASE \E e \in cast.executions : watch # None /\ Telemetry(e)
    BY <2>1, TelemetryStep
  <2>2. CASE ~\E e \in cast.executions : watch # None /\ Telemetry(e)
    BY <1>2, <2>2, OthersLeaveTelemetry, TelemetryUnchanged
  <2> QED  BY <2>1, <2>2
<1> QED  BY <1>1, <1>2

\* What is stored of an execution, what a transaction still in flight may store,
\* what its observer holds and what its collector published last stand in one
\* order, in every reachable state.
THEOREM TelemetryInOrder ==
    ASSUME NullIsNoFunction
    PROVE  Spec => []TelemetrySound
<1>1. Init => TelemetryInv
  BY TelemetryInitially
<1>2. TelemetryInv /\ [Next]_vars => TelemetryInv'
  BY TelemetryNext
<1>3. TelemetryInv => TelemetrySound
  BY DEF TelemetryInv
<1> QED  BY <1>1, <1>2, <1>3, PTL DEF Spec

\* An observer closed with nothing pending has stored the last word of its
\* collector.
THEOREM ClosedObserversStored ==
    ASSUME NullIsNoFunction
    PROVE  Spec => []ClosedMeansStored
<1>1. TelemetrySound => ClosedMeansStored
  <2> SUFFICES ASSUME TelemetrySound, NEW e \in Executions,
                      attempt[e].observer.closed, attempt[e].observer.pending = None
               PROVE  /\ attempt[e].collector.snapshot.revision
                            = attempt[e].collector.revision
                      /\ rows[e] = attempt[e].collector.snapshot
    BY DEF ClosedMeansStored
  <2>1. AttemptSound(e)
    BY DEF TelemetrySound
  <2>2. attempt[e].phase # "idle"
    BY <2>1, NewObserverFields DEF AttemptSound
  <2>3. attempt[e].phase = "closed"
    BY <2>1, <2>2 DEF AttemptSound, Counted
  <2>4. /\ Chain(attempt[e].collector, attempt[e].observer, rows[e], late[e])
        /\ Synced(attempt[e].collector, attempt[e].observer)
    BY <2>1, <2>3 DEF AttemptSound
  <2>5. rows[e] = attempt[e].observer.saved
    BY <2>4 DEF Chain
  <2> QED  BY <2>4, <2>5 DEF Synced, Reference
<1> QED  BY <1>1, TelemetryInOrder, PTL

\* A stored row without a quality mark tells exactly what happened up to its
\* revision: each of those observations had a clock and a bucket for its second,
\* and each counter of a bucket is the one total of what the observations of that
\* second say.
StoredIsExact ==
    \A e \in Stored : rows[e].issues = {} =>
        LET log == attempt[e].log
            n   == rows[e].revision
            b   == rows[e].buckets
        IN  /\ n \in 0..Len(log)
            /\ \A i \in 1..n : log[i].at # None /\ log[i].at \div Second \in DOMAIN b
            /\ \A x \in DOMAIN b :
                  /\ \A v : Adds(v, Part(log, x, "accepted"), n) <=> v = b[x].accepted
                  /\ \A v : Adds(v, Part(log, x, "completed"), n) <=> v = b[x].completed
                  /\ \A v : Adds(v, Part(log, x, "failed"), n) <=> v = b[x].failed
                  /\ \A v : Adds(v, Time(log, x), n) <=> v = b[x].sum
                  /\ b[x].samples = b[x].completed

\* No retry of a flush, lost answer, late commit or full buffer makes a row
\* without a quality mark count a record twice, leave one out, or put it into
\* another second.
THEOREM CleanRowsAreExact ==
    ASSUME NullIsNoFunction
    PROVE  Spec => []StoredIsExact
<1>1. TelemetrySound => StoredIsExact
  <2> SUFFICES ASSUME TelemetrySound, NEW e \in Stored, rows[e].issues = {}
               PROVE  LET log == attempt[e].log
                          n   == rows[e].revision
                          b   == rows[e].buckets
                      IN  /\ n \in 0..Len(log)
                          /\ \A i \in 1..n : /\ log[i].at # None
                                             /\ log[i].at \div Second \in DOMAIN b
                          /\ \A x \in DOMAIN b :
                                /\ \A v : Adds(v, Part(log, x, "accepted"), n)
                                             <=> v = b[x].accepted
                                /\ \A v : Adds(v, Part(log, x, "completed"), n)
                                             <=> v = b[x].completed
                                /\ \A v : Adds(v, Part(log, x, "failed"), n)
                                             <=> v = b[x].failed
                                /\ \A v : Adds(v, Time(log, x), n) <=> v = b[x].sum
                                /\ b[x].samples = b[x].completed
    BY DEF StoredIsExact
  <2> DEFINE log == attempt[e].log
             n   == rows[e].revision
             b   == rows[e].buckets
  <2>1. e \in Executions /\ rows[e] # None /\ AttemptSound(e)
    BY DEF Stored, TelemetrySound
  <2>2. IsLog(log) /\ Exact(rows[e], log)
    BY <2>1 DEF AttemptSound, Tells
  <2>3. n \in 0..Len(log) /\ Shown(b, log, n) /\ n \in Nat
    BY <2>2, LogLength DEF Exact
  <2> HIDE DEF log, n, b
  <2>4. \A f, v, w : Adds(v, f, n) /\ Adds(w, f, n) => v = w
    BY <2>3, AddsOnce
  <2>5. ASSUME NEW x \in DOMAIN b
        PROVE  BucketShows(b[x], log, x, n)
    BY <2>3 DEF Shown
  <2>6. ASSUME NEW f, NEW w, Adds(w, f, n)
        PROVE  \A v : Adds(v, f, n) <=> v = w
    BY <2>4, <2>6
  <2>7. ASSUME NEW x \in DOMAIN b
        PROVE  /\ \A v : Adds(v, Part(log, x, "accepted"), n) <=> v = b[x].accepted
               /\ \A v : Adds(v, Part(log, x, "completed"), n) <=> v = b[x].completed
               /\ \A v : Adds(v, Part(log, x, "failed"), n) <=> v = b[x].failed
               /\ \A v : Adds(v, Time(log, x), n) <=> v = b[x].sum
               /\ b[x].samples = b[x].completed
    BY <2>5, <2>6, Zenon DEF BucketShows
  <2>8. \A i \in 1..n : log[i].at # None /\ log[i].at \div Second \in DOMAIN b
    BY <2>3 DEF Shown
  <2> QED  BY <2>3, <2>7, <2>8, Zenon DEF log, n, b
<1> QED  BY <1>1, TelemetryInOrder, PTL

\* Whatever the database answers and however late a commit ends, the stored
\* telemetry of an execution only grows.
THEOREM StoredTelemetryGrows ==
    ASSUME NullIsNoFunction
    PROVE  Spec => TelemetryNeverRegresses
<1> DEFINE Kept(e) ==
             LET old == rows[e]
                 new == rows'[e]
             IN  /\ new # None
                 /\ new.revision > old.revision \/ new = old
                 /\ old.issues \subseteq new.issues
                 /\ old.disabled => new.disabled
                 /\ \A s \in DOMAIN old.buckets :
                       /\ s \in DOMAIN new.buckets
                       /\ new.buckets[s].accepted >= old.buckets[s].accepted
                       /\ new.buckets[s].completed >= old.buckets[s].completed
                       /\ new.buckets[s].failed >= old.buckets[s].failed
                       /\ new.buckets[s].sum >= old.buckets[s].sum
<1>1. Init => TelemetryInv
  BY TelemetryInitially
<1>2. TelemetryInv /\ [Next]_vars => TelemetryInv'
  BY TelemetryNext
<1>3. TelemetryInv /\ TelemetryInv' /\ [Next]_vars => \A e \in Stored : Kept(e)
  <2> SUFFICES ASSUME TelemetryInv, TelemetryInv', [Next]_vars, NEW e \in Stored
               PROVE  Kept(e)
    OBVIOUS
  <2> DEFINE old == rows[e]
             new == rows'[e]
  <2>1. e \in Executions /\ old # None
    BY DEF Stored
  <2>2. new # None /\ Grows(old, new)
    BY <2>1, TelemetryNext DEF RowsKept, RowKept
  <2>3. IsSnapshot(old)
    BY <2>1 DEF TelemetryInv, TelemetrySound, AttemptSound, Chain, Storable
  <2>4. IsSnapshot(new)
    <3>1. AttemptSound(e)'
      BY <2>1 DEF TelemetryInv, TelemetrySound
    <3> QED  BY <2>2, <3>1 DEF AttemptSound, Chain, Storable
  <2> HIDE DEF old, new
  <2>5. new.revision > old.revision \/ new = old
    BY <2>2, <2>3, <2>4 DEF Grows, Below, IsSnapshot
  <2>6. old.issues \subseteq new.issues /\ (old.disabled => new.disabled)
    BY <2>2 DEF Grows, Below
  <2>7. ASSUME NEW s \in DOMAIN old.buckets
        PROVE  /\ s \in DOMAIN new.buckets
               /\ new.buckets[s].accepted >= old.buckets[s].accepted
               /\ new.buckets[s].completed >= old.buckets[s].completed
               /\ new.buckets[s].failed >= old.buckets[s].failed
               /\ new.buckets[s].sum >= old.buckets[s].sum
    <3>1. s \in DOMAIN new.buckets /\ BucketGrows(old.buckets[s], new.buckets[s])
      BY <2>2 DEF Grows, Below
    <3>2. IsBucket(old.buckets[s]) /\ IsBucket(new.buckets[s])
      BY <2>3, <2>4, <3>1 DEF IsSnapshot, IsBuckets
    <3> QED  BY <3>1, <3>2 DEF IsBucket, BucketGrows
  <2> QED  BY <2>2, <2>5, <2>6, <2>7 DEF old, new
<1>4. TelemetryInv /\ TelemetryInv' /\ [Next]_vars => [\A e \in Stored : Kept(e)]_rows
  BY <1>3
<1> QED  BY <1>1, <1>2, <1>4, PTL DEF Spec, TelemetryNeverRegresses
-----------------------------------------------------------------------------
(***************************************************************************)
(* The sums of a response                                                  *)
(***************************************************************************)
\* A running total ends at the sum.
LEMMA AddsIsSum ==
    ASSUME NEW n \in Nat, NEW f, AllNat(f, 1..n), NEW v, Adds(v, f, n)
    PROVE  v = Sum(f, 1..n)
<1>1. PICK t \in [0..n -> Nat] :
         t[0] = 0 /\ t[n] = v /\ \A i \in 1..n : t[i] = t[i - 1] + f[i]
  BY DEF Adds
<1> DEFINE N == {k \in Nat : k <= n => t[k] = Sum(f, 1..k)}
<1>2. 0 \in N
  <2>1. 1..0 = {}
    OBVIOUS
  <2> QED  BY <1>1, <2>1, SumNothing
<1>3. ASSUME NEW k \in N
      PROVE  k + 1 \in N
  <2> SUFFICES ASSUME k + 1 <= n
               PROVE  t[k + 1] = Sum(f, 1..(k + 1))
    OBVIOUS
  <2>1. k \in Nat /\ t[k] = Sum(f, 1..k)
    OBVIOUS
  <2>2. t[k + 1] = t[k] + f[k + 1]
    BY <1>1, <2>1
  <2> DEFINE R == 1..k
             x == k + 1
  <2>3. 1..(k + 1) = R \cup {x} /\ x \notin R
    BY <2>1
  <2>4. IsFiniteSet(R) /\ AllNat(f, R) /\ f[x] \in Nat
    BY <2>1, FS_Interval DEF AllNat
  <2> HIDE DEF N, R, x
  <2>5. Sum(f, R \cup {x}) = Sum(f, R) + f[x]
    BY <2>3, <2>4, SumAdd
  <2> QED  BY <2>1, <2>2, <2>3, <2>5 DEF R, x
<1>4. N = Nat
  <2> HIDE DEF N
  <2>1. N \in SUBSET Nat
    BY DEF N
  <2> QED  BY <1>2, <1>3, <2>1, Induction
<1> QED  BY <1>1, <1>4

\* What an observation of an execution counts for: its records, when they are of
\* the kind, or the time they took.
Kinds == {"accepted", "completed", "failed", "sum"}

Worth(e, kind) ==
    LET log == attempt[e].log
    IN  [i \in 1..Len(log) |-> IF kind = "sum" THEN log[i].took
                               ELSE IF log[i].kind = kind THEN log[i].count ELSE 0]

Field(b, kind) ==
    IF kind = "sum" THEN b.sum
    ELSE IF kind = "accepted" THEN b.accepted
    ELSE IF kind = "completed" THEN b.completed ELSE b.failed

\* What happened to an execution, and to some of them, as of what is seen.
Total(e, n, from, to, kind) == Sum(Worth(e, kind), Happened(e, n, from, to))

TotalOf(es, seen, from, to, kind) ==
    Sum([e \in es |-> Total(e, seen[e], from, to, kind)], es)

\* An execution whose observations are a log, finitely many of them.
LEMMA HappenedFinite ==
    ASSUME NEW e, IsLog(attempt[e].log), NEW n, NEW from, NEW to
    PROVE  /\ IsFiniteSet(Happened(e, n, from, to))
           /\ Happened(e, n, from, to) \subseteq 1..Len(attempt[e].log)
           /\ \A kind : AllNat(Worth(e, kind), Happened(e, n, from, to))
           /\ \A kind : Total(e, n, from, to, kind) \in Nat
<1>1. Len(attempt[e].log) \in Nat /\ DOMAIN attempt[e].log = 1..Len(attempt[e].log)
  BY DEF IsLog
<1>2. Happened(e, n, from, to) \subseteq 1..Len(attempt[e].log)
  BY <1>1 DEF Happened
<1>3. IsFiniteSet(Happened(e, n, from, to))
  <2>1. IsFiniteSet(1..Len(attempt[e].log))
    BY <1>1, FS_Interval
  <2> QED  BY <1>2, <2>1, FS_Subset
<1>4. ASSUME NEW kind
      PROVE  AllNat(Worth(e, kind), Happened(e, n, from, to))
  BY <1>2 DEF IsLog, Worth, AllNat
<1>5. ASSUME NEW kind
      PROVE  Total(e, n, from, to, kind) \in Nat
  BY <1>3, <1>4, SumIsNat DEF Total
<1> QED  BY <1>2, <1>3, <1>4, <1>5

\* The sums of the property are those totals.
LEMMA ReallyIsTotal ==
    ASSUME NEW es, \A e \in es : IsLog(attempt[e].log), IsFiniteSet(es), NEW seen, NEW from, NEW to
    PROVE  /\ \A kind \in Kinds \ {"sum"} :
                 Really(es, seen, from, to, kind) = TotalOf(es, seen, from, to, kind)
           /\ ReallyTook(es, seen, from, to) = TotalOf(es, seen, from, to, "sum")
<1>1. ASSUME NEW kind \in Kinds \ {"sum"}
      PROVE  Really(es, seen, from, to, kind) = TotalOf(es, seen, from, to, kind)
  <2> DEFINE Of(e) == {j \in Happened(e, seen[e], from, to) : attempt[e].log[j].kind = kind}
             count(e) == [i \in Of(e) |-> attempt[e].log[i].count]
             f == [e \in es |-> SumFunction(count(e))]
             g == [e \in es |-> Total(e, seen[e], from, to, kind)]
  <2>1. ASSUME NEW e \in es
        PROVE  f[e] = g[e]
    <3> DEFINE H == Happened(e, seen[e], from, to)
               w == Worth(e, kind)
               K == Of(e)
               k == count(e)
    <3>1. /\ IsFiniteSet(H) /\ AllNat(w, H) /\ H \subseteq 1..Len(attempt[e].log)
          /\ g[e] = Sum(w, H)
      BY HappenedFinite DEF Total
    <3>2. K \subseteq H /\ \A x \in H \ K : w[x] = 0
      BY <3>1 DEF Worth, Kinds
    <3>3. \A x \in K : k[x] = w[x]
      BY <3>1, <3>2 DEF Worth, Kinds
    <3>4. f[e] = SumFunction(k) /\ DOMAIN k = K
      OBVIOUS
    <3> HIDE DEF H, w, K, k, f, g
    <3>5. IsFiniteSet(K) /\ AllNat(w, K)
      BY <3>1, <3>2, FS_Subset DEF AllNat
    <3>6. Sum(w, H) = Sum(w, K)
      BY <3>1, <3>2, <3>5, SumWider
    <3>7. Sum(k, K) = Sum(w, K)
      BY <3>3, <3>5, SumSame
    <3>8. SumFunction(k) = Sum(k, K)
      BY <3>4, SumOfFunction
    <3> QED  BY <3>1, <3>4, <3>6, <3>7, <3>8
  <2>2. Really(es, seen, from, to, kind) = SumFunction(f) /\ DOMAIN f = es
    BY DEF Really
  <2>3. TotalOf(es, seen, from, to, kind) = Sum(g, es)
    BY DEF TotalOf
  <2> HIDE DEF f, g
  <2> QED  BY <2>1, <2>2, <2>3, SumOfFunction, SumSame
<1>2. ReallyTook(es, seen, from, to) = TotalOf(es, seen, from, to, "sum")
  <2> DEFINE took(e) == [i \in Happened(e, seen[e], from, to) |-> attempt[e].log[i].took]
             f == [e \in es |-> SumFunction(took(e))]
             g == [e \in es |-> Total(e, seen[e], from, to, "sum")]
  <2>1. ASSUME NEW e \in es
        PROVE  f[e] = g[e]
    <3> DEFINE H == Happened(e, seen[e], from, to)
               w == Worth(e, "sum")
               k == took(e)
    <3>1. /\ IsFiniteSet(H) /\ H \subseteq 1..Len(attempt[e].log) /\ g[e] = Sum(w, H)
      BY HappenedFinite DEF Total
    <3>2. \A x \in H : k[x] = w[x]
      BY <3>1 DEF Worth
    <3>3. f[e] = SumFunction(k) /\ DOMAIN k = H
      OBVIOUS
    <3> HIDE DEF H, w, k, f, g
    <3>4. Sum(k, H) = Sum(w, H)
      BY <3>1, <3>2, SumSame, ZenonT(60)
    <3>5. SumFunction(k) = Sum(k, H)
      BY <3>3, SumOfFunction
    <3> QED  BY <3>1, <3>3, <3>4, <3>5
  <2>2. ReallyTook(es, seen, from, to) = SumFunction(f) /\ DOMAIN f = es
    BY DEF ReallyTook
  <2>3. TotalOf(es, seen, from, to, "sum") = Sum(g, es)
    BY DEF TotalOf
  <2> HIDE DEF f, g
  <2> QED  BY <2>1, <2>2, <2>3, SumOfFunction, SumSame
<1> QED  BY <1>1, <1>2

\* What a clean bucket counts of its second is what happened in that second.
LEMMA BucketIsTotal ==
    ASSUME NEW e, IsLog(attempt[e].log), NEW n \in 0..Len(attempt[e].log),
           NEW buckets, Shown(buckets, attempt[e].log, n), NEW x \in DOMAIN buckets, x \in Int
    PROVE  /\ \A kind \in Kinds : Field(buckets[x], kind) = Total(e, n, x, x + 1, kind)
           /\ buckets[x].samples = buckets[x].completed
<1> DEFINE log == attempt[e].log
           b == buckets[x]
           H == Happened(e, n, x, x + 1)
<1>1. /\ Len(log) \in Nat /\ DOMAIN log = 1..Len(log) /\ n \in Nat /\ n <= Len(log)
      /\ Second \in Nat \ {0}
  BY TelemetryLimits DEF IsLog
<1>2. BucketShows(b, log, x, n)
  BY DEF Shown
<1>3. \A i \in 1..n : /\ i \in 1..Len(log) /\ log[i].at # None /\ log[i].at \in Int
                      /\ log[i].count \in Nat /\ log[i].took \in Nat
  BY <1>1 DEF Shown, IsLog
<1>4. \A i \in 1..n : i \in H <=> log[i].at \div Second = x
  <2> SUFFICES ASSUME NEW i \in 1..n
               PROVE  i \in H <=> log[i].at \div Second = x
    OBVIOUS
  <2> DEFINE at == log[i].at
  <2>1. /\ at \in Int /\ at # None /\ i \in DOMAIN log /\ i <= n
    BY <1>1, <1>3
  <2>2. i \in H <=> x * Second <= at /\ at < (x + 1) * Second
    BY <2>1 DEF Happened
  <2> HIDE DEF at, H
  <2>3. x * Second <= at /\ at < (x + 1) * Second <=> at \div Second = x
    BY <1>1, <2>1, InSecond
  <2> QED  BY <2>2, <2>3 DEF at
<1>5. H \subseteq 1..n
  BY <1>1 DEF Happened
<1>6. ASSUME NEW kind \in Kinds, NEW f, NEW v, Adds(v, f, n),
             \A i \in 1..n : f[i] = IF log[i].at \div Second = x THEN Worth(e, kind)[i] ELSE 0
      PROVE  v = Total(e, n, x, x + 1, kind)
  <2> DEFINE R == 1..n
             w == Worth(e, kind)
  <2>1. /\ IsFiniteSet(R) /\ IsFiniteSet(H) /\ AllNat(w, H)
        /\ Total(e, n, x, x + 1, kind) = Sum(w, H)
    <3>1. ASSUME NEW k \in Nat PROVE IsFiniteSet(1..k)
      BY FS_Interval
    <3>2. IsFiniteSet(R)
      BY <1>1, <3>1, Zenon
    <3>3. Total(e, n, x, x + 1, kind) = Sum(w, H)
      BY DEF Total
    <3> QED  BY <3>2, <3>3, HappenedFinite
  <2>2. \A i \in H : i \in R /\ f[i] = w[i]
    BY <1>4, <1>5, <1>6
  <2>3. \A i \in R \ H : f[i] = 0
    BY <1>4, <1>6
  <2> HIDE DEF w, H
  <2>4. AllNat(f, R) /\ AllNat(f, H)
    BY <2>1, <2>2, <2>3 DEF AllNat
  <2>5. v = Sum(f, R)
    BY <1>1, <1>6, <2>4, AddsIsSum
  <2> HIDE DEF R
  <2>6. Sum(f, R) = Sum(f, H)
    BY <2>1, <2>2, <2>3, <2>4, SumWider
  <2>7. Sum(f, H) = Sum(w, H)
    BY <2>1, <2>2, SumSame
  <2> QED  BY <2>1, <2>5, <2>6, <2>7
<1>7. ASSUME NEW kind \in Kinds \ {"sum"}, NEW v, Adds(v, Part(log, x, kind), n)
      PROVE  v = Total(e, n, x, x + 1, kind)
  <2> DEFINE f == Part(log, x, kind)
  <2>1. \A i \in 1..n : f[i] = IF log[i].at \div Second = x THEN Worth(e, kind)[i] ELSE 0
    BY <1>3 DEF Part, Worth
  <2> HIDE DEF f, log
  <2> QED  BY <1>6, <1>7, <2>1 DEF f
<1>8. ASSUME NEW v, Adds(v, Time(log, x), n)
      PROVE  v = Total(e, n, x, x + 1, "sum")
  <2> DEFINE f == Time(log, x)
  <2>1. \A i \in 1..n : f[i] = IF log[i].at \div Second = x THEN Worth(e, "sum")[i] ELSE 0
    BY <1>3 DEF Time, Worth
  <2>2. "sum" \in Kinds
    BY DEF Kinds
  <2> HIDE DEF f, log
  <2> QED  BY <1>6, <1>8, <2>1, <2>2 DEF f
<1> HIDE DEF log, b
<1>9. /\ b.accepted = Total(e, n, x, x + 1, "accepted")
      /\ b.completed = Total(e, n, x, x + 1, "completed")
      /\ b.failed = Total(e, n, x, x + 1, "failed")
      /\ b.sum = Total(e, n, x, x + 1, "sum") /\ b.samples = b.completed
  <2>1. "accepted" \in Kinds \ {"sum"} /\ "completed" \in Kinds \ {"sum"}
        /\ "failed" \in Kinds \ {"sum"}
    BY DEF Kinds
  <2> QED  BY <1>2, <1>7, <1>8, <2>1 DEF BucketShows
<1> QED  BY <1>9 DEF Field, Kinds, b

\* In a second without a bucket nothing happened to a clean execution.
LEMMA NoBucketNothing ==
    ASSUME NEW e, IsLog(attempt[e].log), NEW n \in 0..Len(attempt[e].log),
           NEW buckets, Shown(buckets, attempt[e].log, n), NEW x \in Int, x \notin DOMAIN buckets
    PROVE  /\ Happened(e, n, x, x + 1) = {}
           /\ \A kind : Total(e, n, x, x + 1, kind) = 0
<1> DEFINE log == attempt[e].log
           H == Happened(e, n, x, x + 1)
<1>1. ASSUME NEW i \in H
      PROVE  FALSE
  <2> DEFINE at == log[i].at
  <2>1. Second \in Nat \ {0}
    BY TelemetryLimits
  <2>2. /\ i \in 1..n /\ at # None /\ x * Second <= at /\ at < (x + 1) * Second
    BY <1>1 DEF Happened, IsLog
  <2>3. at \in Int
    BY <2>2 DEF IsLog
  <2>4. at \div Second \in DOMAIN buckets
    BY <2>2 DEF Shown
  <2> HIDE DEF at
  <2>5. at \div Second = x
    BY <2>1, <2>2, <2>3
  <2> QED  BY <2>4, <2>5
<1>2. H = {}
  BY <1>1
<1> QED  BY <1>2, SumNothing DEF Total

\* Two adjacent periods.
LEMMA TotalJoin ==
    ASSUME NEW e, IsLog(attempt[e].log), NEW n, NEW from \in Int, NEW mid \in Int, NEW to \in Int,
           from <= mid, mid <= to,
           \A i \in DOMAIN attempt[e].log : i <= n => attempt[e].log[i].at # None,
           NEW kind
    PROVE  Total(e, n, from, to, kind) = Total(e, n, from, mid, kind) + Total(e, n, mid, to, kind)
<1> DEFINE log == attempt[e].log
           R == Happened(e, n, from, mid)
           S == Happened(e, n, mid, to)
           T == Happened(e, n, from, to)
           w == Worth(e, kind)
<1>1. IsFiniteSet(R) /\ IsFiniteSet(S) /\ AllNat(w, R) /\ AllNat(w, S)
  BY HappenedFinite
<1>2. /\ from * Second <= mid * Second /\ mid * Second <= to * Second
      /\ {from * Second, mid * Second, to * Second} \subseteq Int
  <2>1. Second \in Nat
    BY TelemetryLimits
  <2>2. ASSUME NEW a \in Int, NEW b \in Int, a <= b, NEW k \in Nat PROVE a * k <= b * k
    BY <2>2, SMT
  <2> QED  BY <2>1, <2>2
<1>3. \A i \in DOMAIN log : log[i].at # None => log[i].at \in Int
  BY DEF IsLog
<1>4. T = R \cup S /\ R \cap S = {}
  <2> DEFINE a == from * Second
             b == mid * Second
             c == to * Second
  <2>1. a <= b /\ b <= c /\ a \in Int /\ b \in Int /\ c \in Int
    BY <1>2
  <2>2. /\ R = {i \in DOMAIN log : i <= n /\ log[i].at # None /\ a <= log[i].at /\ log[i].at < b}
        /\ S = {i \in DOMAIN log : i <= n /\ log[i].at # None /\ b <= log[i].at /\ log[i].at < c}
        /\ T = {i \in DOMAIN log : i <= n /\ log[i].at # None /\ a <= log[i].at /\ log[i].at < c}
    BY DEF Happened
  <2> HIDE DEF a, b, c, log, R, S, T
  <2> QED  BY <1>3, <2>1, <2>2
<1> HIDE DEF R, S, T, w
<1>5. Sum(w, T) = Sum(w, R) + Sum(w, S)
  BY <1>1, <1>4, SumJoin
<1> QED  BY <1>5 DEF Total, R, S, T, w
-----------------------------------------------------------------------------
(***************************************************************************)
(* A response and the rows it is read from                                 *)
(***************************************************************************)
\* What the invariant says of the rows a query can read.
LEMMA StoredRows ==
    ASSUME TelemetryInv
    PROVE  /\ IsFiniteSet(Stored)
           /\ \A e \in Stored :
                 /\ Storable(rows[e]) /\ rows[e].revision \in Nat
                 /\ IsLog(attempt[e].log) /\ Exact(rows[e], attempt[e].log)
                 /\ watch # None /\ e \in DOMAIN watch.attempts
                 /\ rows[e].identity = ResolveIdentity(watch.attempts[e].input)
<1>1. ASSUME NEW e \in Stored
      PROVE  /\ Storable(rows[e]) /\ rows[e].revision \in Nat
             /\ IsLog(attempt[e].log) /\ Exact(rows[e], attempt[e].log)
             /\ watch # None /\ e \in DOMAIN watch.attempts
             /\ rows[e].identity = ResolveIdentity(watch.attempts[e].input)
  <2>1. e \in Executions /\ rows[e] # None /\ AttemptSound(e)
    BY DEF Stored, TelemetryInv, TelemetrySound
  <2>2. /\ Chain(attempt[e].collector, attempt[e].observer, rows[e], late[e])
        /\ Tells(attempt[e].collector, attempt[e].observer, rows[e], late[e], attempt[e].log)
        /\ Identified(e, attempt[e].collector)
    BY <2>1 DEF AttemptSound
  <2>3. Storable(rows[e]) /\ rows[e].revision \in Nat
    BY <2>1, <2>2 DEF Chain, Storable, IsSnapshot
  <2>4. IsLog(attempt[e].log) /\ Exact(rows[e], attempt[e].log)
    BY <2>1, <2>2 DEF Tells
  <2>5. rows[e].identity = attempt[e].collector.snapshot.identity
    BY <2>1, <2>2 DEF Chain, Grows
  <2> QED  BY <2>2, <2>3, <2>4, <2>5 DEF Identified
<1>2. IsFiniteSet(Stored)
  <2>1. CASE Stored = {}
    BY <2>1, FS_EmptySet
  <2>2. CASE Stored # {}
    <3>1. Stored \subseteq DOMAIN watch.attempts /\ watch # None
      BY <1>1, <2>2
    <3>2. IsFiniteSet(DOMAIN watch.attempts)
      BY <3>1, WatchAssumption DEF TelemetryInv, Given
    <3> QED  BY <3>1, <3>2, FS_Subset
  <2> QED  BY <2>1, <2>2
<1> QED  BY <1>1, <1>2

\* The totals of the property, over the executions of a query.
Seen(q) == [e \in Scoped(q) |-> rows[e].revision]

Shows(p, es, seen, from, to) ==
    /\ \A kind \in Kinds : Field(p, kind) = TotalOf(es, seen, from, to, kind)
    /\ p.samples = p.completed

LEMMA ShowsIsTotals ==
    ASSUME NEW es, \A e \in es : IsLog(attempt[e].log), IsFiniteSet(es),
           NEW seen, NEW from, NEW to, NEW p, Shows(p, es, seen, from, to)
    PROVE  TotalsAre(p, es, seen, from, to)
<1>1. /\ {"accepted", "completed", "failed"} \subseteq Kinds \ {"sum"} /\ "sum" \in Kinds
  BY DEF Kinds
<1>2. /\ p.accepted = TotalOf(es, seen, from, to, "accepted")
      /\ p.completed = TotalOf(es, seen, from, to, "completed")
      /\ p.failed = TotalOf(es, seen, from, to, "failed")
      /\ p.sum = TotalOf(es, seen, from, to, "sum")
  BY <1>1 DEF Shows, Field
<1> QED  BY <1>1, <1>2, ReallyIsTotal DEF Shows, TotalsAre

\* A query over clean rows.
Clean(q) == \A e \in Scoped(q) : rows[e].issues = {}

\* The executions of a query, without a mark: their buckets, and what happened.
LEMMA ScopedRows ==
    ASSUME TelemetryInv, NEW q, Clean(q)
    PROVE  /\ IsFiniteSet(Scoped(q)) /\ Scoped(q) \subseteq Stored
           /\ \A e \in Scoped(q) :
                 /\ IsLog(attempt[e].log) /\ Seen(q)[e] = rows[e].revision
                 /\ Seen(q)[e] \in 0..Len(attempt[e].log)
                 /\ Shown(rows[e].buckets, attempt[e].log, Seen(q)[e])
                 /\ \A i \in DOMAIN attempt[e].log :
                       i <= Seen(q)[e] => attempt[e].log[i].at # None
<1>1. Scoped(q) \subseteq Stored /\ IsFiniteSet(Scoped(q))
  <2>1. Scoped(q) \subseteq Stored
    BY DEF Scoped
  <2> QED  BY <2>1, StoredRows, FS_Subset
<1>2. ASSUME NEW e \in Scoped(q)
      PROVE  /\ IsLog(attempt[e].log) /\ Seen(q)[e] = rows[e].revision
             /\ Seen(q)[e] \in 0..Len(attempt[e].log)
             /\ Shown(rows[e].buckets, attempt[e].log, Seen(q)[e])
  <2>1. Seen(q)[e] = rows[e].revision
    BY DEF Seen
  <2>2. IsLog(attempt[e].log) /\ Exact(rows[e], attempt[e].log) /\ rows[e].issues = {}
    BY <1>1, StoredRows DEF Clean
  <2> QED  BY <2>1, <2>2 DEF Exact
<1>3. ASSUME NEW e \in Scoped(q), NEW i \in DOMAIN attempt[e].log, i <= Seen(q)[e]
      PROVE  attempt[e].log[i].at # None
  <2>1. i \in 1..Seen(q)[e]
    BY <1>2, <1>3 DEF IsLog
  <2> QED  BY <1>2, <2>1 DEF Shown
<1> QED  BY <1>1, <1>2, <1>3

\* In the seconds of a query: a point shows what happened to all of them, and
\* where there is no point nothing did.
LEMMA PointShows ==
    ASSUME TelemetryInv, NEW q, Clean(q), NEW x \in Int
    PROVE  /\ Shows(Point(q, x), Scoped(q), Seen(q), x, x + 1)
           /\ Reporting(q, x) = {} =>
                /\ \A e \in Scoped(q) : Happened(e, Seen(q)[e], x, x + 1) = {}
                /\ \A kind : TotalOf(Scoped(q), Seen(q), x, x + 1, kind) = 0
<1> DEFINE S == Scoped(q)
           es == Reporting(q, x)
           seen == Seen(q)
           bucket == [e \in es |-> rows[e].buckets[x]]
           p == Point(q, x)
           g(kind) == [e \in S |-> Total(e, seen[e], x, x + 1, kind)]
<1>1. /\ IsFiniteSet(S) /\ S \subseteq Stored /\ es \subseteq S /\ IsFiniteSet(es)
      /\ \A e \in S : /\ IsLog(attempt[e].log) /\ seen[e] \in 0..Len(attempt[e].log)
                      /\ Shown(rows[e].buckets, attempt[e].log, seen[e])
      /\ \A e \in es : x \in DOMAIN rows[e].buckets
      /\ \A e \in S \ es : x \notin DOMAIN rows[e].buckets
  <2>1. /\ es \subseteq S
        /\ \A e \in es : x \in DOMAIN rows[e].buckets
        /\ \A e \in S \ es : x \notin DOMAIN rows[e].buckets
    BY DEF Reporting
  <2> HIDE DEF es, S
  <2> QED  BY <2>1, ScopedRows, FS_Subset DEF S
<1>2. ASSUME NEW e \in es
      PROVE  /\ \A kind \in Kinds : Field(bucket[e], kind) = g(kind)[e]
             /\ bucket[e].samples = bucket[e].completed
  <2>1. bucket[e] = rows[e].buckets[x]
    OBVIOUS
  <2>2. \A kind : g(kind)[e] = Total(e, seen[e], x, x + 1, kind)
    BY <1>1
  <2> HIDE DEF bucket, g, seen, es, S
  <2> QED  BY <1>1, <2>1, <2>2, BucketIsTotal
<1>3. ASSUME NEW e \in S \ es
      PROVE  /\ Happened(e, seen[e], x, x + 1) = {}
             /\ \A kind : g(kind)[e] = 0
  <2>1. \A kind : g(kind)[e] = Total(e, seen[e], x, x + 1, kind)
    OBVIOUS
  <2> HIDE DEF bucket, g, seen, es, S
  <2> QED  BY <1>1, <2>1, NoBucketNothing
<1>4. ASSUME NEW kind
      PROVE  TotalOf(S, seen, x, x + 1, kind) = Sum(g(kind), S) /\ AllNat(g(kind), S)
  <2>1. TotalOf(S, seen, x, x + 1, kind) = Sum(g(kind), S)
    BY DEF TotalOf
  <2>2. \A e \in S : Total(e, seen[e], x, x + 1, kind) \in Nat
    BY <1>1, HappenedFinite
  <2>3. AllNat(g(kind), S)
    BY <2>2 DEF AllNat
  <2> QED  BY <2>1, <2>3
<1>5. ASSUME NEW kind \in Kinds, NEW f, DOMAIN f = es,
             \A e \in es : f[e] = Field(bucket[e], kind)
      PROVE  SumFunction(f) = TotalOf(S, seen, x, x + 1, kind)
  <2> DEFINE h == g(kind)
  <2>1. \A e \in es : f[e] = h[e]
    BY <1>2, <1>5
  <2>2. \A e \in S \ es : h[e] = 0
    BY <1>3
  <2>3. AllNat(h, S) /\ TotalOf(S, seen, x, x + 1, kind) = Sum(h, S)
    BY <1>4
  <2> HIDE DEF h, g, bucket, seen, es, S
  <2>4. AllNat(h, es)
    BY <1>1, <2>3 DEF AllNat
  <2>5. Sum(h, S) = Sum(h, es)
    BY <1>1, <2>2, <2>4, SumWider
  <2>6. Sum(f, es) = Sum(h, es)
    BY <1>1, <2>1, SumSame
  <2>7. SumFunction(f) = Sum(f, es)
    BY <1>5, SumOfFunction
  <2> QED  BY <2>3, <2>5, <2>6, <2>7
<1> DEFINE fa == [e \in es |-> bucket[e].accepted]
           fc == [e \in es |-> bucket[e].completed]
           ff == [e \in es |-> bucket[e].failed]
           fs == [e \in es |-> bucket[e].samples]
           fm == [e \in es |-> bucket[e].sum]
<1>6. /\ p.accepted = SumFunction(fa) /\ p.completed = SumFunction(fc)
      /\ p.failed = SumFunction(ff) /\ p.samples = SumFunction(fs) /\ p.sum = SumFunction(fm)
  BY DEF Point
<1>7. /\ DOMAIN fa = es /\ DOMAIN fc = es /\ DOMAIN ff = es /\ DOMAIN fs = es /\ DOMAIN fm = es
      /\ \A e \in es : /\ fa[e] = Field(bucket[e], "accepted")
                       /\ fc[e] = Field(bucket[e], "completed")
                       /\ ff[e] = Field(bucket[e], "failed")
                       /\ fm[e] = Field(bucket[e], "sum")
                       /\ fs[e] = fc[e]
  <2> HIDE DEF bucket
  <2>1. \A e \in es : bucket[e].samples = bucket[e].completed
    BY <1>2
  <2> QED  BY <2>1 DEF Field
<1> HIDE DEF fa, fc, ff, fs, fm, bucket, g, seen, es, S, p
<1>8. /\ p.accepted = TotalOf(S, seen, x, x + 1, "accepted")
      /\ p.completed = TotalOf(S, seen, x, x + 1, "completed")
      /\ p.failed = TotalOf(S, seen, x, x + 1, "failed")
      /\ p.sum = TotalOf(S, seen, x, x + 1, "sum")
  <2>1. {"accepted", "completed", "failed", "sum"} \subseteq Kinds
    BY DEF Kinds
  <2> QED  BY <1>5, <1>6, <1>7, <2>1
<1>9. p.samples = p.completed
  <2>1. Sum(fs, es) = Sum(fc, es)
    BY <1>1, <1>7, SumSame
  <2> QED  BY <1>6, <1>7, <2>1, SumOfFunction
<1>10. Shows(p, S, seen, x, x + 1)
  BY <1>8, <1>9 DEF Shows, Kinds, Field
<1>11. ASSUME es = {}
       PROVE  /\ \A e \in S : Happened(e, seen[e], x, x + 1) = {}
              /\ \A kind : TotalOf(S, seen, x, x + 1, kind) = 0
  <2>1. \A e \in S : /\ Happened(e, seen[e], x, x + 1) = {}
                     /\ \A kind : g(kind)[e] = 0
    BY <1>3, <1>11
  <2>2. ASSUME NEW kind
        PROVE  Sum(g(kind), S) = 0
    <3> DEFINE h == g(kind)
    <3>1. \A e \in S : h[e] = 0
      BY <2>1
    <3> HIDE DEF h
    <3> QED  BY <1>1, <3>1, SumZeros DEF h
  <2> QED  BY <1>4, <2>1, <2>2
<1> QED  BY <1>10, <1>11 DEF p, S, seen, es

\* Finitely many numbers have a last one.
LEMMA LastExists ==
    ASSUME NEW S, IsFiniteSet(S), S # {}, NEW f, \A x \in S : f[x] \in Int
    PROVE  LET V == {f[x] : x \in S}
           IN  Max(V) \in V /\ \A y \in V : y <= Max(V)
<1> DEFINE Good == {T \in SUBSET S : T # {} => \E x \in T : \A y \in T : f[x] >= f[y]}
           V == {f[x] : x \in S}
<1>1. {} \in Good
  OBVIOUS
<1>2. ASSUME NEW T \in Good, NEW z \in S, z \notin T
      PROVE  T \cup {z} \in Good
  <2>1. CASE T = {}
    <3>1. T \cup {z} = {z} /\ f[z] \in Int
      BY <2>1
    <3> QED  BY <3>1
  <2>2. CASE T # {}
    <3>1. PICK x \in T : \A y \in T : f[x] >= f[y]
      BY <2>2
    <3>2. f[x] \in Int /\ f[z] \in Int /\ \A y \in T : f[y] \in Int
      OBVIOUS
    <3>3. \E u \in T \cup {z} : \A y \in T \cup {z} : f[u] >= f[y]
      <4>1. CASE f[x] >= f[z]
        BY <3>1, <4>1
      <4>2. CASE ~(f[x] >= f[z])
        <5>1. \A y \in T \cup {z} : f[z] >= f[y]
          BY <3>1, <3>2, <4>2
        <5> QED  BY <5>1
      <4> QED  BY <4>1, <4>2
    <3> QED  BY <3>3
  <2> QED  BY <2>1, <2>2
<1>3. S \in Good
  <2> HIDE DEF Good
  <2>1. Good \in SUBSET SUBSET S
    BY DEF Good
  <2> QED  BY <1>1, <1>2, <2>1, FiniteInduction
<1>4. \E v \in V : \A y \in V : v >= y
  BY <1>3
<1> HIDE DEF V
<1>5. Max(V) \in V /\ \A y \in V : Max(V) >= y
  BY <1>4, Zenon DEF Max
<1>6. \A y \in V : y \in Int
  BY DEF V
<1> QED  BY <1>5, <1>6 DEF V

\* No reader refuses what the database accepted: the point of a second is one
\* that TelemetryPoint takes.
LEMMA PointIsValid ==
    ASSUME TelemetryInv, NEW q, NEW x \in Int, Reporting(q, x) # {}
    PROVE  PointValid(x, Point(q, x))
<1> DEFINE es == Reporting(q, x)
           bucket == [e \in es |-> rows[e].buckets[x]]
           p == Point(q, x)
           at == [e \in es |-> rows[e].buckets[x].last]
           last == {at[e] : e \in es}
           fa == [e \in es |-> bucket[e].accepted]
           fc == [e \in es |-> bucket[e].completed]
           ff == [e \in es |-> bucket[e].failed]
           fs == [e \in es |-> bucket[e].samples]
           fm == [e \in es |-> bucket[e].sum]
<1>1. IsFiniteSet(es)
  <2>1. es \subseteq Stored
    BY DEF Reporting, Scoped
  <2> QED  BY <2>1, StoredRows, FS_Subset
<1>2. ASSUME NEW e \in es
      PROVE  IsBucket(bucket[e]) /\ BucketValid(x, bucket[e])
  <2>1. Storable(rows[e]) /\ x \in DOMAIN rows[e].buckets /\ bucket[e] = rows[e].buckets[x]
    BY StoredRows DEF Reporting, Scoped
  <2> HIDE DEF bucket
  <2> QED  BY <2>1 DEF Storable, IsSnapshot, IsBuckets
<1>3. /\ p.accepted = SumFunction(fa) /\ p.completed = SumFunction(fc)
      /\ p.failed = SumFunction(ff) /\ p.samples = SumFunction(fs) /\ p.sum = SumFunction(fm)
      /\ p.at = Max(last)
  <2>1. last = {rows[e].buckets[x].last : e \in es}
    OBVIOUS
  <2> HIDE DEF last
  <2> QED  BY <2>1 DEF Point
<1>4. /\ DOMAIN fa = es /\ DOMAIN fc = es /\ DOMAIN ff = es /\ DOMAIN fs = es /\ DOMAIN fm = es
      /\ \A e \in es : /\ fa[e] = bucket[e].accepted /\ fc[e] = bucket[e].completed
                       /\ ff[e] = bucket[e].failed /\ fs[e] = bucket[e].samples
                       /\ fm[e] = bucket[e].sum
      /\ \A e \in es : at[e] = bucket[e].last
  OBVIOUS
<1> HIDE DEF fa, fc, ff, fs, fm, bucket, es, p, at
<1>5. /\ p.accepted = Sum(fa, es) /\ p.completed = Sum(fc, es)
      /\ p.failed = Sum(ff, es) /\ p.samples = Sum(fs, es) /\ p.sum = Sum(fm, es)
  BY <1>3, <1>4, SumOfFunction
<1>6. AllNat(fa, es) /\ AllNat(fc, es) /\ AllNat(ff, es) /\ AllNat(fs, es) /\ AllNat(fm, es)
  BY <1>2, <1>4 DEF IsBucket, AllNat
<1>7. x * Second <= p.at /\ p.at < (x + 1) * Second
  <2>1. \A e \in es : at[e] \in Int
    BY <1>2, <1>4 DEF IsBucket
  <2>2. PICK e \in es : p.at = bucket[e].last
    <3>1. es # {}
      BY DEF es
    <3>2. Max(last) \in last
      BY <1>1, <2>1, <3>1, LastExists, Zenon
    <3>3. \A y \in last : \E e \in es : y = at[e]
      OBVIOUS
    <3> HIDE DEF last
    <3> QED  BY <1>3, <1>4, <3>2, <3>3
  <2> DEFINE from == x * Second
             to == (x + 1) * Second
             first == bucket[e].first
             end == bucket[e].last
  <2>3. /\ from \in Int /\ to \in Int /\ first \in Int /\ end \in Int
        /\ from <= first /\ first <= end /\ end < to
    <3>1. Second \in Nat
      BY TelemetryLimits
    <3> QED  BY <1>2, <3>1 DEF IsBucket, BucketValid
  <2> HIDE DEF from, to, first, end
  <2>4. from <= end
    BY <2>3
  <2> QED  BY <2>2, <2>3, <2>4 DEF from, to, first, end
<1>8. p.samples <= p.completed
  <2>1. \A e \in es : fs[e] <= fc[e]
    BY <1>2, <1>4 DEF BucketValid
  <2> QED  BY <1>1, <1>5, <1>6, <2>1, SumOrder
<1>9. p.samples = 0 => p.sum = 0
  <2> SUFFICES ASSUME p.samples = 0
               PROVE  p.sum = 0
    OBVIOUS
  <2>1. \A e \in es : fs[e] <= 0 /\ fs[e] \in Nat
    BY <1>1, <1>5, <1>6, SumPositive DEF AllNat
  <2>2. \A e \in es : fm[e] = 0
    BY <1>2, <1>4, <2>1 DEF BucketValid
  <2> QED  BY <1>1, <1>5, <2>2, SumZeros
<1>10. p.accepted + p.completed + p.failed > 0
  <2>1. PICK e \in es : TRUE
    BY DEF es
  <2>2. /\ fa[e] \in Nat /\ fc[e] \in Nat /\ ff[e] \in Nat /\ fa[e] + fc[e] + ff[e] > 0
    BY <1>2, <1>4, <1>6 DEF BucketValid, AllNat
  <2>3. fa[e] <= p.accepted /\ p.accepted \in Nat
    BY <1>1, <1>5, <1>6, SumPositive, SumIsNat
  <2>4. fc[e] <= p.completed /\ p.completed \in Nat
    BY <1>1, <1>5, <1>6, SumPositive, SumIsNat
  <2>5. ff[e] <= p.failed /\ p.failed \in Nat
    BY <1>1, <1>5, <1>6, SumPositive, SumIsNat
  <2> DEFINE a == fa[e]
             c == fc[e]
             f == ff[e]
             A == p.accepted
             C == p.completed
             F == p.failed
  <2> HIDE DEF a, c, f, A, C, F
  <2>6. /\ a \in Nat /\ c \in Nat /\ f \in Nat /\ a + c + f > 0
        /\ A \in Nat /\ C \in Nat /\ F \in Nat /\ a <= A /\ c <= C /\ f <= F
    BY <2>2, <2>3, <2>4, <2>5 DEF a, c, f, A, C, F
  <2>7. A + C + F > 0
    BY <2>6
  <2> QED  BY <2>7 DEF A, C, F
<1> QED  BY <1>7, <1>8, <1>9, <1>10 DEF PointValid, p

\* The seconds of a period, and what happened in each of them.
Period(W, from, to) == from \in Int /\ to \in Int /\ from <= to /\ W = from..(to - 1)

Each(h, W, q, kind) == \A x \in W : h[x] = TotalOf(Scoped(q), Seen(q), x, x + 1, kind)

\* What happened from one second to another is what happened in each of them.
LEMMA SecondsAddUp ==
    ASSUME TelemetryInv, NEW q, Clean(q), NEW kind, NEW from, NEW to, NEW W,
           Period(W, from, to), NEW h, Each(h, W, q, kind)
    PROVE  TotalOf(Scoped(q), Seen(q), from, to, kind) = Sum(h, W) /\ AllNat(h, W)
<1>1. /\ from \in Int /\ to \in Int /\ from <= to /\ W = from..(to - 1)
      /\ \A x \in W : h[x] = TotalOf(Scoped(q), Seen(q), x, x + 1, kind)
  BY DEF Period, Each
<1> DEFINE S == Scoped(q)
           seen == Seen(q)
           T(a, b) == TotalOf(S, seen, a, b, kind)
           g(a, b) == [e \in S |-> Total(e, seen[e], a, b, kind)]
<1> DEFINE length == to - from
<1>2. length \in Nat /\ from + length = to /\ W = from..(from + length - 1)
  BY <1>1
<1> HIDE DEF length
<1>3. /\ IsFiniteSet(S)
      /\ \A e \in S : /\ IsLog(attempt[e].log)
                      /\ \A i \in DOMAIN attempt[e].log :
                            i <= seen[e] => attempt[e].log[i].at # None
  BY ScopedRows
<1>4. ASSUME NEW a, NEW b
      PROVE  /\ T(a, b) = Sum(g(a, b), S) /\ T(a, b) \in Nat /\ AllNat(g(a, b), S)
  <2>1. T(a, b) = Sum(g(a, b), S)
    BY DEF TotalOf
  <2>2. \A e \in S : Total(e, seen[e], a, b, kind) \in Nat
    BY <1>3, HappenedFinite
  <2>3. AllNat(g(a, b), S)
    BY <2>2 DEF AllNat
  <2> DEFINE G == g(a, b)
  <2> HIDE DEF G
  <2>4. Sum(G, S) \in Nat
    BY <1>3, <2>3, SumIsNat DEF G
  <2> QED  BY <2>1, <2>3, <2>4 DEF G
<1>5. T(from, from) = 0
  <2>1. ASSUME NEW e \in S
        PROVE  Happened(e, seen[e], from, from) = {}
    <3> DEFINE log == attempt[e].log
               H == Happened(e, seen[e], from, from)
               start == from * Second
    <3>1. \A i \in DOMAIN log : log[i].at # None => log[i].at \in Int
      BY <1>3 DEF IsLog
    <3>2. \A i \in H : /\ i \in DOMAIN log /\ log[i].at # None
                       /\ start <= log[i].at /\ log[i].at < start
      BY DEF Happened
    <3>3. start \in Int
      BY <1>1, TelemetryLimits
    <3> HIDE DEF log, H, start, S, seen
    <3>4. \A i \in H : FALSE
      BY <3>1, <3>2, <3>3
    <3> QED  BY <3>4 DEF H
  <2> DEFINE G == g(from, from)
  <2>2. \A e \in S : G[e] = 0
    BY <2>1, SumNothing DEF Total
  <2> HIDE DEF G
  <2> QED  BY <1>3, <1>4, <2>2, SumZeros DEF G
<1>6. ASSUME NEW k \in Nat
      PROVE  T(from, from + k + 1) = T(from, from + k) + T(from + k, from + k + 1)
  <2> DEFINE mid == from + k
             till == from + k + 1
             f == g(from, mid)
             r == g(mid, till)
             w == g(from, till)
  <2>1. mid \in Int /\ till \in Int /\ from <= mid /\ mid <= till
    BY <1>1
  <2>2. \A e \in S : Total(e, seen[e], from, till, kind)
                       = Total(e, seen[e], from, mid, kind) + Total(e, seen[e], mid, till, kind)
    <3> HIDE DEF mid, till, S, seen
    <3> QED  BY <1>1, <1>3, <2>1, TotalJoin
  <2>3. \A e \in S : w[e] = f[e] + r[e]
    BY <2>2
  <2>4. /\ AllNat(f, S) /\ AllNat(r, S)
        /\ T(from, mid) = Sum(f, S) /\ T(mid, till) = Sum(r, S) /\ T(from, till) = Sum(w, S)
    BY <1>4
  <2> HIDE DEF f, r, w, T, S, mid, till
  <2>5. Sum(w, S) = Sum(f, S) + Sum(r, S)
    BY <1>3, <2>3, <2>4, SumPlus
  <2>6. T(from, till) = T(from, mid) + T(mid, till)
    BY <2>4, <2>5
  <2> QED  BY <2>6 DEF mid, till
<1> HIDE DEF T, S, seen
<1> DEFINE N == {k \in Nat : k <= length => T(from, from + k) = Sum(h, from..(from + k - 1))}
<1>7. 0 \in N
  <2>1. from..(from + 0 - 1) = {} /\ from + 0 = from
    BY <1>1
  <2> QED  BY <1>5, <2>1, SumNothing
<1>8. \A x \in from..(from + length - 1) : h[x] = T(x, x + 1) /\ h[x] \in Nat
  BY <1>1, <1>2, <1>4 DEF T, S, seen
<1>9. ASSUME NEW k \in N
      PROVE  k + 1 \in N
  <2> SUFFICES ASSUME k + 1 <= length
               PROVE  T(from, from + (k + 1)) = Sum(h, from..(from + (k + 1) - 1))
    OBVIOUS
  <2> DEFINE R == from..(from + k - 1)
             x == from + k
  <2>1. /\ k \in Nat /\ T(from, x) = Sum(h, R) /\ from + (k + 1) = x + 1 /\ x + 1 = from + k + 1
    BY <1>1, <1>2
  <2>2. /\ from..(from + (k + 1) - 1) = R \cup {x} /\ x \notin R
        /\ x \in from..(from + length - 1) /\ R \subseteq from..(from + length - 1)
    BY <1>1, <1>2, <2>1
  <2>3. IsFiniteSet(R)
    BY <1>1, <2>1, FS_Interval
  <2>4. T(from, x + 1) = T(from, x) + T(x, x + 1)
    BY <1>6, <2>1
  <2>5. h[x] = T(x, x + 1) /\ h[x] \in Nat /\ AllNat(h, R)
    BY <1>8, <2>2 DEF AllNat
  <2> HIDE DEF N, R, x
  <2>6. Sum(h, R \cup {x}) = Sum(h, R) + h[x]
    BY <2>2, <2>3, <2>5, SumAdd
  <2> QED  BY <2>1, <2>2, <2>4, <2>5, <2>6
<1>10. N = Nat
  <2> HIDE DEF N
  <2>1. N \in SUBSET Nat
    BY DEF N
  <2> QED  BY <1>7, <1>9, <2>1, Induction
<1>11. T(from, from + length) = Sum(h, from..(from + length - 1))
  <2>1. length \in N
    BY <1>2, <1>10
  <2> QED  BY <2>1
<1>12. AllNat(h, from..(from + length - 1))
  BY <1>8 DEF AllNat
<1> QED  BY <1>2, <1>11, <1>12 DEF T, S, seen

LEMMA MaxOfTwo ==
    ASSUME NEW a \in Int, NEW b \in Int
    PROVE  /\ Max({a, b}) \in Int
           /\ \A x \in Int : x >= Max({a, b}) <=> x >= a /\ x >= b
           /\ \A c \in Int : a <= c /\ b <= c => Max({a, b}) <= c
<1>1. \E x \in {a, b} : \A y \in {a, b} : x >= y
  <2>1. CASE a >= b
    BY <2>1
  <2>2. CASE ~(a >= b)
    <3>1. b >= a /\ b >= b
      BY <2>2
    <3> QED  BY <3>1
  <2> QED  BY <2>1, <2>2
<1>2. Max({a, b}) \in {a, b} /\ \A y \in {a, b} : Max({a, b}) >= y
  BY <1>1, Zenon DEF Max
<1> DEFINE m == Max({a, b})
<1> HIDE DEF m
<1>3. (m = a \/ m = b) /\ m >= a /\ m >= b
  BY <1>2 DEF m
<1> QED  BY <1>3 DEF m

\* The window of a query, and the seconds of its recent summary.
LEMMA WindowNumbers ==
    ASSUME NEW q \in Queries
    PROVE  LET recent == Max({WindowStart(q), WindowEnd(q) - RecentSeconds})
           IN  /\ WindowStart(q) \in Int /\ WindowEnd(q) \in Int /\ recent \in Int
               /\ WindowEnd(q) - recent \in Nat
               /\ \A x \in Int : x >= recent <=> /\ x >= WindowStart(q)
                                                 /\ x >= WindowEnd(q) - RecentSeconds
<1>1. WindowEnd(q) \in Int
  BY TelemetryLimits, QueryNumbers, Division DEF WindowEnd
<1>2. q.window \in Nat /\ RecentSeconds \in Nat
  BY QueryNumbers, ReadLimits
<1> DEFINE start == WindowStart(q)
           end == WindowEnd(q)
           recent == Max({start, end - RecentSeconds})
<1>3. start \in Int /\ end \in Int /\ end - RecentSeconds \in Int /\ start <= end
      /\ end - RecentSeconds <= end
  BY <1>1, <1>2 DEF WindowStart
<1> HIDE DEF start, end
<1>4. /\ recent \in Int /\ recent <= end
      /\ \A x \in Int : x >= recent <=> x >= start /\ x >= end - RecentSeconds
  BY <1>3, MaxOfTwo
<1> HIDE DEF recent
<1>5. end - recent \in Nat
  BY <1>3, <1>4
<1> QED  BY <1>3, <1>4, <1>5 DEF start, end, recent

\* The recent summary shows what happened in its seconds, those without a point
\* included.
LEMMA SummaryShows ==
    ASSUME TelemetryInv, NEW q \in Queries, Clean(q), Summary(q, Points(q)).observed > 0
    PROVE  Shows(Summary(q, Points(q)), Scoped(q), Seen(q),
                 Max({WindowStart(q), WindowEnd(q) - RecentSeconds}), WindowEnd(q))
<1> DEFINE S == Scoped(q)
           seen == Seen(q)
           points == Points(q)
           from == Max({WindowStart(q), WindowEnd(q) - RecentSeconds})
           end == WindowEnd(q)
           p == Summary(q, points)
           recent == {s \in DOMAIN points : s >= end - RecentSeconds}
           R == from..(end - 1)
           fa == [s \in recent |-> points[s].accepted]
           fc == [s \in recent |-> points[s].completed]
           ff == [s \in recent |-> points[s].failed]
           fs == [s \in recent |-> points[s].samples]
           fm == [s \in recent |-> points[s].sum]
           h(kind) == [x \in R |-> TotalOf(S, seen, x, x + 1, kind)]
<1>1. /\ from \in Int /\ end \in Int /\ end - from \in Nat
      /\ from + (end - from) = end /\ from + (end - from) - 1 = end - 1
  BY WindowNumbers
<1>2. recent = {x \in R : Reporting(q, x) # {}}
  <2>1. recent = {s \in {x \in WindowStart(q)..(end - 1) : Reporting(q, x) # {}} :
                     s >= end - RecentSeconds}
    BY DEF Points
  <2>2. \A x : x \in R <=> x \in WindowStart(q)..(end - 1) /\ x >= end - RecentSeconds
    BY <1>1, WindowNumbers
  <2> HIDE DEF R, recent, end
  <2> QED  BY <2>1, <2>2
<1>3. /\ \A x \in R : x \in Int
      /\ \A x \in recent : x \in R /\ Reporting(q, x) # {}
      /\ \A x \in R \ recent : Reporting(q, x) = {}
  <2>1. \A x \in R : x \in Int
    <3> HIDE DEF from, end
    <3> QED  BY <1>1
  <2> HIDE DEF R, recent
  <2> QED  BY <1>2, <2>1
<1>4. ASSUME NEW s \in recent
      PROVE  points[s] = Point(q, s)
  <2>1. s \in DOMAIN points
    OBVIOUS
  <2> HIDE DEF recent
  <2> QED  BY <2>1 DEF Points
<1>5. recent # {}
  <2>1. p.observed = Cardinality(recent)
    BY DEF Summary
  <2> HIDE DEF recent, p
  <2> QED  BY <2>1, FS_EmptySet DEF p
<1>6. /\ p.accepted = SumFunction(fa) /\ p.completed = SumFunction(fc)
      /\ p.failed = SumFunction(ff) /\ p.samples = SumFunction(fs) /\ p.sum = SumFunction(fm)
  BY <1>5 DEF Summary
<1>7. DOMAIN fa = recent /\ DOMAIN fc = recent /\ DOMAIN ff = recent /\ DOMAIN fs = recent
      /\ DOMAIN fm = recent
  OBVIOUS
<1>8. ASSUME NEW s \in recent
      PROVE  /\ \A kind \in Kinds : Field(points[s], kind) = h(kind)[s]
             /\ points[s].samples = points[s].completed
             /\ fa[s] = Field(points[s], "accepted")
             /\ fc[s] = Field(points[s], "completed")
             /\ ff[s] = Field(points[s], "failed")
             /\ fm[s] = Field(points[s], "sum")
             /\ fs[s] = points[s].samples /\ fc[s] = points[s].completed
  <2>1. s \in R /\ s \in Int
    <3> HIDE DEF R, recent
    <3> QED  BY <1>3
  <2>2. \A kind : h(kind)[s] = TotalOf(S, seen, s, s + 1, kind)
    BY <2>1
  <2>3. Shows(Point(q, s), S, seen, s, s + 1)
    BY <2>1, PointShows
  <2>4. /\ fa[s] = points[s].accepted /\ fc[s] = points[s].completed
        /\ ff[s] = points[s].failed /\ fs[s] = points[s].samples /\ fm[s] = points[s].sum
    OBVIOUS
  <2> HIDE DEF h, fa, fc, ff, fs, fm, S, seen, points, recent, R
  <2> QED  BY <1>4, <2>2, <2>3, <2>4 DEF Shows, Field
<1>9. ASSUME NEW x \in R \ recent, NEW kind
      PROVE  h(kind)[x] = 0
  <2>1. x \in Int /\ Reporting(q, x) = {}
    <3> HIDE DEF R, recent
    <3> QED  BY <1>3
  <2>2. TotalOf(S, seen, x, x + 1, kind) = 0
    BY <2>1, PointShows
  <2> QED  BY <2>2
<1>10. ASSUME NEW kind
      PROVE  TotalOf(S, seen, from, end, kind) = Sum(h(kind), R) /\ AllNat(h(kind), R)
  <2> DEFINE H == h(kind)
  <2>1. Each(H, R, q, kind)
    BY DEF Each
  <2>2. Period(R, from, end)
    <3> HIDE DEF from, end
    <3> QED  BY <1>1 DEF Period
  <2> HIDE DEF H, from, end, R
  <2>3. TotalOf(S, seen, from, end, kind) = Sum(H, R) /\ AllNat(H, R)
    BY <2>1, <2>2, SecondsAddUp
  <2> QED  BY <2>3 DEF H
<1>11. IsFiniteSet(R) /\ recent \subseteq R /\ IsFiniteSet(recent)
  <2>1. IsFiniteSet(R)
    BY <1>1, FS_Interval
  <2> HIDE DEF R, recent
  <2> QED  BY <1>2, <2>1, FS_Subset
<1>12. ASSUME NEW kind \in Kinds, NEW f, DOMAIN f = recent,
              \A s \in recent : f[s] = Field(points[s], kind)
       PROVE  SumFunction(f) = TotalOf(S, seen, from, end, kind)
  <2> DEFINE H == h(kind)
  <2>1. \A s \in recent : f[s] = H[s]
    BY <1>8, <1>12
  <2>2. \A x \in R \ recent : H[x] = 0
    BY <1>9
  <2>3. AllNat(H, R) /\ TotalOf(S, seen, from, end, kind) = Sum(H, R)
    BY <1>10
  <2> HIDE DEF H, h, S, seen, points, recent, R, from, end
  <2>4. AllNat(H, recent)
    BY <1>11, <2>3 DEF AllNat
  <2>5. Sum(H, R) = Sum(H, recent)
    BY <1>11, <2>2, <2>4, SumWider
  <2>6. Sum(f, recent) = Sum(H, recent)
    BY <1>11, <2>1, SumSame
  <2>7. SumFunction(f) = Sum(f, recent)
    BY <1>12, SumOfFunction
  <2> QED  BY <2>3, <2>5, <2>6, <2>7
<1> HIDE DEF fa, fc, ff, fs, fm, h, S, seen, points, recent, R, from, end, p
<1>13. /\ p.accepted = TotalOf(S, seen, from, end, "accepted")
       /\ p.completed = TotalOf(S, seen, from, end, "completed")
       /\ p.failed = TotalOf(S, seen, from, end, "failed")
       /\ p.sum = TotalOf(S, seen, from, end, "sum")
  <2>1. {"accepted", "completed", "failed", "sum"} \subseteq Kinds
    BY DEF Kinds
  <2> QED  BY <1>6, <1>7, <1>8, <1>12, <2>1
<1>14. p.samples = p.completed
  <2>1. \A s \in recent : fs[s] = fc[s]
    BY <1>8
  <2>2. Sum(fs, recent) = Sum(fc, recent)
    BY <1>11, <2>1, SumSame
  <2> QED  BY <1>6, <1>7, <2>2, SumOfFunction
<1>15. Shows(p, S, seen, from, end)
  BY <1>13, <1>14 DEF Shows, Kinds, Field
<1> QED  BY <1>15 DEF p, S, seen, from, end, points

\* Inputs of one identity hold the same records.
LEMMA IdentityNamesRecords ==
    ASSUME NEW s \in Scenarios, s.watch # None,
           NEW e \in DOMAIN s.watch.attempts, NEW f \in DOMAIN s.watch.attempts,
           ResolveIdentity(s.watch.attempts[e].input) = ResolveIdentity(s.watch.attempts[f].input),
           ResolveIdentity(s.watch.attempts[e].input) # None
    PROVE  s.watch.attempts[e].input.records = s.watch.attempts[f].input.records
<1> DEFINE a == s.watch.attempts[e].input
           b == s.watch.attempts[f].input
<1>1. /\ a.supplied # None /\ a.supplied.identity # None =>
            /\ a.supplied.identity[1] # "file"
            /\ b.supplied # None /\ b.supplied.identity = a.supplied.identity =>
                  b.records = a.records
      /\ b.supplied # None /\ b.supplied.identity # None =>
            b.supplied.identity[1] # "file"
  BY InputAssumption, Zenon
<1>2. ResolveIdentity(a) = ResolveIdentity(b) /\ ResolveIdentity(a) # None
  OBVIOUS
<1> SUFFICES a.records = b.records
  OBVIOUS
<1> HIDE DEF a, b
<1>3. CASE a.supplied # None /\ b.supplied # None
  BY <1>1, <1>2, <1>3 DEF ResolveIdentity
<1>4. CASE a.supplied = None /\ b.supplied = None
  <2>1. /\ a.file = a.records /\ b.file = b.records
        /\ <<"file", a.file>> = <<"file", b.file>>
    BY <1>2, <1>4 DEF ResolveIdentity
  <2> QED  BY <2>1
<1>5. CASE a.supplied # None /\ b.supplied = None
  <2>1. a.supplied.identity # None /\ a.supplied.identity = <<"file", b.file>>
    BY <1>2, <1>5 DEF ResolveIdentity
  <2> QED  BY <1>1, <1>5, <2>1
<1>6. CASE a.supplied = None /\ b.supplied # None
  <2>1. b.supplied.identity # None /\ b.supplied.identity = <<"file", a.file>>
    BY <1>2, <1>6 DEF ResolveIdentity
  <2> QED  BY <1>1, <1>6, <2>1
<1> QED  BY <1>3, <1>4, <1>5, <1>6

\* Attempts of a run that a response adds up were over the same records.
LEMMA AddedUpIsAlike ==
    ASSUME TelemetryInv, NEW q, q.run # None, ~InputConflict(q),
           NEW e \in Scoped(q), NEW f \in Scoped(q)
    PROVE  watch.attempts[e].input.records = watch.attempts[f].input.records
<1> DEFINE all == {x \in Stored : q.run # None /\ rows[x].run = q.run}
           identity == [x \in all |-> rows[x].identity]
           ids == {rows[x].identity : x \in all}
<1>1. CASE e = f
  BY <1>1
<1>2. CASE e # f
  <2>1. e \in all /\ f \in all /\ all \subseteq Stored
    BY DEF Scoped
  <2>2. IsFiniteSet(all) /\ IsFiniteSet(ids)
    <3>1. IsFiniteSet(all)
      BY <2>1, StoredRows, FS_Subset
    <3>2. ids = {identity[x] : x \in all}
      OBVIOUS
    <3> HIDE DEF ids, identity, all
    <3> QED  BY <3>1, <3>2, FiniteValues
  <2>3. ~(Cardinality(all) > 1 /\ (None \in ids \/ Cardinality(ids) # 1))
    BY DEF InputConflict
  <2>4. rows[e].identity \in ids /\ rows[f].identity \in ids
    BY <2>1
  <2> HIDE DEF all, ids
  <2>5. Cardinality(all) > 1
    <3>1. {e, f} \subseteq all
      BY <2>1
    <3>2. Cardinality({e, f}) = 2
      <4>1. IsFiniteSet({e}) /\ Cardinality({e}) = 1
        BY FS_Singleton
      <4>2. {e, f} = {e} \cup {f} /\ f \notin {e}
        BY <1>2
      <4>3. Cardinality({e} \cup {f}) = Cardinality({e}) + 1
        BY <4>1, <4>2, FS_AddElement
      <4> QED  BY <4>1, <4>2, <4>3
    <3>3. Cardinality({e, f}) <= Cardinality(all) /\ Cardinality(all) \in Nat
      BY <2>2, <3>1, FS_Subset, FS_CardinalityType
    <3> QED  BY <3>2, <3>3
  <2>6. None \notin ids /\ Cardinality(ids) = 1
    BY <2>3, <2>5
  <2>7. rows[e].identity = rows[f].identity /\ rows[e].identity # None
    <3>1. PICK i : ids = {i}
      BY <2>2, <2>6, FS_Singleton
    <3> QED  BY <2>4, <2>6, <3>1
  <2>8. /\ watch # None /\ e \in DOMAIN watch.attempts /\ f \in DOMAIN watch.attempts
        /\ rows[e].identity = ResolveIdentity(watch.attempts[e].input)
        /\ rows[f].identity = ResolveIdentity(watch.attempts[f].input)
    BY <2>1, StoredRows
  <2>9. PICK s \in Scenarios : watch = s.watch
    BY DEF TelemetryInv, Given
  <2> QED  BY <2>7, <2>8, <2>9, IdentityNamesRecords
<1> QED  BY <1>1, <1>2

\* A response that is called observed, or adds up the attempts of a run, never
\* misleads: it shows what happened in every second of its window and in the
\* recent summary, it is never refused, and it adds up one input only.
THEOREM ResponsesAreExact ==
    ASSUME NullIsNoFunction
    PROVE  Spec => []TelemetryIsExact
<1>1. TelemetryInv => TelemetryIsExact
  <2> SUFFICES ASSUME TelemetryInv, NEW q \in Queries
               PROVE  LET r == GetTelemetry(q)
                          seen == [e \in Scoped(q) |-> rows[e].revision]
                      IN  /\ r.answer # "invalid_stored"
                          /\ r.answer = "ok" /\ r.quality = "observed" =>
                               /\ \A s \in DOMAIN r.points :
                                     TotalsAre(r.points[s], Scoped(q), seen, s, s + 1)
                               /\ \A s \in WindowStart(q)..(WindowEnd(q) - 1) :
                                     s \notin DOMAIN r.points =>
                                        \A e \in Scoped(q) : Happened(e, seen[e], s, s + 1) = {}
                               /\ r.summary.observed > 0 =>
                                     TotalsAre(r.summary, Scoped(q), seen,
                                               Max({WindowStart(q), WindowEnd(q) - RecentSeconds}),
                                               WindowEnd(q))
                          /\ r.answer = "ok" /\ q.run # None =>
                               \A e, f \in Scoped(q) :
                                  watch.attempts[e].input.records
                                     = watch.attempts[f].input.records
    BY Zenon DEF TelemetryIsExact
  <2> DEFINE r == GetTelemetry(q)
             points == Points(q)
             S == Scoped(q)
             seen == Seen(q)
             from == Max({WindowStart(q), WindowEnd(q) - RecentSeconds})
             Answer == [answer |-> "ok", executions |-> Cardinality(Scoped(q)), points |-> points,
                        summary |-> Summary(q, points), quality |-> Quality(q, points),
                        freshness |-> Freshness(q, points)]
  <2>1. \A x \in DOMAIN points : /\ x \in Int /\ Reporting(q, x) # {} /\ points[x] = Point(q, x)
    <3>1. WindowStart(q) \in Int /\ WindowEnd(q) \in Int
      BY WindowNumbers
    <3> QED  BY <3>1 DEF Points
  <2>2. \A x \in DOMAIN points : PointValid(x, points[x])
    <3> HIDE DEF points
    <3> QED  BY <2>1, PointIsValid
  <2>3. /\ r.answer # "invalid_stored"
        /\ r.answer = "ok" => ~InputConflict(q) /\ r = Answer
    <3> HIDE DEF points
    <3> QED  BY <2>2 DEF GetTelemetry, points
  <2> HIDE DEF r
  <2>4. r.answer = "ok" => /\ ~InputConflict(q) /\ r.points = points
                           /\ r.summary = Summary(q, points) /\ r.quality = Quality(q, points)
    BY <2>3
  <2> HIDE DEF Answer, points
  <2>5. ASSUME r.answer = "ok", r.quality = "observed"
        PROVE  /\ \A s \in DOMAIN r.points : TotalsAre(r.points[s], S, seen, s, s + 1)
               /\ \A s \in WindowStart(q)..(WindowEnd(q) - 1) : s \notin DOMAIN r.points =>
                     \A e \in S : Happened(e, seen[e], s, s + 1) = {}
               /\ r.summary.observed > 0 =>
                     TotalsAre(r.summary, S, seen, from, WindowEnd(q))
    <3>1. Clean(q)
      BY <2>4, <2>5 DEF Quality, Clean
    <3>2. IsFiniteSet(S) /\ \A e \in S : IsLog(attempt[e].log)
      BY <3>1, ScopedRows
    <3>3. ASSUME NEW s \in DOMAIN points
          PROVE  TotalsAre(points[s], S, seen, s, s + 1)
      <4>1. s \in Int /\ points[s] = Point(q, s)
        BY <2>1
      <4>2. Shows(points[s], S, seen, s, s + 1)
        BY <3>1, <4>1, PointShows
      <4> HIDE DEF S, seen
      <4> QED  BY <3>2, <4>2, ShowsIsTotals
    <3>4. ASSUME NEW s \in WindowStart(q)..(WindowEnd(q) - 1), s \notin DOMAIN points, NEW e \in S
          PROVE  Happened(e, seen[e], s, s + 1) = {}
      <4>1. s \in Int
        BY WindowNumbers
      <4>2. Reporting(q, s) = {}
        BY <3>4 DEF Points, points
      <4> QED  BY <3>1, <4>1, <4>2, PointShows
    <3>5. ASSUME r.summary.observed > 0
          PROVE  TotalsAre(r.summary, S, seen, from, WindowEnd(q))
      <4>1. r.summary = Summary(q, Points(q))
        BY <2>4, <2>5 DEF points
      <4>2. Shows(r.summary, S, seen, from, WindowEnd(q))
        BY <3>1, <3>5, <4>1, SummaryShows
      <4> HIDE DEF S, seen, from
      <4> QED  BY <3>2, <4>2, ShowsIsTotals
    <3> QED  BY <2>4, <2>5, <3>3, <3>4, <3>5
  <2>6. ASSUME r.answer = "ok", q.run # None, NEW e \in S, NEW f \in S
        PROVE  watch.attempts[e].input.records = watch.attempts[f].input.records
    BY <2>4, <2>6, AddedUpIsAlike
  <2> QED  BY <2>3, <2>5, <2>6, Zenon DEF r, Seen
<1> QED  BY <1>1, TelemetryInitially, TelemetryNext, PTL DEF Spec
=============================================================================
