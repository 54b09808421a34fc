---------------------------- MODULE TelemetryRead ----------------------------
(***************************************************************************)
(* The dashboard's reading of stored telemetry.  One SQL statement sees    *)
(* one state of the tables, so a response is a function of that state.  A  *)
(* query is [scope, execution, run, entity, end, window], its end an       *)
(* instant and its window a number of seconds.                             *)
(***************************************************************************)
EXTENDS PipelineTelemetry

CONSTANTS Queries,
          RecentSeconds,    \* 60 in the code
          StaleAfter        \* 15 seconds, in clock units

ASSUME ReadLimits == RecentSeconds \in Nat \ {0} /\ StaleAfter \in Nat

ASSUME QueryNumbers == \A q \in Queries : q.end \in Int /\ q.window \in Nat

\* TelemetryQuery.validate_scope and the checks of read_window.
QueryValid(q) ==
    CASE q.scope = "execution" -> q.execution # None /\ q.run = None /\ q.entity = None
      [] q.scope = "run"       -> q.run # None /\ q.execution = None
      [] q.scope = "reported"  -> q.execution = None /\ q.run = None /\ q.entity = None

\* end is truncated to a second: the window holds completed seconds only.
WindowEnd(q)   == q.end \div Second
WindowStart(q) == WindowEnd(q) - q.window
InWindow(q, start) == WindowStart(q) <= start /\ start < WindowEnd(q)

Stored == {e \in Executions : rows[e] # None}

\* The CTE scoped.
Scoped(q) ==
    {e \in Stored :
       /\ q.execution # None => e = q.execution
       /\ q.run # None => rows[e].run = q.run
       /\ q.entity # None => rows[e].entity = q.entity
       /\ q.scope = "reported" => \E s \in DOMAIN rows[e].buckets : InWindow(q, s)}

\* The CTE input_check, over all entities and times of the run.
InputConflict(q) ==
    LET all == {e \in Stored : q.run # None /\ rows[e].run = q.run}
        ids == {rows[e].identity : e \in all}
    IN  Cardinality(all) > 1 /\ (None \in ids \/ Cardinality(ids) # 1)

\* The CTE points: a row for each second somebody observed.
Reporting(q, start) == {e \in Scoped(q) : start \in DOMAIN rows[e].buckets}

Point(q, start) ==
    LET es == Reporting(q, start)
        bucket == [e \in es |-> rows[e].buckets[start]]
    IN  [executions |-> Cardinality(es),
         accepted   |-> SumFunction([e \in es |-> bucket[e].accepted]),
         completed  |-> SumFunction([e \in es |-> bucket[e].completed]),
         failed     |-> SumFunction([e \in es |-> bucket[e].failed]),
         samples    |-> SumFunction([e \in es |-> bucket[e].samples]),
         sum        |-> SumFunction([e \in es |-> bucket[e].sum]),
         at |-> Max({rows[e].buckets[start].last : e \in es})]

Points(q) ==
    [s \in {x \in WindowStart(q)..(WindowEnd(q) - 1) : Reporting(q, x) # {}} |-> Point(q, s)]

\* TelemetryPoint.validate_point
PointValid(start, p) ==
    /\ start * Second <= p.at /\ p.at < (start + 1) * Second
    /\ p.samples <= p.completed /\ (p.samples = 0 => p.sum = 0)
    /\ p.accepted + p.completed + p.failed > 0

\* recent_60s_summary: no sum at all where nothing was observed.
Summary(q, points) ==
    LET recent == {s \in DOMAIN points : s >= WindowEnd(q) - RecentSeconds}
        sum(values) == IF recent = {} THEN None ELSE SumFunction(values)
    IN  [observed  |-> Cardinality(recent), missing |-> RecentSeconds - Cardinality(recent),
         accepted  |-> sum([s \in recent |-> points[s].accepted]),
         completed |-> sum([s \in recent |-> points[s].completed]),
         failed    |-> sum([s \in recent |-> points[s].failed]),
         samples   |-> sum([s \in recent |-> points[s].samples]),
         sum       |-> sum([s \in recent |-> points[s].sum])]

\* observation_quality
Quality(q, points) ==
    IF \E e \in Scoped(q) : \/ rows[e].status \in {"partial", "unavailable"}
                            \/ rows[e].issues # {} \/ rows[e].disabled
      THEN "partial"
    ELSE IF DOMAIN points # {} THEN "observed" ELSE "no_samples"

\* The metadata's last_observed_at, and that of the points.
LastObserved(q, points) ==
    {rows[e].lastAt : e \in {x \in Scoped(q) :
        /\ rows[x].lastAt # None
        /\ rows[x].lastAt < WindowEnd(q) * Second}}
    \cup {points[s].at : s \in DOMAIN points}

\* The age is taken from the end of the window, not from today.
Freshness(q, points) ==
    LET seen == LastObserved(q, points)
    IN  IF seen = {} THEN "unknown"
        ELSE IF WindowEnd(q) * Second - Max(seen) > StaleAfter THEN "stale" ELSE "recent"

\* get_telemetry: a response, or the reason there is none.
GetTelemetry(q) ==
    IF ~QueryValid(q) THEN [answer |-> "invalid_query"]
    ELSE IF InputConflict(q) THEN [answer |-> "input_conflict"]
    ELSE LET points == Points(q)
         IN  IF \E s \in DOMAIN points : ~PointValid(s, points[s]) THEN [answer |-> "invalid_stored"]
             ELSE [answer |-> "ok", executions |-> Cardinality(Scoped(q)), points |-> points,
                   summary |-> Summary(q, points), quality |-> Quality(q, points),
                   freshness |-> Freshness(q, points)]

-----------------------------------------------------------------------------
\* What really happened to the records of an execution, from and before two
\* seconds, in the first n of its observations.
Happened(e, n, from, to) ==
    {i \in DOMAIN attempt[e].log :
        /\ i <= n /\ attempt[e].log[i].at # None
        /\ from * Second <= attempt[e].log[i].at /\ attempt[e].log[i].at < to * Second}

\* The records of a kind, and the time they took, over some executions of
\* which a number of observations each is seen.
Really(es, seen, from, to, kind) ==
    SumFunction([e \in es |->
        SumFunction([i \in {j \in Happened(e, seen[e], from, to) : attempt[e].log[j].kind = kind} |->
                        attempt[e].log[i].count])])

ReallyTook(es, seen, from, to) ==
    SumFunction([e \in es |->
        SumFunction([i \in Happened(e, seen[e], from, to) |-> attempt[e].log[i].took])])

\* The totals a response must show for the seconds from..to-1.
TotalsAre(p, es, seen, from, to) ==
    /\ p.accepted  = Really(es, seen, from, to, "accepted")
    /\ p.completed = Really(es, seen, from, to, "completed")
    /\ p.failed    = Really(es, seen, from, to, "failed")
    /\ p.samples   = p.completed
    /\ p.sum       = ReallyTook(es, seen, from, to)

\* A response of the dashboard that calls its observations intact shows what
\* happened: in each second, and in the recent summary, the records that the
\* executions of its scope admitted, completed and failed and the time they
\* took, as of the revision of each that is stored.  No retry of a flush counts
\* twice, no clock fault, full buffer or lost answer leaves a hole that is not
\* reported, and attempts over different inputs are never added up.
TelemetryIsExact ==
    Stored # {} => \A q \in Queries :
        LET r == GetTelemetry(q)
            seen == [e \in Scoped(q) |-> rows[e].revision]
        IN  /\ r.answer # "invalid_stored"
            /\ r.answer = "ok" /\ r.quality = "observed" =>
                 /\ \A s \in DOMAIN r.points :
                       TotalsAre(r.points[s], Scoped(q), seen, s, s + 1)
                 /\ \A s \in WindowStart(q)..(WindowEnd(q) - 1) : s \notin DOMAIN r.points =>
                       \A e \in Scoped(q) : Happened(e, seen[e], s, s + 1) = {}
                 /\ r.summary.observed > 0 =>
                       TotalsAre(r.summary, Scoped(q), seen,
                                 Max({WindowStart(q), WindowEnd(q) - RecentSeconds}), WindowEnd(q))
            /\ r.answer = "ok" /\ q.run # None =>
                 \A e, f \in Scoped(q) :
                    watch.attempts[e].input.records = watch.attempts[f].input.records

\* The stored telemetry of an execution only grows: no stale snapshot, late
\* commit or repeated flush takes back a revision, a counter of a second, a
\* quality mark or the end of the collection.
TelemetryNeverRegresses ==
    [][\A e \in Stored :
          LET old == rows[e]
              new == rows'[e]
          IN  /\ new # None
              /\ new.revision > old.revision \/ new = old
              /\ old.issues \subseteq new.issues
              /\ old.disabled => new.disabled
              /\ \A s \in DOMAIN old.buckets :
                    /\ s \in DOMAIN new.buckets
                    /\ new.buckets[s].accepted >= old.buckets[s].accepted
                    /\ new.buckets[s].completed >= old.buckets[s].completed
                    /\ new.buckets[s].failed >= old.buckets[s].failed
                    /\ new.buckets[s].sum >= old.buckets[s].sum]_rows

\* An observer that was closed with nothing pending has stored the last word of
\* its collector, the failures of its own flushes included.
ClosedMeansStored ==
    \A e \in Executions :
        attempt[e].observer.closed /\ attempt[e].observer.pending = None =>
            /\ attempt[e].collector.snapshot.revision = attempt[e].collector.revision
            /\ rows[e] = attempt[e].collector.snapshot
=============================================================================
