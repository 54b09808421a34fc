---------------------------- MODULE FusionReplay ----------------------------
(***************************************************************************)
(* Temporal Fusion of one (run, entity): the sliding window of Evidence,   *)
(* the simple score, the stopping policy, the two replays built from them  *)
(* (in event time and in causal, availability time) and the FusionResult.  *)
(*                                                                         *)
(* Times are integers, Ms of them in a millisecond.  A score is the number *)
(* of profile types that are active; the code divides it by the number of  *)
(* profile types, and a threshold is a number of hundredths, so that       *)
(* score >= threshold is AtLeast below.  An item of Evidence is a record   *)
(* [id, timestamp, type, group]; a configuration is a record               *)
(* [window, step, types, on, off, k].                                      *)
(***************************************************************************)
EXTENDS Integers, FiniteSets, SequencesExt, Values

CONSTANT Ms      \* clock units in a millisecond

ASSUME MsAssumption == Ms \in Nat \ {0}

\* A time that is missing is no time.
ASSUME NoneIsNoTime == None \notin Int

-----------------------------------------------------------------------------
\* The configuration and the identity it gives a result.
ConfigValid(c) ==
    /\ c.window > 0 /\ c.step > 0 /\ c.step % Ms = 0
    /\ c.types # {}
    /\ c.on \in 0..100 /\ c.off \in 0..100 /\ c.off < c.on
    /\ c.k >= 1

\* The types of its fields.
ConfigTyped(c) == {c.window, c.step, c.k} \subseteq Int /\ IsFiniteSet(c.types)

MsTrunc(t) == t - (t % Ms)

\* sorted(): the members of a finite set, each after as many as come before it.
InOrder(S, before(_, _)) ==
    [n \in 1..Cardinality(S) |->
        CHOOSE x \in S : Cardinality({y \in S : before(y, x)}) = n - 1]

-----------------------------------------------------------------------------
\* WindowEngine: the deque of one key and the two times that guard it.
EmptyWindow == [items |-> <<>>, last |-> None, advanced |-> None, ok |-> TRUE]

NotBefore(t, bound) == bound = None \/ t >= bound

\* ingest, for one item after the other.
Ingested(w, due) ==
    LET before(i) == IF i = 1 THEN w.last ELSE due[i - 1].timestamp
    IN  [w EXCEPT !.ok = @ /\ \A i \in 1..Len(due) :
                                /\ NotBefore(due[i].timestamp, w.advanced)
                                /\ NotBefore(due[i].timestamp, before(i)),
                  !.items = @ \o due,
                  !.last = IF due = <<>> THEN @ ELSE Last(due).timestamp]

AdvanceTo(w, t, size) ==
    LET keep == {i \in 1..Len(w.items) : w.items[i].timestamp >= t - size}
        first == IF keep = {} THEN Len(w.items) + 1 ELSE Min(keep)
    IN  [w EXCEPT !.ok = @ /\ NotBefore(t, w.advanced) /\ NotBefore(t, w.last),
                  !.items = SubSeq(@, first, Len(@)),
                  !.advanced = t]

ActiveEvidence(w) ==
    {e \in ToSet(w.items) : w.advanced = None \/ e.timestamp <= w.advanced}

\* A window whose head test is strict drops the Evidence on its edge.
ExclusiveWindow(items, t, size) ==
    {e \in items : t - size < e.timestamp /\ e.timestamp <= t}

EventTimeWindow(items, t, size) ==
    {e \in items : t - size <= e.timestamp /\ e.timestamp <= t}

-----------------------------------------------------------------------------
\* SimpleScorer: distinct profile types, not items, make the score.
IsScoring(c, e) == e.group = "fusion_feature" /\ e.type \in c.types

Score(c, items) == Cardinality({e.type : e \in {x \in items : IsScoring(c, x)}})

Contributing(c, items) == {e.id : e \in {x \in items : IsScoring(c, x)}}

AtLeast(c, score, threshold) == score * 100 >= threshold * Cardinality(c.types)

-----------------------------------------------------------------------------
\* ThresholdStoppingPolicy.evaluate: hysteresis between on and off, an episode
\* opened after k consecutive points, the first of them the fusion time.
PolicyStart ==
    [consecutive |-> 0, open |-> None, first |-> None, episodes |-> <<>>,
     trace |-> <<>>]

Observed(s, p, count, state) ==
    [s EXCEPT !.trace = Append(@, [timestamp |-> p.timestamp, score |-> p.score,
                                   count |-> count, state |-> state])]

Closed(episode, t, reason) ==
    [start |-> episode.start, end |-> t, reason |-> reason,
     score |-> episode.score, peak |-> episode.peak]

WhileOn(c, s, p) ==
    IF ~AtLeast(c, p.score, c.off)
      THEN Observed([s EXCEPT !.episodes = Append(@, Closed(s.open, p.timestamp, "released")),
                              !.open = None, !.consecutive = 0], p, None, "off")
      ELSE Observed([s EXCEPT !.open.peak = IF p.score > @ THEN p.score ELSE @],
                    p, None, "on")

\* A policy that never clears its counter counts points that are not
\* consecutive.
CountOffWithoutReset(c, s, p) ==
    LET count == IF AtLeast(c, p.score, c.on) THEN s.consecutive + 1 ELSE s.consecutive
    IN  [count |-> count, shown |-> IF AtLeast(c, p.score, c.on) THEN count ELSE None]

CountOff(c, s, p) ==
    LET count == IF AtLeast(c, p.score, c.on) THEN s.consecutive + 1 ELSE 0
    IN  [count |-> count, shown |-> IF count > 0 THEN count ELSE None]

WhileOff(c, s, p) ==
    LET n == CountOff(c, s, p)
    IN  IF n.count >= c.k
          THEN Observed([s EXCEPT
                           !.consecutive = 0,
                           !.open = [start |-> p.timestamp, score |-> p.score,
                                     peak |-> p.score],
                           !.first = IF @ = None THEN p ELSE @], p, n.shown, "on")
          ELSE Observed([s EXCEPT !.consecutive = n.count], p, n.shown, "off")

PolicyStep(c, s, p) == IF s.open # None THEN WhileOn(c, s, p) ELSE WhileOff(c, s, p)

\* The trajectory is refused when its times do not increase or pass the end.
TrajectoryValid(points, end) ==
    /\ \A i \in 2..Len(points) : points[i].timestamp > points[i - 1].timestamp
    /\ \A i \in 1..Len(points) : points[i].timestamp <= end

\* The policy after each of the points.
PolicyStates(c, points) ==
    LET state[n \in 0..Len(points)] ==
          IF n = 0 THEN PolicyStart ELSE PolicyStep(c, state[n - 1], points[n])
    IN  state

Evaluate(c, points, end, reason) ==
    LET s == PolicyStates(c, points)[Len(points)]
    IN  [status   |-> IF s.first = None THEN "miss" ELSE "detected",
         time     |-> IF s.first = None THEN None ELSE s.first.timestamp,
         score    |-> IF s.first = None THEN None ELSE s.first.score,
         episodes |-> IF s.open = None THEN s.episodes
                      ELSE Append(s.episodes, Closed(s.open, end, reason)),
         trace    |-> s.trace]

-----------------------------------------------------------------------------
\* TemporalReplayRunner.run: the grid from start to the effective end, which
\* replay_end may move before the end of the run.
EffectiveEnd(runEnd, replayEnd) == IF replayEnd = None THEN runEnd ELSE replayEnd

BoundaryReason(runEnd, replayEnd) ==
    IF replayEnd # None /\ replayEnd < runEnd THEN "replay_end" ELSE "run_end"

RunAccepts(c, items, start, runEnd, replayEnd) ==
    LET end == EffectiveEnd(runEnd, replayEnd)
    IN  /\ runEnd >= start
        /\ end >= start /\ end <= runEnd
        /\ (end - start) % c.step = 0
        /\ \A i \in 1..Len(items) : items[i].timestamp \in start..end
        /\ \A i \in 2..Len(items) : items[i].timestamp >= items[i - 1].timestamp

Grid(c, start, end) == [i \in 1..((end - start) \div c.step) + 1 |-> start + (i - 1) * c.step]

\* One tick of the replay: the items up to the first that is not due are
\* ingested, the window is advanced.
Tick(c, items, acc, t) ==
    LET due == {i \in acc.next..Len(items) :
                  \A j \in acc.next..i : items[j].timestamp <= t}
        next == acc.next + Cardinality(due)
        w == AdvanceTo(Ingested(acc.window, SubSeq(items, acc.next, next - 1)), t, c.window)
        active == ActiveEvidence(w)
    IN  [next |-> next, window |-> w,
         points |-> Append(acc.points, [timestamp |-> t, score |-> Score(c, active)]),
         snapshots |-> Append(acc.snapshots, [timestamp |-> t, ids |-> Contributing(c, active)])]

ReplayStart == [next |-> 1, window |-> EmptyWindow, points |-> <<>>, snapshots |-> <<>>]

\* The replay after each of its ticks.
Ticks(c, items, times) ==
    LET state[n \in 0..Len(times)] ==
          IF n = 0 THEN ReplayStart ELSE Tick(c, items, state[n - 1], times[n])
    IN  state

Replay(c, items, start, runEnd, replayEnd) ==
    LET end   == EffectiveEnd(runEnd, replayEnd)
        times == Grid(c, start, end)
        r     == Ticks(c, items, times)[Len(times)]
    IN  [valid |-> r.window.ok /\ TrajectoryValid(r.points, end),
         points |-> r.points, snapshots |-> r.snapshots,
         stopping |-> Evaluate(c, r.points, end, BoundaryReason(runEnd, replayEnd))]

-----------------------------------------------------------------------------
\* TemporalReplayRunner.run_causal: Evidence [evidence, available] counts from
\* the time it became available, and only while its event time is in the
\* window; an end off the grid is one more point.
CausalAccepts(scheduled, start, end) ==
    /\ end >= start
    /\ \A i, j \in DOMAIN scheduled :
          i # j => scheduled[i].evidence.id # scheduled[j].evidence.id
    /\ \A i \in DOMAIN scheduled :
          /\ scheduled[i].evidence.timestamp \in start..end
          /\ scheduled[i].available \in start..end
          /\ scheduled[i].available >= scheduled[i].evidence.timestamp

CausalPoints(c, start, end) ==
    LET grid == Grid(c, start, end)
    IN  IF Last(grid) = end THEN grid ELSE Append(grid, end)

\* A replay that activates Evidence at its event time sees the future.
ActivatedByEventTime(scheduled, t) ==
    {s.evidence : s \in {x \in ToSet(scheduled) : x.evidence.timestamp <= t}}

Activated(scheduled, t) ==
    {s.evidence : s \in {x \in ToSet(scheduled) : x.available <= t}}

CausalReplay(c, scheduled, start, end) ==
    LET times  == CausalPoints(c, start, end)
        active == [i \in 1..Len(times) |->
                     EventTimeWindow(Activated(scheduled, times[i]), times[i], c.window)]
        points == [i \in 1..Len(times) |->
                     [timestamp |-> times[i], score |-> Score(c, active[i])]]
    IN  [valid |-> TrajectoryValid(points, end),
         points |-> points,
         snapshots |-> [i \in 1..Len(times) |->
                          [timestamp |-> times[i], ids |-> Contributing(c, active[i])]],
         stopping |-> Evaluate(c, points, end, "run_end")]

-----------------------------------------------------------------------------
\* build_fusion_result: episodes and the result carry the Evidence that counted
\* when they started.
SnapshotAt(replay, t) ==
    (CHOOSE s \in ToSet(replay.snapshots) : s.timestamp = t).ids

FusionResult(replay) ==
    LET s == replay.stopping
    IN  [status   |-> s.status,
         time     |-> s.time,
         score    |-> s.score,
         evidence |-> IF s.status = "detected" THEN SnapshotAt(replay, s.time) ELSE {},
         episodes |-> [i \in 1..Len(s.episodes) |->
                         [start |-> s.episodes[i].start, end |-> s.episodes[i].end,
                          reason |-> s.episodes[i].reason, score |-> s.episodes[i].score,
                          peak |-> s.episodes[i].peak,
                          evidence |-> SnapshotAt(replay, s.episodes[i].start)]]]

NotEvaluatedFusion ==
    [status |-> "not_evaluated", time |-> None, score |-> None, evidence |-> {},
     episodes |-> <<>>]

\* A result and a stopping trace name the run, the entity and the configuration.
NamedResult(r, run, entity, c) ==
    [run |-> run, entity |-> entity, version |-> c.version, status |-> r.status,
     time |-> r.time, score |-> r.score, evidence |-> r.evidence, episodes |-> r.episodes]

NamedTrace(points, run, entity, c) ==
    [run |-> run, entity |-> entity, version |-> c.version, points |-> points]

\* The FusionResult and FusionEpisodeResult contracts.
FusionResultValid(r) ==
    LET starts == {r.episodes[i].start : i \in DOMAIN r.episodes}
    IN  /\ \A i \in DOMAIN r.episodes :
              /\ (r.episodes[i].end = None) <=> (r.episodes[i].reason = None)
              /\ r.episodes[i].end # None => r.episodes[i].end >= r.episodes[i].start
        /\ r.status = "detected" =>
              /\ r.time # None /\ r.episodes # <<>> /\ r.score # None
              /\ r.time = Min(starts)
              /\ \E i \in DOMAIN r.episodes :
                    /\ r.episodes[i].start = r.time
                    /\ r.episodes[i].score = r.score
                    /\ r.episodes[i].evidence = r.evidence
              /\ r.evidence # {}
        /\ r.status = "miss" => r.time = None /\ r.episodes = <<>>
        /\ r.status = "not_evaluated" => r.time = None /\ r.score = None /\ r.episodes = <<>>

\* The stopping trace of the runtime is refused off the millisecond.
StoppingTraceValid(trace) ==
    /\ \A i \in DOMAIN trace : trace[i].timestamp % Ms = 0
    /\ \A i \in 2..Len(trace) : trace[i].timestamp > trace[i - 1].timestamp

\* The JSON round trip of the combiner cuts every time to its millisecond.
EpisodeJson(e) == [e EXCEPT !.start = MsTrunc(@), !.end = MsTrunc(@)]

FusionJson(r) ==
    [r EXCEPT !.time = IF @ = None THEN None ELSE MsTrunc(@),
              !.episodes = [i \in DOMAIN @ |-> EpisodeJson(@[i])]]

-----------------------------------------------------------------------------
(***************************************************************************)
(* What the replay is meant to compute, without window, fold or counter:   *)
(* the score at a point is over the Evidence in the closed window, and the *)
(* fusion time is the k-th of the first k consecutive points at or above   *)
(* threshold_on.                                                           *)
(***************************************************************************)
ReferenceActive(c, items, t) ==
    {e \in ToSet(items) : e.timestamp \in (t - c.window)..t}

ReferenceHit(c, items, t) ==
    AtLeast(c, Cardinality({e.type : e \in {x \in ReferenceActive(c, items, t) :
                                              IsScoring(c, x)}}), c.on)

ReferenceTime(times, hit) ==
    LET confirmed(k) == {i \in k..Len(times) : \A j \in (i - k + 1)..i : hit[j]}
    IN  [k \in 1..Len(times) |-> IF confirmed(k) = {} THEN None ELSE times[Min(confirmed(k))]]

ReferenceFusionTime(c, items, start, end) ==
    LET times == Grid(c, start, end)
        hit   == [i \in 1..Len(times) |-> ReferenceHit(c, items, times[i])]
    IN  IF c.k > Len(times) THEN None ELSE ReferenceTime(times, hit)[c.k]
=============================================================================
