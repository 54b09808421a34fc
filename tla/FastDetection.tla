---------------------------- MODULE FastDetection ----------------------------
(***************************************************************************)
(* The fast path: rule hits of a Hayabusa export are turned into a handoff *)
(* of two files, a selection is made over it, and the pipeline adapts both *)
(* into a detection.                                                       *)
(*                                                                         *)
(* A row of the export is [rule, host, time]; a runner configuration is    *)
(* [version, qualifying, alerts] with alerts a function on the rules that  *)
(* have metadata; a policy is [version, config, map] with map a function   *)
(* from hosts to entities.  A digest of a file is the content of the file. *)
(***************************************************************************)
EXTENDS HybridDecision

-----------------------------------------------------------------------------
\* Rows with a time, and rules that are numbered in the order of their names.
RowsTyped(csv) ==
    csv \in Seq(ToSet(csv)) /\ \A n \in DOMAIN csv : {csv[n].time, csv[n].rule} \subseteq Int

\* fast_hit_adapter: a hit for every row of a qualifying rule, named after the
\* run and the row, its time cut to the millisecond.
HitOf(run, rows, config, n) ==
    [id |-> <<run, n>>, run |-> run, time |-> MsTrunc(rows[n].time),
     rule |-> rows[n].rule, alert |-> config.alerts[rows[n].rule],
     host |-> rows[n].host, version |-> config.version]

RowBefore(m, n) == m < n

QualifyingRows(rows, config) ==
    InOrder({n \in 1..Len(rows) : rows[n].rule \in config.qualifying}, RowBefore)

FastHits(run, rows, config) ==
    LET q == QualifyingRows(rows, config)
    IN  [k \in 1..Len(q) |-> HitOf(run, rows, config, q[k])]

\* run_fast_handoff refuses a configuration with a rule it cannot describe.
RunnerConfigValid(config) == config.qualifying \subseteq DOMAIN config.alerts

FastTrace(run, rows, config, csvNow, configNow) ==
    LET q == QualifyingRows(rows, config)
    IN  [run |-> run, input |-> csvNow, config |-> configNow,
         output |-> FastHits(run, rows, config),
         rows |-> Len(rows), count |-> Len(q),
         hits |-> [k \in 1..Len(q) |-> [id |-> <<run, q[k]>>, row |-> q[k],
                                        rule |-> rows[q[k]].rule]]]

-----------------------------------------------------------------------------
\* read_fast_hit_handoff over the files of a directory: [csv, config, hits,
\* trace, selection], each None until it exists.
HitsMatchTrace(hits, trace, run) ==
    /\ trace.count = Len(hits) /\ Len(trace.hits) = Len(hits)
    /\ \A i, j \in DOMAIN hits : i # j => hits[i].id # hits[j].id
    /\ \A i \in DOMAIN hits : hits[i].run = run
    /\ \A i, j \in DOMAIN trace.hits : i # j => /\ trace.hits[i].id # trace.hits[j].id
                                                /\ trace.hits[i].row # trace.hits[j].row
    /\ \A i \in DOMAIN hits : \E j \in DOMAIN trace.hits :
          /\ trace.hits[j].id = hits[i].id
          /\ trace.hits[j].rule = hits[i].rule

ProvenanceValid(trace, run) ==
    \A j \in DOMAIN trace.hits : /\ trace.hits[j].id = <<run, trace.hits[j].row>>
                                 /\ trace.hits[j].row <= trace.rows

InputsUnchanged(files) ==
    files.trace.input = files.csv /\ files.trace.config = files.config

HandoffValid(files, run) ==
    /\ files.hits # None /\ files.trace # None
    /\ files.trace.output = files.hits
    /\ InputsUnchanged(files)
    /\ files.trace.run = run
    /\ HitsMatchTrace(files.hits, files.trace, run)
    /\ ProvenanceValid(files.trace, run)

-----------------------------------------------------------------------------
\* adapt_fast_hit_handoff: a selection [status, hit] over a valid handoff, with
\* a mapper from hosts to entities.
SelectionValid(sel) ==
    (sel.status = "detected") <=> (sel.hit # None)

Mapped(map, host) == IF host \in DOMAIN map THEN map[host] ELSE None

\* A consumer that takes the selection's word for a miss.
MissTrusted(hits, entity, map) == TRUE

MissAccepted(hits, entity, map) ==
    \A i \in DOMAIN hits : Mapped(map, hits[i].host) \notin {None, entity}

DetectionAccepted(hits, entity, map, id) ==
    \E i \in DOMAIN hits : hits[i].id = id /\ Mapped(map, hits[i].host) = entity

AdaptAccepts(files, entity, sel, map) ==
    /\ SelectionValid(sel)
    /\ sel.status # "not_evaluated"
    /\ sel.status = "miss" => MissAccepted(files.hits, entity, map)
    /\ sel.status = "detected" => DetectionAccepted(files.hits, entity, map, sel.hit)

Adapt(files, entity, sel) ==
    LET hit == CHOOSE h \in ToSet(files.hits) : h.id = sel.hit
        found == sel.status = "detected"
    IN  [detection |-> [run |-> files.trace.run, entity |-> entity, status |-> sel.status,
                        time |-> IF found THEN hit.time ELSE None,
                        rule |-> IF found THEN hit.rule ELSE None],
         hits |-> [i \in DOMAIN files.hits |-> files.hits[i].id],
         selected |-> sel.hit]

-----------------------------------------------------------------------------
\* select_fast_hit: the handoff must be what the export and the configuration
\* give again, every hit must have an owner, and the earliest is selected.
SelectAccepts(files, policy, run, entity) ==
    /\ \E h \in DOMAIN policy.map : policy.map[h] = entity
    /\ HandoffValid(files, run)
    /\ files.trace.config = policy.config
    /\ files.config.version = policy.version
    /\ files.config.qualifying # {}
    /\ RunnerConfigValid(files.config)
    /\ files.hits = FastHits(run, files.csv, files.config)
    /\ \A i \in DOMAIN files.hits : files.hits[i].host \in DOMAIN policy.map

Before(a, b) ==
    \/ a.time < b.time
    \/ a.time = b.time /\ a.rule < b.rule
    \/ a.time = b.time /\ a.rule = b.rule /\ a.id[2] < b.id[2]

Owned(files, policy, entity) ==
    {h \in ToSet(files.hits) : Mapped(policy.map, h.host) = entity}

\* A selection that takes the hits in the order of the export.
FirstOwned(files, policy, entity) ==
    CHOOSE h \in Owned(files, policy, entity) :
        \A g \in Owned(files, policy, entity) : h.id[2] <= g.id[2]

EarliestOwned(files, policy, entity) ==
    CHOOSE h \in Owned(files, policy, entity) :
        \A g \in Owned(files, policy, entity) \ {h} : Before(h, g)

Select(files, policy, entity) ==
    IF Owned(files, policy, entity) = {} THEN [status |-> "miss", hit |-> None]
    ELSE [status |-> "detected", hit |-> EarliestOwned(files, policy, entity).id]

-----------------------------------------------------------------------------
\* What the fast path is meant to find: the earliest qualifying row of a host
\* that belongs to the entity.
ReferenceFastTimes(rows, config, map, entity) ==
    {MsTrunc(rows[n].time) : n \in {k \in 1..Len(rows) :
        rows[k].rule \in config.qualifying /\ Mapped(map, rows[k].host) = entity}}
=============================================================================
