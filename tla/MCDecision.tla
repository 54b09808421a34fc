------------------------------ MODULE MCDecision ------------------------------
(***************************************************************************)
(* Scenarios for the decision system.  Two clock units are a millisecond;  *)
(* the S0 replay has three points.                                         *)
(***************************************************************************)
EXTENDS DecisionSystem

CONSTANTS p1, p2, r1, e1, e2

MCProcs == {p1, p2}
MCRuns == {"S0-RUN", "R1-RUN"}
MCScopes == {<<"S0-RUN", "h1">>, <<"S0-RUN", "h2">>, <<"R1-RUN", "h1">>}
MCVersions == {"one", "both", "twice"}
S0Id(n) == <<"S0", n, "", "">>
MCIds == {S0Id(1), S0Id(2)} \cup {<<"R1", t, v, s>> : t \in {2, 4, 8}, v \in MCVersions,
                                                     s \in {"not_evaluated", "detected"}}

Types == {"encoded_powershell_command", "script_interpreter_external_connection"}

Config(version, window, step, on, k) ==
    [version |-> version, window |-> window, step |-> step, types |-> Types,
     on |-> on, off |-> 40, k |-> k]

One   == Config("one", 2, 2, 50, 1)
Both  == Config("both", 2, 2, 100, 1)
Twice == Config("twice", 4, 2, 50, 2)
Narrow == Config("narrow", 1, 2, 50, 1)

-----------------------------------------------------------------------------
\* S0: records, rows and what goes with them.
Rec(eventId, image, command, dest, t) ==
    [eventId |-> eventId, recordId |-> 0, time |-> t, host |-> "h1",
     image |-> image, command |-> command, dest |-> dest]

Records(times) ==
    {Rec(1, "powershell", "encoded", None, t) : t \in times}
    \cup {Rec(3, "script_host", None, "global", t) : t \in times}

Margins == {Rec(1, "powershell", "encoded", None, 6), Rec(3, "powershell", None, "global", 5),
            Rec(1, "other", "encoded", None, 2), Rec(3, "script_host", None, "private", 2)}

Manifest(jsonl) ==
    [run |-> "S0-RUN",
     items |-> <<[name |-> "evtx", path |-> "a", layer |-> "raw_telemetry", source |-> "sysmon",
                  raw |-> "L0", derived |-> None, sha |-> None],
                 [name |-> "jsonl", path |-> "b", layer |-> "raw_telemetry", source |-> "sysmon",
                  raw |-> "L1", derived |-> "a", sha |-> jsonl]>>]

Meta(run, end) ==
    [run |-> run, target |-> "h1", start |-> 0, end |-> end, family |-> "wmi"]

Hit(rule, host, t) == [rule |-> rule, host |-> host, time |-> t]

Hits == {Hit(1, "h1", 2), Hit(2, "h1", 3), Hit(1, "h1", 4), Hit(2, "h1", 0),
         Hit(1, "h2", 2), Hit(3, "h1", 0)}

FastConfig == [version |-> "f", qualifying |-> {1, 2}, alerts |-> [r \in {1, 2} |-> "a"]]

Own  == [h \in {"h1", "h2"} |-> h]
Join == [h \in {"h1", "h2"} |-> "h1"]

Policy(map) == [version |-> "f", config |-> FastConfig, map |-> map]

Complete(csv, map) ==
    LET t == FastTrace("S0-RUN", csv, FastConfig, csv, FastConfig)
        f == [csv |-> csv, config |-> FastConfig, hits |-> t.output, trace |-> t,
              selection |-> None]
    IN  [f EXCEPT !.selection = Select(f, Policy(map), "h1")]

Fresh(csv, hand) ==
    [csv |-> csv, config |-> FastConfig, hits |-> None, trace |-> None, selection |-> hand]

World(jsonl, end, c, map, export, hand, ids, limit) ==
    [meta |-> Meta("S0-RUN", end), manifest |-> Manifest(jsonl), jsonl |-> jsonl,
     fusionConfig |-> c, policy |-> Policy(map), export |-> export, hand |-> hand,
     inputs |-> {[id |-> S0Id(n), entity |-> "h1", config |-> "parallel"] : n \in ids},
     limit |-> limit]

S0(w, f, readers) ==
    [world |-> w, episode |-> None, watch |-> None, feed |-> None, files |-> f, runs |-> [r \in MCRuns |-> None],
     readers |-> readers, procs |-> DOMAIN w.limit]

Alone(n) == [p \in {p1} |-> n]
Each(n) == [p \in MCProcs |-> n]
Mostly(q) == [p \in MCProcs |-> IF p = q THEN 2 ELSE 1]

TwoRows == <<Hit(2, "h1", 3), Hit(1, "h1", 2)>>
Seqs(S) == {<<x>> : x \in S} \cup {<<x, y>> : x \in S, y \in S}

\* Every short sequence of records, over four configurations.
RecordScenarios ==
    {S0(World(j, 4, c, Own, TwoRows, FALSE, {1}, Alone(1)), Complete(TwoRows, Own), {}) :
        j \in Seqs(Records({1, 2, 4}) \cup Margins), c \in {One, Both, Twice, Narrow}}

\* Runs that end before, at and after the end of the replay, and refused inputs.
Broken ==
    LET w == World(<<Rec(1, "powershell", "encoded", None, 2)>>, 4, One, Own, TwoRows, FALSE, {1},
                Alone(1))
    IN  {[w EXCEPT !.meta.end = 3], [w EXCEPT !.meta.end = 6], [w EXCEPT !.meta.target = "h2"],
         [w EXCEPT !.manifest.run = "R1-RUN"], [w EXCEPT !.manifest.items[2].derived = "c"],
         [w EXCEPT !.jsonl[1].time = 0], [w EXCEPT !.jsonl[1].eventId = 5],
         [w EXCEPT !.fusionConfig.step = 6]}

BrokenScenarios == {S0(w, Complete(TwoRows, Own), {}) : w \in Broken}

\* Every short export, published and selected while the CSV may be rewritten.
FastScenarios ==
    {S0(World(<<Rec(1, "powershell", "encoded", None, 2)>>, 4, One, map, export, hand # None, {1},
              Alone(1)), Fresh(csv, hand), {}) :
        csv \in Seqs(Hits) \cup {<<>>}, map \in {Own, Join}, export \in {TwoRows, <<>>},
        hand \in {None, [status |-> "miss", hit |-> None],
                  [status |-> "detected", hit |-> <<"S0-RUN", 2>>]}}

\* Two processes over one scope, two decision ids and a reader; and a process
\* that repeats itself.
StoreScenarios ==
    LET w(ids, limit) == World(<<Rec(1, "powershell", "encoded", None, 2)>>, 4, One, Own, TwoRows,
                               FALSE, ids, limit)
    IN  {S0(w({1, 2}, Each(1)), Complete(TwoRows, Own), {r1}),
         S0(w({1, 2}, Mostly(p1)), Complete(TwoRows, Own), {})}

-----------------------------------------------------------------------------
\* R1: the published set of one run, and the commands over it.
Item(n, type, t) ==
    [id |-> n, run |-> "R1-RUN", entity |-> "h1", timestamp |-> t, type |-> type,
     group |-> "fusion_feature", events |-> {<<"R1-RUN", n>>}]

Evidences == <<Item(1, "encoded_powershell_command", 2),
               Item(2, "script_interpreter_external_connection", 4)>>

Published(at, end) ==
    [status |-> "finalized", mode |-> "verified_close_proof", trusted |-> TRUE,
     restored |-> Evidences, evidences |-> Evidences,
     events |-> {[id |-> <<"R1-RUN", n>>, run |-> "R1-RUN", host |-> "h1"] : n \in {1, 2}},
     envelope |-> IncrementalEnvelope(Evidences, Meta("R1-RUN", end)),
     receipt |-> IncrementalEnvelope(Evidences, Meta("R1-RUN", end)), at |-> at]

Artifact ==
    [run |-> "R1-RUN", status |-> "completed", diagnostics |-> FALSE, extractor |-> 1,
     evidences |-> Evidences, selector |-> [status |-> "selected", policy |-> "s"],
     lineage |-> <<[policy |-> "a", context |-> {}]>>]

NotRun == NotEvaluatedFast("R1-RUN", "h1")
Found  == [detection |-> [run |-> "R1-RUN", entity |-> "h1", status |-> "detected",
                          time |-> 2, rule |-> 1],
           hits |-> <<<<"R1-RUN", 1>>>>, selected |-> <<"R1-RUN", 1>>]

Cmd(d, c, fast, connected) ==
    [dir |-> d, config |-> c, fast |-> fast, connected |-> connected]

Episode(end, c, pub, artifact, commands, clock, limit) ==
    [meta |-> Meta("R1-RUN", end), pub |-> pub, artifact |-> artifact, built |-> Artifact,
     selector |-> "s", approved |-> [id |-> "a", families |-> {"wmi"}],
     replayConfig |-> c, commands |-> commands, clock |-> clock, limit |-> limit]

R1(e, registered) ==
    [world |-> None, episode |-> e, watch |-> None, feed |-> None, files |-> Fresh(<<>>, None),
     runs |-> [r \in MCRuns |-> IF r = "R1-RUN" /\ registered THEN e.meta ELSE None],
     readers |-> {}, procs |-> DOMAIN e.limit]

\* Two directories, with and without the database.
Detached == Cmd("d1", One, NotRun, FALSE)
Attached == Cmd("d1", One, NotRun, TRUE)
Other    == Cmd("d2", Both, Found, TRUE)

HandoffScenarios ==
    LET e(at, commands, clock, limit) ==
          Episode(6, One, Published(at, 6), Artifact, commands, clock, limit)
    IN  {R1([x EXCEPT !.built.status = "failed"], TRUE) :
            x \in {e(4, {Detached, Other}, {4}, Mostly(p1)),
                   e(2, {Detached, Attached, Other}, {2, 4}, Each(1)),
                   e(4, {Detached, Attached}, {2, 4}, Alone(3))}}

\* One process, every configuration, a published set that is refused, a run
\* that nobody registered and one that ends off the grid.
Single(c, e, registered) ==
    R1([e EXCEPT !.commands = {Cmd("d1", c, f, b) : f \in {NotRun, Found}, b \in BOOLEAN},
                 !.built.status = "failed"], registered)

Refused(e) ==
    {[e EXCEPT !.pub.mode = "run_end"], [e EXCEPT !.pub.evidences = <<>>],
     [e EXCEPT !.pub.receipt.end = 4], [e EXCEPT !.artifact.evidences = <<Evidences[1]>>],
     [e EXCEPT !.artifact.diagnostics = TRUE]}

SingleScenarios ==
    LET e == Episode(6, One, Published(2, 6), Artifact, {}, {2, 4, 8}, Alone(2))
    IN  {Single(c, e, TRUE) : c \in {One, Both, Twice, [Both EXCEPT !.step = 4]}}
        \cup {Single(One, x, TRUE) : x \in Refused(e)}
        \cup {Single(One, e, FALSE)}

\* The offline replay, which shares nothing with the commands.
ReplayScenarios ==
    LET e == Episode(6, One, Published(2, 6), Artifact, {}, {2}, Alone(1))
    IN  {R1([x EXCEPT !.replayConfig = c], TRUE) :
            c \in {One, Both, Twice, [Both EXCEPT !.step = 4]}, x \in {e} \cup Refused(e)}

-----------------------------------------------------------------------------
\* Telemetry: a second is two clock units.
Watched(attempts, times, monos, ticks, outcomes) ==
    [world |-> None, episode |-> None, feed |-> None, files |-> Fresh(<<>>, None),
     watch |-> [attempts |-> attempts, times |-> times, monos |-> monos, ticks |-> ticks,
                outcomes |-> outcomes],
     runs |-> [r \in MCRuns |-> None], readers |-> {}, procs |-> {}]

FromFile(file, records, verified) ==
    [supplied |-> None, file |-> file, records |-> records, verified |-> verified]
FromS3(identity) ==
    [supplied |-> [identity |-> identity], file |-> "x", records |-> "x", verified |-> None]

Object == <<"s3", "x">>

Attempt(input, total) == [run |-> "S0-RUN", entity |-> "h1", input |-> input, total |-> total]
Sound == {[started |-> 0, ended |-> 1]}
Monos == {[started |-> 1, ended |-> x] : x \in {0, 2, None}} \cup {[started |-> None, ended |-> 1]}

\* One execution and a database with every answer; clocks with every fault.
OneExecution == e1 :> Attempt(FromFile("x", "x", "x"), 2)
StorageScenarios ==
    {Watched(OneExecution, {0, 2}, Sound, {"due", "early"}, {"ok", "error", "lost", "late"})}
ClockScenarios ==
    {Watched(e1 :> Attempt(FromS3(Object), 2), {None, 0, 1, 2, 4}, Sound, {"due", "early", "error"}, {"ok"}),
     Watched(e1 :> Attempt(FromS3(Object), 3), {0, 1}, Monos, {"due", "early"}, {"ok"})}

\* Two attempts of one run, over the same and over different inputs.
Plain == FromFile("x", "x", None)
Others == {Plain, FromFile("y", "y", "y"), FromFile("x", "y", None), FromFile("x", "x", "y"),
           FromS3(None)}
InputScenarios ==
    {Watched(e1 :> Attempt(p[1], 1) @@ e2 :> [Attempt(p[2], 1) EXCEPT !.entity = "h2"],
             {0, 2}, Sound, {"due"}, {"ok"}) :
        p \in {<<Plain, i>> : i \in Others} \cup {<<FromS3(Object), FromS3(Object)>>}}

TelemetryScenarios == StorageScenarios \cup ClockScenarios \cup InputScenarios

Asked(scope, execution, run, entity) ==
    {[scope |-> scope, execution |-> execution, run |-> run, entity |-> entity,
      end |-> t, window |-> w] : t \in {3, 5}, w \in {1, 2}}

MCQueries ==
    Asked("execution", e1, None, None) \cup Asked("run", None, "S0-RUN", None)
    \cup Asked("run", None, "S0-RUN", "h1") \cup Asked("reported", None, None, None)

-----------------------------------------------------------------------------
\* Feeds: a process before the Run, one inside it and its connection.
Event(n, kind, t, guid, parent, name) ==
    [id |-> n, run |-> "R1-RUN", host |-> "h1", kind |-> kind, time |-> t, guid |-> guid,
     parent |-> parent, name |-> name, ingest |-> t + 1]

RootName == <<"root", "Root">>
LeafName == <<"leaf", "LEAF">>
Root == Event(1, "process", 1, "a", None, RootName)
Mid  == Event(2, "process", 3, "b", "a", <<"odd", "odd">>)
Leaf == Event(3, "process", 4, "c", "b", LeafName)
Net  == Event(4, "network", 5, "c", None, None)
Late == Event(5, "network", 7, "c", None, None)
Skewed == [Net EXCEPT !.time = 9, !.ingest = 5]

Sysmon == [run |-> "R1-RUN", host |-> "h1", source |-> "sysmon"]
System == [Sysmon EXCEPT !.source = "system"]

Chunk(part, n, seq, batch) == [part |-> part, id |-> n, seq |-> seq, events |-> batch]
Final(part, mark, covered) == [part |-> part, mark |-> mark, covered |-> covered]
Close(n, finals) == [id |-> n, run |-> "R1-RUN", finals |-> finals, emitted |-> 6]

Seal(x, n, boundary) ==
    [id |-> n, run |-> "R1-RUN", family |-> "wmi", policy |-> "c", close |-> x.id,
     completed |-> boundary, sealed |-> x.finals, emitted |-> 6]

\* The proof of a seal, the same one created late, one of another seal that
\* carries the trusted projection, and one whose boundary was altered.
ProofsOf(x) ==
    LET s == Seal(x, "s", 5)
        own == CloseProof(1, "h1", s, x, 7)
        other == CloseProof(3, "h1", [s EXCEPT !.completed = 4], x, 7)
        forged == [Without(other, "digest") EXCEPT !.projection = own.projection]
        issuable(at) == Issuable("h1", VerifiedBoundary(s), s, x, Receipt(x),
                                 [id |-> "c", family |-> "wmi"], at)
    IN  {CloseProof(1, "h1", s, x, at) : at \in {at \in {5, 7, 9} : issuable(at)}}
        \cup {[other EXCEPT !.projection = own.projection, !.digest = forged],
              [own EXCEPT !.boundary = 4]}

Approved(names, family) ==
    [version |-> "v0.2", policies |-> <<[id |-> "p", lineage |-> names, family |-> family]>>]

Feed(names, chunks, closes, trusted, clock, ends) ==
    [run |-> "R1-RUN", entity |-> "h1", start |-> 2, family |-> "wmi", contract |-> TRUE,
     registry |-> Approved(names, "wmi"), policy |-> "p", chunks |-> chunks, closes |-> closes,
     proofs |-> ProofsOf(trusted), clock |-> clock, ends |-> ends, crash |-> TRUE,
     trust |-> [close |-> trusted, receipt |-> Receipt(trusted), seal |-> "s",
                policy |-> [id |-> "c", family |-> "wmi"],
                projection |-> SealProjection(Seal(trusted, "s", 5), "h1")]]

Fed(f) ==
    [world |-> None, episode |-> None, watch |-> None, feed |-> f, files |-> Fresh(<<>>, None),
     runs |-> [r \in MCRuns |-> None], readers |-> {}, procs |-> {}]

ThreeNames == <<RootName, <<"mid", "Mid">>, LeafName>>

\* Chunks in every order, repeated, overlapping, conflicting, past the close or
\* of another partition; a host whose clock is ahead; closes that cover one or
\* both; a close Role2 does not trust; and a process that ends anywhere.
OrderScenarios ==
    LET first == Chunk(Sysmon, 1, 1, {Root, Mid})
        second == Chunk(Sysmon, 2, 2, {Leaf, Net})
        chunks == {first, second, Chunk(Sysmon, 3, 2, {Mid, Leaf, Net}),
                   Chunk(Sysmon, 4, 2, {[Mid EXCEPT !.time = 4], Leaf}),
                   Chunk(Sysmon, 5, 3, {Late}), Chunk(System, 6, 1, {})}
        both == Close(1, {Final(Sysmon, 6, 2)})
        one == Close(2, {Final(Sysmon, 6, 1)})
        f == Feed(ThreeNames, chunks, {both}, both, {6, 7, 8}, {5, 7})
    IN  {Fed(f), Fed([f EXCEPT !.closes = {one}, !.crash = FALSE]),
         Fed([f EXCEPT !.closes = {one, both}, !.chunks = {first, second}]),
         Fed([f EXCEPT !.chunks = {first, Chunk(Sysmon, 2, 2, {Leaf, Skewed})}]),
         Fed([f EXCEPT !.family = "other"]),
         Fed([f EXCEPT !.registry.policies = <<>>])}

\* Two partitions without a required-partition contract.
PartitionScenarios ==
    LET chunks == {Chunk(Sysmon, 1, 1, {Root, Mid, Leaf, Net}), Chunk(System, 2, 1, {Late})}
        x(finals) == Close(1, finals)
        all == {Final(Sysmon, 6, 1), Final(System, 5, 1)}
        f == [Feed(ThreeNames, chunks, {}, x(all), {7}, {1, 5, 6, 7}) EXCEPT !.contract = FALSE]
    IN  {Fed([f EXCEPT !.closes = {x(finals)}]) :
            finals \in {all, {Final(Sysmon, 6, 1)}, {Final(System, 5, 1)}}}

\* One chunk, two names: every small lineage, with a connection inside or
\* outside the Run, before or after its process, or of another process.
Parents == {Event(1, "process", t, "a", g, n) : t \in {1, 3}, g \in {None, "b"},
                n \in {RootName, <<"root", "ROOT">>, <<"", "">>, None}}
Children == {Event(2, "process", t, "b", g, n) : t \in {1, 2, 4}, g \in {None, "a", "b", "z"},
                n \in {LeafName, <<"odd", "odd">>}}
Links == {Event(3, "network", t, g, None, None) : t \in {2, 4, 7}, g \in {"b", "a", None}}

Batches ==
    {{p, c, n} : p \in Parents, c \in Children, n \in {Event(3, "network", 4, "b", None, None)}}
    \cup {{Event(1, "process", t, "a", None, RootName), Event(2, "process", 2, "b", "a", LeafName),
           n} \cup more :
             t \in {1, 2}, n \in Links,
             more \in {{}, {Event(4, "network", 5, "b", None, None)},
                       {Event(4, "process", 2, "b", "a", LeafName)},
                       {Event(4, "process", 3, "d", "b", LeafName),
                        Event(5, "network", 4, "d", None, None)}}}
    \cup {{}, {[Root EXCEPT !.guid = None], Net}}

BatchScenarios ==
    {Fed([Feed(<<RootName, LeafName>>, {Chunk(Sysmon, 1, 1, b)}, {x}, x, {7}, {6})
             EXCEPT !.contract = FALSE, !.crash = FALSE]) :
        b \in Batches, x \in {Close(1, {Final(Sysmon, 6, 1)})}}

FeedScenarios == OrderScenarios \cup PartitionScenarios \cup BatchScenarios

MCScenarios ==
    RecordScenarios \cup BrokenScenarios \cup FastScenarios \cup StoreScenarios
    \cup HandoffScenarios \cup SingleScenarios \cup ReplayScenarios \cup TelemetryScenarios
    \cup FeedScenarios

\* A normal run, and attacks with a reference before, between and after the
\* starts, a horizon inside and past the replay, and both gaps.
Plan(type, reference, horizon, gap, bound) ==
    [type |-> type, reference |-> reference, horizon |-> horizon, gap |-> gap, bound |-> bound]

MCPlans ==
    {Plan("normal", None, 0, 2, TRUE), Plan("normal", None, 0, 4, FALSE),
     Plan("attack", 2, 2, 2, TRUE), Plan("attack", 2, 0, 4, FALSE), Plan("attack", 4, 4, 2, FALSE)}

\* What callers of the store alone would hand over (StoreSpec).
MCSubmissions ==
    {[id |-> S0Id(n), scope |-> <<"S0-RUN", "h1">>, supersedes |-> s, decision |-> n,
      runtime |-> [f \in Fields |-> n], run |-> "S0-RUN", meta |-> Meta("S0-RUN", 4),
      saveRun |-> TRUE, events |-> {}, coherent |-> TRUE, basis |-> None] :
        n \in {1, 2}, s \in {None, S0Id(1)}}
=============================================================================
