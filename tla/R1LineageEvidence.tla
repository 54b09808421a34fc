--------------------------- MODULE R1LineageEvidence ---------------------------
(***************************************************************************)
(* R1 Evidence of a batch of events (evidence/r1_selector.py,              *)
(* evidence/r1_multi_event.py, pipeline/r1_evidence.py and the registry of *)
(* evidence/r1_approved_lineage_policy.py).                                *)
(*                                                                         *)
(* An event is [id, run, host, kind, time, guid, parent, name, ingest];    *)
(* kind is "process" or "network" for the two sysmon raw telemetry types   *)
(* and "other" for the rest, which is how the code tells events apart.     *)
(* guid, parent and name may be None; "" is a blank name.  A batch is a    *)
(* set: the code sorts what depends on the order of a batch.  A name is    *)
(* <<stem, case>>, so that two spellings can be the same name.             *)
(***************************************************************************)
EXTENDS Integers, FiniteSets, FiniteSetsExt, SequencesExt, Values

\* None is no diagnostic of the selector or of the reconstruction, no time and no type.
ASSUME NoneIsNoDiagnostic ==
    None \notin {"empty_event_batch", "duplicate_event_id", "mixed_run_scope", "mixed_host_scope",
                 "missing_process_guid", "duplicate_process_guid", "temporal_inversion",
                 "no_terminal_candidate", "ambiguous_terminal_candidate", "truncated_lineage",
                 "lineage_cycle", "complete"}

Processes(batch) == {e \in batch : e.kind = "process"}
Networks(batch) == {e \in batch : e.kind = "network"}
IdSeq(s) == [i \in DOMAIN s |-> s[i].id]

\* The members of a sequence that are among the kept ones, in their order.
Among(s, kept) ==
    LET upto[n \in 0..Len(s)] ==
          IF n = 0 THEN <<>>
          ELSE IF s[n] \in kept THEN Append(upto[n - 1], s[n]) ELSE upto[n - 1]
    IN  upto[Len(s)]

\* The answer of the first case <<condition, answer>> that applies, or None.
FirstMatch(cases) ==
    LET applies == {i \in DOMAIN cases : cases[i][1]}
    IN  IF applies = {} THEN None ELSE cases[Min(applies)][2]

Shared(batch, f) == \E a, b \in batch : a # b /\ a[f] = b[f]
Mixed(batch, f) == \E a, b \in batch : a[f] # b[f]

-----------------------------------------------------------------------------
(***************************************************************************)
(* The selector                                                            *)
(***************************************************************************)
NetworksOf(p, batch) == {n \in Networks(batch) : n.guid = p.guid}

Inverted(p, batch) == \E n \in NetworksOf(p, batch) : n.time < p.time

InRun(batch, start) == {p \in Processes(batch) : p.time >= start}

TerminalCandidates(batch, start) ==
    {p \in InRun(batch, start) : NetworksOf(p, batch) # {} /\ ~Inverted(p, batch)}

\* One step of the walk to the parent; w is [line, why], line terminal first.
StepUp(w, batch) ==
    LET child == Last(w.line)
        parents == {p \in Processes(batch) : p.guid = child.parent}
        why == FirstMatch(<<
            <<child.parent = None, "truncated_lineage">>,
            <<\E i \in DOMAIN w.line : w.line[i].guid = child.parent, "lineage_cycle">>,
            <<parents = {}, "truncated_lineage">>,
            <<\E p \in parents : child.time < p.time, "temporal_inversion">>>>)
    IN  IF why # None THEN [w EXCEPT !.why = why]
        ELSE [w EXCEPT !.line = Append(@, CHOOSE p \in parents : TRUE)]

LineageToBoundary(terminal, batch, count) ==
    LET walk[n \in 1..count] ==
          IF n = 1 THEN [line |-> <<terminal>>, why |-> None]
          ELSE IF walk[n - 1].why # None THEN walk[n - 1]
          ELSE StepUp(walk[n - 1], batch)
    IN  walk[count]

NoSelection(why) == [why |-> why, anchor |-> None, terminal |-> None, context |-> <<>>]

BatchFailure(batch, start) ==
    FirstMatch(<<
        <<batch = {}, "empty_event_batch">>,
        <<Shared(batch, "id"), "duplicate_event_id">>,
        <<Mixed(batch, "run"), "mixed_run_scope">>,
        <<Mixed(batch, "host"), "mixed_host_scope">>,
        <<\E e \in Processes(batch) \cup Networks(batch) : e.guid = None, "missing_process_guid">>,
        <<Shared(Processes(batch), "guid"), "duplicate_process_guid">>,
        <<\E p \in InRun(batch, start) : Inverted(p, batch), "temporal_inversion">>,
        <<TerminalCandidates(batch, start) = {}, "no_terminal_candidate">>,
        <<Cardinality(TerminalCandidates(batch, start)) # 1, "ambiguous_terminal_candidate">>>>)

SelectionOf(w, start) ==
    IF w.why # None THEN NoSelection(w.why)
    ELSE [why |-> None, anchor |-> Last(w.line).id, terminal |-> w.line[1].id,
          context |-> IdSeq(Among(Reverse(w.line), {e \in Range(w.line) : e.time < start}))]

SelectLineage(batch, count, start) ==
    IF BatchFailure(batch, start) # None THEN NoSelection(BatchFailure(batch, start))
    ELSE LET terminal == CHOOSE p \in TerminalCandidates(batch, start) : TRUE
         IN  SelectionOf(LineageToBoundary(terminal, batch, count), start)

-----------------------------------------------------------------------------
(***************************************************************************)
(* The extractor, which is given the ends of a lineage and checks them     *)
(* again                                                                   *)
(***************************************************************************)
\* R1LineageInput
LineageInput(selection, policy) ==
    [anchor |-> selection.anchor, terminal |-> selection.terminal,
     context |-> selection.context, policy |-> policy]

LineageInputValid(in) ==
    /\ IsInjective(in.context)
    /\ in.context # <<>> => in.context[1] = in.anchor
    /\ \A i \in DOMAIN in.context : in.context[i] # in.terminal

\* The identity is a uuid5 over type, run, the set of events and the policy.
EvidenceOf(type, terminal, events, policy) ==
    [id |-> <<type, terminal.run, {e.id : e \in Range(events)}, policy>>,
     type |-> type, run |-> terminal.run, entity |-> terminal.host,
     time |-> Max({e.time : e \in Range(events)}), events |-> IdSeq(events), policy |-> policy]

Eligible(e, terminal) ==
    /\ e.kind = "process" /\ e.guid # None
    /\ e.run = terminal.run /\ e.host = terminal.host

FollowOns(batch, terminal) ==
    {EvidenceOf("follow_on", terminal, <<terminal, n>>, None) :
        n \in {n \in NetworksOf(terminal, batch) :
                  /\ Eligible(terminal, terminal)
                  /\ n.run = terminal.run /\ n.host = terminal.host
                  /\ n.time >= terminal.time}}

\* One turn of the reconstruction; w is [line, status], line terminal first.
Reconstruct(w, indexed, anchor) ==
    LET current == Last(w.line)
        same(g) == {e \in indexed : e.guid = g}
        parents == same(current.parent)
        status == FirstMatch(<<
            <<Cardinality(same(current.guid)) > 1, "duplicate_process_guid">>,
            <<current.guid = anchor.guid, "complete">>,
            <<current.parent = None, "truncated_lineage">>,
            <<\E i \in DOMAIN w.line : w.line[i].guid = current.parent, "lineage_cycle">>,
            <<Cardinality(parents) > 1, "duplicate_process_guid">>,
            <<parents = {} \/ \E p \in parents : current.time < p.time, "truncated_lineage">>>>)
    IN  IF status # None THEN [w EXCEPT !.status = status]
        ELSE [w EXCEPT !.line = Append(@, CHOOSE p \in parents : TRUE)]

ReconstructLineage(batch, anchor, terminal) ==
    LET indexed == {e \in batch : Eligible(e, terminal)}
        turn[n \in 0..(Cardinality(indexed) + 1)] ==
          IF n = 0 THEN [line |-> <<terminal>>, status |-> None]
          ELSE IF turn[n - 1].status # None THEN turn[n - 1]
          ELSE Reconstruct(turn[n - 1], indexed, anchor)
    IN  [turn[Cardinality(indexed) + 1] EXCEPT !.line = Reverse(@)]

Casefold(name) == name[1]

Named(line) == \A i \in DOMAIN line : line[i].name # None /\ Casefold(line[i].name) # ""

Extraction(evidences, diagnostics) == [evidences |-> evidences, diagnostics |-> diagnostics]

\* What a correlated lineage says: its Evidence if its names are not approved.
DeviationOf(correlated, terminal, in) ==
    LET line == correlated.line
        kept == Among(line, {e \in Range(line) : e.id \notin Range(in.context)})
        observed == [i \in DOMAIN line |-> Casefold(line[i].name)]
        approved == [i \in DOMAIN in.policy.lineage |-> Casefold(in.policy.lineage[i])]
    IN  IF correlated.status # "complete" THEN Extraction({}, {correlated.status})
        ELSE IF ~Named(line) THEN Extraction({}, {"missing_or_blank_process_name"})
        ELSE IF observed = approved THEN Extraction({}, {})
        ELSE Extraction({EvidenceOf("deviation", terminal, kept, in.policy.id)}, {})

Deviation(batch, anchor, terminal, in) ==
    IF Eligible(anchor, terminal) /\ Eligible(terminal, terminal)
      THEN DeviationOf(ReconstructLineage(batch, anchor, terminal), terminal, in)
    ELSE IF \E e \in {anchor, terminal} : e.kind = "process" /\ e.guid = None
      THEN Extraction({}, {"missing_process_guid"})
    ELSE Extraction({}, {})

EventNamed(batch, id) == CHOOSE e \in batch : e.id = id

\* The extraction raises when an id is used twice, an end is not in the batch or
\* the context is not a proper part of the reconstructed lineage.
ExtractionRaises(batch, in) ==
    \/ Shared(batch, "id")
    \/ {in.anchor, in.terminal} \ {e.id : e \in batch} # {}
    \/ LET terminal == EventNamed(batch, in.terminal)
           r == ReconstructLineage(batch, EventNamed(batch, in.anchor), terminal)
       IN  /\ r.status = "complete" /\ Named(r.line)
           /\ ~(Range(in.context) \subseteq Range(IdSeq(r.line)) \ {in.terminal})

Extract(batch, in) ==
    LET terminal == EventNamed(batch, in.terminal)
    IN  [Deviation(batch, EventNamed(batch, in.anchor), terminal, in)
            EXCEPT !.evidences = @ \cup FollowOns(batch, terminal)]

\* run_r1_evidence_pipeline_with_selector: [selection, input, extraction]
ExtractSelected(selection, batch, policy) ==
    IF selection.why # None
      THEN [selection |-> selection, input |-> None, extraction |-> Extraction({}, {})]
      ELSE [selection |-> selection, input |-> LineageInput(selection, policy),
            extraction |-> Extract(batch, LineageInput(selection, policy))]

SelectAndExtract(batch, policy, start) ==
    ExtractSelected(SelectLineage(batch, Len(policy.lineage), start), batch, policy)

-----------------------------------------------------------------------------
(***************************************************************************)
(* The policy registry.  A registry is [version, policies]; a policy is    *)
(* [id, lineage, family], family None in a v0.1 registry.                  *)
(***************************************************************************)
RegistryLoads(registry) ==
    /\ registry.policies # <<>>
    /\ \A i, j \in DOMAIN registry.policies :
          i # j => registry.policies[i].id # registry.policies[j].id
    /\ \A i \in DOMAIN registry.policies :
          /\ registry.policies[i].lineage # <<>>
          /\ registry.version = "v0.1" <=> registry.policies[i].family = None

PolicyFound(registry, id) ==
    RegistryLoads(registry) /\ \E i \in DOMAIN registry.policies : registry.policies[i].id = id

ApprovedPolicy(registry, id) ==
    CHOOSE p \in Range(registry.policies) : p.id = id

BoundTo(policy, family) == policy.family # None /\ policy.family = family

-----------------------------------------------------------------------------
(***************************************************************************)
(* The reference: what R1 Evidence is, without a walk                      *)
(***************************************************************************)
\* The chains of parents that end in a process of the Run that connected.
Chains(batch, count, start) ==
    {c \in [1..count -> Processes(batch)] :
        /\ \A i \in 1..(count - 1) : c[i].guid = c[i + 1].parent /\ c[i].time <= c[i + 1].time
        /\ \A i, j \in 1..count : i # j => c[i].guid # c[j].guid
        /\ c[count].time >= start
        /\ \E n \in Networks(batch) : n.guid = c[count].guid}

\* A batch is clear when its processes are told apart, nothing precedes its
\* own process, and one process of the Run connected, at the end of a chain.
Clear(batch, count, start) ==
    /\ \A e \in Processes(batch) \cup Networks(batch) : e.guid # None
    /\ \A p, q \in Processes(batch) : p.guid = q.guid => p = q
    /\ \A n \in Networks(batch), p \in Processes(batch) :
          n.guid = p.guid /\ p.time >= start => n.time >= p.time
    /\ Cardinality({p \in Processes(batch) : p.time >= start
                       /\ \E n \in Networks(batch) : n.guid = p.guid}) = 1
    /\ Chains(batch, count, start) # {}
    /\ \A c \in Chains(batch, count, start), i \in 1..count : c[i].name \notin {None, <<"", "">>}

\* What is compared of Evidence.
Shape(evidences) ==
    {[type |-> e.type, time |-> e.time, events |-> Range(e.events)] : e \in evidences}

\* The Evidence of a clear batch: every connection of the terminal, and the
\* chain's own part of the Run if one of its names is not the approved one.
EvidenceExpected(batch, policy, start) ==
    LET count == Len(policy.lineage)
        c == CHOOSE c \in Chains(batch, count, start) : TRUE
        own == {i \in 1..count : c[i].time >= start}
    IN  {[type |-> "follow_on", time |-> n.time, events |-> {c[count].id, n.id}] :
            n \in {n \in Networks(batch) : n.guid = c[count].guid}}
        \cup {[type |-> "deviation", time |-> c[count].time, events |-> {c[i].id : i \in own}] :
                 x \in {x \in 1..count : c[x].name[1] # policy.lineage[x][1]}}
=============================================================================
