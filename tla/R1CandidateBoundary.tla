------------------------- MODULE R1CandidateBoundary -------------------------
(***************************************************************************)
(* The Ground Truth inputs of a candidate-generation seal and the checks   *)
(* Role4 makes on them: the same checks bind the event-time seal and the   *)
(* RecordId position seal (r1_candidate_generation_seal.py), and the       *)
(* position handoff gathers the inputs (r1_position_handoff.py).           *)
(*                                                                         *)
(* Identifiers are model values or strings, a digest is the value it is    *)
(* the digest of, instants are naturals. An "action" stands for the        *)
(* triple of action id, step and action type, which the code compares as   *)
(* one.                                                                    *)
(***************************************************************************)
EXTENDS Naturals, Sequences, FiniteSets

(***************************************************************************)
(* A policy names, per run type, the boundary action and the image of      *)
(* every process the Run owns; loading it by (id, version) yields exactly  *)
(* one entry of the registry.                                              *)
(***************************************************************************)
LoadPolicy(registry, id, version) ==
    {p \in registry : p.id = id /\ p.version = version}

RegistryOK(registry) ==
    /\ \A p, q \in registry : p.id = q.id /\ p.version = q.version => p = q
    /\ \A p \in registry : p.terminal # {}

ExpectedBoundary(policy, type) == policy.boundary[type]

ExpectedProcesses(policy, type) == policy.owned[type]

(* _validate_scenario_boundary: unique action ids in offset order, and the *)
(* boundary is the last of them.                                           *)
ScenarioBoundaryOK(actions, expected) ==
    /\ actions # <<>>
    /\ \A i, j \in DOMAIN actions : actions[i].action = actions[j].action => i = j
    /\ \A i, j \in DOMAIN actions : i < j => actions[i].offset <= actions[j].offset
    /\ actions[Len(actions)].action = expected

(* R1CandidateBoundaryAttestation: one ProcessGuid per owned process.      *)
AttestationWellFormed(boundary) ==
    \A r, s \in DOMAIN boundary.processes :
        boundary.processes[r].guid = boundary.processes[s].guid => r = s

AttestationOfImages(boundary, expected, owned, policy) ==
    /\ boundary.action = expected
    /\ DOMAIN boundary.processes = DOMAIN owned
    /\ \A r \in DOMAIN owned : boundary.processes[r].image = owned[r]

(* _validate_boundary_attestation: exactly the Run-owned processes, none   *)
(* of them protected, all of them ended.                                   *)
AttestationOK(boundary, expected, owned, policy) ==
    /\ boundary.action = expected
    /\ \A r \in DOMAIN boundary.processes :
            boundary.processes[r].image \notin policy.protected
    /\ DOMAIN boundary.processes = DOMAIN owned
    /\ \A r \in DOMAIN owned : boundary.processes[r].image = owned[r]
    /\ \A r \in DOMAIN owned : boundary.processes[r].state \in policy.terminal

CompletionSource(family) ==
    IF family = "wmi_management" THEN "wmi_run_end" ELSE "remote_session"

(* _validate_boundary_action_completion: the recorded action, its completion *)
(* proof and the attestation are about one action of this Run, at the same   *)
(* instants, and not before the planned offset.                              *)
CompletionOK(boundary, last, row, completion, meta) ==
    /\ row.run = meta.run
    /\ row.action = last.action
    /\ completion.run = meta.run
    /\ completion.action = last.action
    /\ completion.source = CompletionSource(meta.family)
    /\ row.at = completion.started
    /\ boundary.at = completion.at
    /\ row.at >= meta.start + last.offset

WithinRun(boundary, meta) == meta.start <= boundary.at /\ boundary.at <= meta.end

(* _require_attested_lineage: the attested processes are those of the      *)
(* collection context, by ProcessGuid and image.                           *)
OwnedRoles == {"intermediate", "final_tool"}

LineageOK(boundary, context) ==
    /\ DOMAIN boundary.processes = OwnedRoles
    /\ \A r \in OwnedRoles :
        /\ r \in DOMAIN context.lineage
        /\ context.lineage[r].guid = boundary.processes[r].guid
        /\ context.lineage[r].image = boundary.processes[r].image

(* _scenario_actions: the file is the one the Run was built from and holds *)
(* the actions of its run type.                                            *)
ScenarioActions(x) == x.scenario.actions[x.meta.type]

ScenarioOK(x) ==
    /\ x.context.scenario = x.scenario
    /\ x.scenario.id = x.meta.scenario
    /\ x.scenario.family = x.meta.family
    /\ ScenarioActions(x) # <<>>

LastAction(x) == ScenarioActions(x)[Len(ScenarioActions(x))]

(* _execution_records: every row is of the Run, the last one is the        *)
(* boundary, and no other row is.                                          *)
RecordsOK(x, run, last) ==
    /\ x.rows # <<>>
    /\ \A i \in DOMAIN x.rows : x.rows[i].run = run
    /\ x.rows[Len(x.rows)].action = last.action
    /\ \A i \in DOMAIN x.rows : x.rows[i].action = last.action => i = Len(x.rows)

BoundaryRow(x) == x.rows[Len(x.rows)]

(* The R1CandidateBoundaryCompletion built from the runner's control       *)
(* message and the boundary row; it cannot end before it started.          *)
Completion(x, expected) ==
    [run |-> expected.run, action |-> LastAction(x).action,
     started |-> BoundaryRow(x).at, at |-> x.control.at, source |-> "wmi_run_end"]

(***************************************************************************)
(* build_seal_inputs: what the handoff accepts for the Run the operator    *)
(* named, given the candidate boundary of the accepted close.              *)
(***************************************************************************)
SealInputsOK(x, expected, boundaryAt) ==
    /\ x.meta.run = expected.run /\ x.meta.host = expected.host
    /\ x.meta.family = expected.family
    /\ expected.family = "wmi_management"
    /\ x.policy.hash = expected.policyHash /\ x.policy.family = expected.family
    /\ x.context.run = expected.run /\ x.context.host = expected.host
    /\ ScenarioOK(x)
    /\ RecordsOK(x, expected.run, LastAction(x))
    /\ x.control.run = expected.run /\ x.control.host = expected.host
    /\ x.control.action = LastAction(x).action
    /\ Completion(x, expected).started <= Completion(x, expected).at
    /\ x.control.at = boundaryAt
    /\ AttestationWellFormed(x.boundary)
    /\ x.boundary.action = LastAction(x).action
    /\ x.boundary.at = x.control.at
    /\ LineageOK(x.boundary, x.context)

(* The Ground Truth part of validate_r1_position_candidate_generation_seal_ *)
(* binding, shared with the event-time seal.                                *)
GroundTruthOK(boundary, x, completion) ==
    /\ ScenarioBoundaryOK(ScenarioActions(x), ExpectedBoundary(x.policy, x.meta.type))
    /\ AttestationOK(boundary, ExpectedBoundary(x.policy, x.meta.type),
                     ExpectedProcesses(x.policy, x.meta.type), x.policy)
    /\ CompletionOK(boundary, LastAction(x), BoundaryRow(x), completion, x.meta)
    /\ WithinRun(boundary, x.meta)
=============================================================================
