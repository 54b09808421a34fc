-------------------------- MODULE R1PositionHandoff --------------------------
(***************************************************************************)
(* Role4's handoff of an accepted position close (r1_position_handoff.py): *)
(* the seal over the close and the Run's Ground Truth boundary, Role4's    *)
(* record of the seal's Role2-safe projection, and the proof for Role2.    *)
(*                                                                         *)
(* The handoff is a command an operator may run again after it stopped,    *)
(* and may run twice at once.  Every output is created exclusively (open   *)
(* mode "x") and written in place, so a crash, and a reader in between,    *)
(* meets a torn file; an output that exists is read and checked, never     *)
(* replaced.  Any refusal ends the command (Stop).                         *)
(***************************************************************************)
EXTENDS R1PositionFinality, R1CandidateBoundary

CONSTANTS
    Commands,      \* invocations that may run at the same time
    HandoffInputs, \* the Ground Truth files an invocation may find
    Expected,      \* what the operator states about the Run
    TerminalStates,\* process states that mean the process has ended
    LastActionOf,  \* the action each run type really ends with
    Torn           \* a file that holds a prefix of its message

(* The policy digest the operator states is that of the policy with the    *)
(* run types' last actions and with these terminal states.                 *)
ASSUME PolicyAssumption ==
    \A x \in HandoffInputs : x.policy.hash = Expected.policyHash =>
        x.policy.boundary = LastActionOf /\ x.policy.terminal \subseteq TerminalStates

VARIABLES
    out,           \* the three output files: None, Torn or their message
    stage,         \* where each command stands
    mem            \* what each command holds in memory

handoffVars == <<out, stage, mem>>
vars == <<finalityVars, handoffVars>>

Files == {"seal", "record", "proof"}

At(f, step) == [file |-> f, step |-> step]
Idle == At("none", "idle")

(* The stage after file f is settled. *)
After(f) == CASE f = "seal" -> At("record", "look") [] f = "record" -> At("proof", "look")
              [] f = "proof" -> Idle

-----------------------------------------------------------------------------
(* load_accepted_position_close: the export's receipt binds its close, and *)
(* the Run's six files are the ones the close was issued from.             *)
SourceFiles ==
    [request |-> request, ack |-> freezeAck, finalized |-> finalized, recon |-> recon,
     freezeGen |-> freezeGen, exportGen |-> exportGen]

AcceptedClose(c, receipt) ==
    /\ ReceiptBinds(receipt, c)
    /\ c.source = SourceFiles
    /\ request.boundary = c.boundary
    /\ freezeAck.lower = c.lower /\ freezeAck.upper = c.upper
    /\ freezeAck.covered = c.covered /\ freezeAck.count = c.count

Loaded(x, c, r) ==
    [inputs |-> x, close |-> c, receipt |-> r, seal |-> None, record |-> None, proof |-> None]

StartFromOutbox(p) ==
    /\ stage[p] = Idle /\ close # None /\ closeRow # None
    /\ \E x \in HandoffInputs :
        /\ SealInputsOK(x, Expected, close.boundary)
        /\ mem' = [mem EXCEPT ![p] = Loaded(x, close, closeRow)]
    /\ stage' = [stage EXCEPT ![p] = At("seal", "look")]
    /\ UNCHANGED <<finalityVars, out>>

(* Steps 1 and 2 of issue_r1_position_handoff. *)
Start(p) ==
    /\ stage[p] = Idle /\ exported # None
    /\ AcceptedClose(exported.close, exported.receipt)
    /\ \E x \in HandoffInputs :
        /\ SealInputsOK(x, Expected, exported.close.boundary)
        /\ mem' = [mem EXCEPT ![p] = Loaded(x, exported.close, exported.receipt)]
    /\ stage' = [stage EXCEPT ![p] = At("seal", "look")]
    /\ UNCHANGED <<finalityVars, out>>

-----------------------------------------------------------------------------
(* The seal. *)
Seal(m, t) ==
    [close |-> m.close, receipt |-> m.receipt, run |-> m.inputs.meta.run,
     family |-> m.inputs.policy.family, type |-> m.inputs.meta.type,
     policy |-> m.inputs.policy.hash, boundary |-> m.inputs.boundary, at |-> t]

(* R1PositionCandidateGenerationSeal *)
SealWellFormed(s) == s.at >= s.boundary.at /\ s.at >= s.receipt.at

(* _verify_seal and validate_r1_position_candidate_generation_seal_binding *)
SealVerified(s, m) ==
    /\ s.boundary = m.inputs.boundary
    /\ SealWellFormed(s)
    /\ ReceiptBinds(m.receipt, m.close)
    /\ m.inputs.meta.run = s.run /\ m.inputs.meta.host = Expected.host
    /\ m.inputs.meta.family = m.inputs.policy.family /\ s.family = m.inputs.policy.family
    /\ s.type = m.inputs.meta.type
    /\ s.close = m.close /\ s.receipt = m.receipt
    /\ s.policy = m.inputs.policy.hash
    /\ GroundTruthOK(s.boundary, m.inputs, Completion(m.inputs, Expected))
    /\ s.boundary.at = m.close.boundary
    /\ s.at >= m.receipt.at

(* What the seal shows Role2: nothing of the run type or of the processes. *)
Projection(s) ==
    [run |-> s.run, family |-> s.family, policy |-> s.policy, close |-> s.close,
     receipt |-> s.receipt, boundary |-> s.boundary.at, at |-> s.at]

(* Role4's record of the projection. *)
Record(s, t) == [seal |-> s, projection |-> Projection(s), at |-> t]

(* _verify_projection_record, and _validate_trusted_projection_record. *)
RecordVerified(r, s) == r.seal = s /\ r.projection = Projection(s) /\ r.at >= s.at

(* The proof. *)
Proof(s, r, t) ==
    [close |-> s.close, receipt |-> s.receipt, run |-> s.run, family |-> s.family,
     policy |-> s.policy, projection |-> r.projection, record |-> r,
     boundary |-> s.boundary.at, sealAt |-> s.at, at |-> t]

ProofWellFormed(q) ==
    q.sealAt >= q.receipt.at /\ q.sealAt >= q.boundary /\ q.at >= q.sealAt

(* _validate_source_binding *)
SourceBinding(s, m) ==
    /\ ReceiptBinds(m.receipt, m.close)
    /\ s.close = m.close /\ s.receipt = m.receipt
    /\ s.family = m.inputs.policy.family /\ s.policy = m.inputs.policy.hash
    /\ s.boundary.at = m.close.boundary

(* The projection Role2 rebuilds from the fields of the proof. *)
ProofProjection(q) ==
    [run |-> q.run, family |-> q.family, policy |-> q.policy, close |-> q.close,
     receipt |-> q.receipt, boundary |-> q.boundary, at |-> q.sealAt]

(* validate_r1_role2_verified_position_close_proof *)
ProofValidated(q, m, r) ==
    /\ ProofWellFormed(q)
    /\ ReceiptBinds(m.receipt, m.close)
    /\ q.run = Expected.run /\ q.family = Expected.family
    /\ q.policy = m.inputs.policy.hash
    /\ q.projection = r.projection /\ q.record = r
    /\ ProofProjection(q) = r.projection
    /\ q.close = m.close /\ q.receipt = m.receipt
    /\ q.boundary = m.close.boundary

-----------------------------------------------------------------------------
(* What an output file must hold, given what the command holds. *)
Verified(f, message, m) ==
    CASE f = "seal"   -> SealVerified(message, m)
      [] f = "record" -> RecordVerified(message, m.seal)
      [] f = "proof"  -> ProofValidated(message, m, m.record)

Issued(f, m, t) ==
    CASE f = "seal"   -> Seal(m, t)
      [] f = "record" -> Record(m.seal, t)
      [] f = "proof"  -> Proof(m.seal, m.record, t)

MayIssue(f, m) == f = "proof" => SourceBinding(m.seal, m)

(* The command keeps the message, and forgets all of them when it ends. *)
Keep(m, f, message) == IF f = "proof" THEN None ELSE [m EXCEPT ![f] = message]

(* An output exists: it is loaded and verified. *)
Reuse(p, f) ==
    /\ stage[p] = At(f, "look") /\ out[f] \notin {None, Torn}
    /\ Verified(f, out[f], mem[p])
    /\ mem' = [mem EXCEPT ![p] = Keep(@, f, out[f])]
    /\ stage' = [stage EXCEPT ![p] = After(f)]
    /\ UNCHANGED <<finalityVars, out>>

(* It does not: the message is issued at some instant and verified. *)
Issue(p, f) ==
    /\ stage[p] = At(f, "look") /\ out[f] = None
    /\ MayIssue(f, mem[p])
    /\ \E t \in Instants :
        /\ Verified(f, Issued(f, mem[p], t), mem[p])
        /\ mem' = [mem EXCEPT ![p][f] = Issued(f, mem[p], t)]
    /\ stage' = [stage EXCEPT ![p] = At(f, "create")]
    /\ UNCHANGED <<finalityVars, out>>

CreateAnyway(p, f) ==
    /\ stage[p] = At(f, "create")
    /\ out' = [out EXCEPT ![f] = Torn]
    /\ stage' = [stage EXCEPT ![p] = At(f, "fill")]
    /\ UNCHANGED <<finalityVars, mem>>

(* Exclusive create: it fails when the other command was faster. *)
Create(p, f) ==
    /\ stage[p] = At(f, "create") /\ out[f] = None
    /\ out' = [out EXCEPT ![f] = Torn]
    /\ stage' = [stage EXCEPT ![p] = At(f, "fill")]
    /\ UNCHANGED <<finalityVars, mem>>

Fill(p, f) ==
    /\ stage[p] = At(f, "fill")
    /\ out' = [out EXCEPT ![f] = mem[p][f]]
    /\ mem' = [mem EXCEPT ![p] = Keep(@, f, mem[p][f])]
    /\ stage' = [stage EXCEPT ![p] = After(f)]
    /\ UNCHANGED finalityVars

(* A check refuses, an output is torn, or the process is killed. *)
Stop(p) ==
    /\ stage[p] # Idle
    /\ stage' = [stage EXCEPT ![p] = Idle]
    /\ mem' = [mem EXCEPT ![p] = None]
    /\ UNCHANGED <<finalityVars, out>>

-----------------------------------------------------------------------------
Init ==
    /\ FinalityInit
    /\ out = [f \in Files |-> None]
    /\ stage = [p \in Commands |-> Idle]
    /\ mem = [p \in Commands |-> None]

HandoffNext ==
    \E p \in Commands :
        \/ Start(p) \/ Stop(p)
        \/ \E f \in Files : Reuse(p, f) \/ Issue(p, f) \/ Create(p, f) \/ Fill(p, f)

Next == (FinalityNext /\ UNCHANGED handoffVars) \/ HandoffNext

Spec == Init /\ [][Next]_vars

-----------------------------------------------------------------------------
Intact(f) == out[f] \notin {None, Torn}

(* Along the chain of files that ends in a proof the stamps never run      *)
(* backwards, although they come from four clocks: candidate boundary,     *)
(* freeze request, freeze ack, finalization, reconciliation, close, ledger *)
(* acceptance, seal, and the record and the proof of that seal.            *)
StampsOrdered ==
    Intact("proof") =>
        LET q == out["proof"]  s == q.close.source IN
        /\ q.boundary <= s.request.at /\ s.request.at <= s.freezeGen.at
        /\ s.freezeGen.at <= s.ack.at /\ s.ack.at <= s.exportGen.at
        /\ s.exportGen.at <= s.finalized.at /\ s.finalized.at <= s.recon.at
        /\ s.recon.at <= q.close.at /\ q.close.at <= q.receipt.at
        /\ q.receipt.at <= q.sealAt /\ q.sealAt <= q.record.at /\ q.sealAt <= q.at

(* However many handoffs ran, were killed and ran again, the three files   *)
(* on disk are about one another: a proof never names a seal or a record   *)
(* that is not the one Role4 kept.                                         *)
OutputsAgree ==
    /\ Intact("record") => Intact("seal") /\ out["record"].seal = out["seal"]
    /\ Intact("proof") =>
        /\ Intact("record") /\ out["proof"].record = out["record"]
        /\ ProofProjection(out["proof"]) = Projection(out["seal"])

(* The boundary a proof rests on is the end of the Run's last scenario     *)
(* action, attested with every process the Run owns ended: Role2 sees only *)
(* its instant, and has to trust that Role4 sealed nothing else.           *)
BoundaryIsGroundTruth ==
    Intact("proof") =>
        LET b == out["seal"].boundary IN
        /\ b.at = request.boundary
        /\ DOMAIN b.processes = OwnedRoles
        /\ \A r \in OwnedRoles : b.processes[r].state \in TerminalStates
        /\ b.action = LastActionOf[out["seal"].type]

(* The files implement the promise. *)
ClosedIds(x) == IF x \in {None, Torn} THEN None ELSE x.close.ids

Promise == INSTANCE R1FinalityPromise WITH
    delivered <- Rids(AllOf(acks)),
    final     <- ClosedIds(exported),
    proved    <- ClosedIds(out["proof"])

(* Position finality implements the promise of R1FinalityPromise: what is  *)
(* published as final was acknowledged before, it never changes, and the   *)
(* one proof names it.                                                     *)
KeepsPromise == Promise!PromiseSpec
=============================================================================
