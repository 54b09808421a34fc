------------------------- MODULE R1IncrementalEvidence -------------------------
(***************************************************************************)
(* What a Role2 process makes of the chunks, the close and the proof of a  *)
(* Run (pipeline/r1_incremental_evidence.py and                            *)
(* r1_incremental_checkpoint.py, as r1_incremental_consumer.py calls       *)
(* them).  R1Consumer is about the files and processes around this state;  *)
(* here is what the state holds, what finalization computes and what       *)
(* recovery computes again.                                                *)
(*                                                                         *)
(* A call that raises leaves the state as it was, and is not a step,       *)
(* unless it fails the state closed first.  The state is written to the    *)
(* checkpoint after every call; the process may end anywhere.  The         *)
(* consumer offers chunks in sequence, the state takes them in any order,  *)
(* and so does this module.  Role3 is the ledger: it may admit a chunk     *)
(* before Role2 offers it, and a chunk that Role2 offers first is admitted *)
(* by Role2's own transaction.                                             *)
(***************************************************************************)
EXTENDS R1EvidenceArtifacts, R1CloseProof

\* None is no status, mode or reason of a state.
ASSUME NoneIsNoOutcome ==
    None \notin {"accumulating", "provisional", "finalized", "failed_closed",
                 "verified_close_proof", "authoritative_run_end_fallback",
                 "close", "coverage", "proof", "clock", "future", "unclear"}

\* What validation leaves of a feed: a chunk has a number from one, its own ids, and
\* events of its own run and host (R1EventChunk); times are numbers; there are finitely
\* many chunks and events, and a blank name is blank in one way.
FeedTyped(f) ==
    /\ f.start \in Int /\ f.clock \cup f.ends \subseteq Int
    /\ None \notin f.closes \cup f.proofs
    /\ \A i \in DOMAIN f.registry.policies :
          LET lineage == f.registry.policies[i].lineage
          IN  lineage \in Seq(ToSet(lineage))
    /\ IsFiniteSet(f.chunks)
    /\ \A c \in f.chunks :
          /\ c.seq \in Nat \ {0} /\ IsFiniteSet(c.events)
          /\ \A e \in c.events :
                /\ e.run = c.part.run /\ e.host = c.part.host /\ {e.time, e.ingest} \subseteq Int
                /\ e.name # None /\ e.name[1] = "" => e.name = <<"", "">>
          /\ \A e, x \in c.events : e.id = x.id => e = x
    /\ \A x \in f.closes : \A g \in x.finals : g.covered \in Nat
    /\ \A p \in f.proofs : {p.boundary, p.verifiedAt, p.createdAt} \subseteq Int
    /\ f.trust.close.emitted \in Int

VARIABLES feed,         \* the Run: [run, entity, start, family, contract, registry,
                        \* policy, chunks, closes, proofs, trust, clock, ends, crash], or None
          ledger,       \* Role3: [chunks, close]
          role2,        \* the state in memory, or None
          uncommitted,  \* chunks of Role2's open transaction
          todo,         \* what the call in progress still does: "", "write",
                        \* "commit" or "summary"
          checkpoint,   \* the state the checkpoint file holds, or None
          artifacts     \* [evidence, summary] in the state root

feedVars == <<ledger, role2, uncommitted, todo, checkpoint, artifacts>>

NoFiles == [evidence |-> None, summary |-> None]

FeedInit ==
    /\ ledger = [chunks |-> {}, close |-> None]
    /\ role2 = None /\ uncommitted = {} /\ todo = "" /\ checkpoint = None
    /\ artifacts = NoFiles

-----------------------------------------------------------------------------
(***************************************************************************)
(* A state is [chunks, closed, proof, receipt, validated, snap], snap      *)
(* being [status, mode, boundary, available, evidences, input, why].       *)
(***************************************************************************)
ThePolicy == ApprovedPolicy(feed.registry, feed.policy)

IsSelectorPartition(part) ==
    part = [run |-> feed.run, host |-> feed.entity, source |-> "sysmon"]

EventsOf(chunks) == UNION {c.events : c \in {c \in chunks : IsSelectorPartition(c.part)}}

Snapshot(status, mode, boundary, available, evidences, input, why) ==
    [status |-> status, mode |-> mode, boundary |-> boundary, available |-> available,
     evidences |-> evidences, input |-> input, why |-> why]

ProvisionalSnapshot(chunks) ==
    LET why == SelectLineage(EventsOf(chunks), Len(ThePolicy.lineage), feed.start).why
    IN  Snapshot(IF why = None THEN "provisional" ELSE "accumulating",
                 None, None, None, {}, None, None)

Holding(chunks, closed) ==
    [chunks |-> chunks, closed |-> closed, proof |-> None, receipt |-> None,
     validated |-> None, snap |-> ProvisionalSnapshot(chunks)]

Terminal(s) == s.snap.status \in {"finalized", "failed_closed"}

FailClosed(s, why) ==
    [s EXCEPT !.snap = Snapshot("failed_closed",
        IF feed.contract THEN "verified_close_proof" ELSE s.snap.mode, None, None, {}, None, why)]

\* _chunk_coverage_diagnostics is empty; without a contract every partition
\* counts, with one the selector's alone.
ChunksCovered(s) ==
    LET required(part) == feed.contract => IsSelectorPartition(part)
    IN  /\ \A c \in {c \in s.chunks : required(c.part)} :
              \E f \in s.closed.finals : f.part = c.part /\ c.seq <= f.covered
        /\ \A f \in {f \in s.closed.finals : required(f.part)} : \A n \in 1..f.covered :
              \E c \in s.chunks : c.part = f.part /\ c.seq = n

WatermarksCover(s, boundary) ==
    LET own == {f \in s.closed.finals : IsSelectorPartition(f.part)}
    IN  own # {} /\ \A f \in own : f.mark >= boundary

LatestIngest(s) ==
    LET ingests == {e.ingest : e \in EventsOf(s.chunks)}
    IN  IF ingests = {} THEN feed.start ELSE Max(ingests)

\* _finalize; a batch that cannot be selected or extracted fails closed, and so
\* does a clock that runs back and Evidence of the future.
FinalizeWith(r, s, mode, boundary, available, ready) ==
    LET at == IF ready = None THEN available ELSE ready
        evidences == r.extraction.evidences
        end(status, t, kept, why) ==
          [s EXCEPT !.snap = Snapshot(status, mode, boundary, t, kept, r.input, why)]
    IN  IF r.selection.why # None \/ r.extraction.diagnostics # {}
          THEN end("failed_closed", available, {}, "unclear")
        ELSE IF at < available THEN FailClosed(s, "clock")
        ELSE IF \E e \in evidences : e.time > at THEN end("failed_closed", at, {}, "future")
        ELSE end("finalized", at, evidences, None)

Finalize(s, mode, boundary, available, cutoff, ready) ==
    LET batch == {e \in EventsOf(s.chunks) : cutoff # None => e.time <= cutoff}
    IN  FinalizeWith(SelectAndExtract(batch, ThePolicy, feed.start),
                     s, mode, boundary, available, ready)

-----------------------------------------------------------------------------
(***************************************************************************)
(* Calls: what each makes of a state                                       *)
(***************************************************************************)
Trust == feed.trust

ProofAcceptable(s, p, at) ==
    LET own == {f.part : f \in {f \in p.sealed :
                                  f.part.run = feed.run /\ f.part.host = feed.entity}}
    IN  /\ own # {} /\ \A part \in own : IsSelectorPartition(part)
        /\ \A part \in own : CloseProofAccepted(p, Trust, feed.run, feed.family, part, at)
        /\ WatermarksCover(s, p.boundary)
        /\ at = Max({Trust.close.emitted, p.boundary, p.verifiedAt, p.createdAt, at,
                     LatestIngest(s)})

\* accept_verified_close_proof over a state that has its close
AfterProof(s, p, at, ready) ==
    IF s.closed # Trust.close THEN FailClosed(s, "close")
    ELSE IF ~ChunksCovered(s) THEN FailClosed(s, "coverage")
    ELSE IF ~ProofAcceptable(s, p, at) THEN FailClosed(s, "proof")
    ELSE Finalize([s EXCEPT !.proof = p, !.receipt = Trust.receipt, !.validated = at],
                  "verified_close_proof", p.boundary, at, None, ready)

\* finalize_at_run_end
AfterRunEnd(s, end) ==
    IF ~ChunksCovered(s)
      THEN [s EXCEPT !.snap = Snapshot("failed_closed", "authoritative_run_end_fallback",
                                       end, end, {}, None, "coverage")]
      ELSE Finalize(s, "authoritative_run_end_fallback", end, end, end, None)

\* The ledger's answers: a duplicate, or a chunk that conflicts with none.
LedgerAdmits(c) ==
    \/ c \in ledger.chunks
    \/ /\ ledger.close = None
       /\ \A d \in ledger.chunks : d.part = c.part =>
             /\ d.id # c.id /\ d.seq # c.seq
             /\ \A e \in c.events, x \in d.events : e.id = x.id => e = x

\* An event that only Role3 knows: the chunk is not a replay of itself.
KnownToLedgerOnly(s, c) ==
    /\ c \notin ledger.chunks
    /\ \E e \in c.events :
          /\ \E d \in ledger.chunks : d.part = c.part /\ \E x \in d.events : x.id = e.id
          /\ \A d \in s.chunks : d.part = c.part => \A x \in d.events : x.id # e.id

ChunkFits(s, c) ==
    /\ c.part.run = feed.run
    /\ feed.contract => IsSelectorPartition(c.part)
    /\ ~Terminal(s)
    /\ s.closed # None => \E f \in s.closed.finals : f.part = c.part /\ c.seq <= f.covered
    /\ \A d \in s.chunks : d.part = c.part =>
          /\ d.id # c.id /\ d.seq # c.seq
          /\ \A e \in c.events, x \in d.events : e.id = x.id => e = x
    /\ LedgerAdmits(c) /\ ~KnownToLedgerOnly(s, c)

CloseFits(x) ==
    LET own == {f \in x.finals : f.part.run = feed.run /\ f.part.host = feed.entity}
    IN  /\ x.run = feed.run
        /\ IF feed.contract
             THEN own # {} /\ \A f \in own : IsSelectorPartition(f.part)
             ELSE \E f \in x.finals : IsSelectorPartition(f.part)

-----------------------------------------------------------------------------
(***************************************************************************)
(* The checkpoint                                                          *)
(***************************************************************************)
Bit(b) == IF b THEN 1 ELSE 0

CheckpointGeneration(s) ==
    Cardinality(s.chunks) + Bit(s.closed # None) + Bit(Terminal(s))

MayReplace(s) ==
    checkpoint # None =>
        CheckpointGeneration(s) > CheckpointGeneration(checkpoint) \/ s = checkpoint

\* R1IncrementalEvidenceCheckpoint.validate_contract
CheckpointContract(s) ==
    /\ \A c, d \in s.chunks : c.part = d.part /\ c.id = d.id => c = d
    /\ \A c \in s.chunks : c.part.run = feed.run
    /\ s.closed # None => s.closed.run = feed.run
    /\ s.receipt # None => s.closed # None
    /\ s.proof # None \/ (s.snap.status = "finalized" /\ s.snap.mode = "verified_close_proof") =>
          None \notin {s.closed, s.receipt, s.proof, s.validated}
    /\ s.snap.status = "finalized" => None \notin {s.snap.mode, s.snap.boundary, s.snap.available}
    /\ ~Terminal(s) => s.snap.evidences = {}

\* Mutant of RecoveryClock: the recovered state takes its clock from the system.
ClockOfSystem(c, now) == now

\* The clock of the recovered state: the availability the checkpoint recorded.
RecoveryClock(c, now) ==
    IF c.snap.mode = "verified_close_proof" /\ c.snap.available # None
      THEN c.snap.available ELSE now

\* restore_from_checkpoint: the accepted inputs again, then the same end.
Replayed(c, now) ==
    LET s == Holding(c.chunks, c.closed)
    IN  IF c.snap.mode = "authoritative_run_end_fallback" THEN AfterRunEnd(s, c.snap.boundary)
        ELSE IF c.snap.mode = "verified_close_proof"
          THEN IF c.proof = None THEN FailClosed(s, c.snap.why)
               ELSE AfterProof(s, c.proof, c.validated, RecoveryClock(c, now))
        ELSE s

\* Whether it returns: a call that raises ends it, and what it computes is
\* compared with what the checkpoint says.
RestoredAs(c, s) ==
    LET before(d) == {b \in c.chunks : b.part = d.part /\ b.seq < d.seq}
    IN  /\ \A d \in c.chunks : LedgerAdmits(d) /\ ~KnownToLedgerOnly([chunks |-> before(d)], d)
        /\ c.proof # None =>
              c.receipt = Trust.receipt /\ s.snap.why \notin {"close", "proof", "clock"}
        /\ s.snap.status = c.snap.status /\ s.snap.mode = c.snap.mode
        /\ s.snap.boundary = c.snap.boundary /\ s.snap.available = c.snap.available
        /\ s.snap.evidences = c.snap.evidences

RestoreReturns(c, now) == RestoredAs(c, Replayed(c, now))

-----------------------------------------------------------------------------
(***************************************************************************)
(* Steps                                                                   *)
(***************************************************************************)
\* Role3, whose transactions exclude Role2's
AdmitChunk(c) ==
    /\ uncommitted = {} /\ c \notin ledger.chunks /\ LedgerAdmits(c)
    /\ ledger' = [ledger EXCEPT !.chunks = @ \cup {c}]
    /\ UNCHANGED <<role2, uncommitted, todo, checkpoint, artifacts>>

AdmitClose(x) ==
    /\ uncommitted = {} /\ ledger.close = None
    /\ \A f \in x.finals : \A n \in 1..f.covered :
          \E c \in ledger.chunks : c.part = f.part /\ c.seq = n
    /\ ledger' = [ledger EXCEPT !.close = x]
    /\ UNCHANGED <<role2, uncommitted, todo, checkpoint, artifacts>>

\* A fresh state needs a policy of its family.
StartState ==
    /\ role2 = None /\ checkpoint = None
    /\ PolicyFound(feed.registry, feed.policy) /\ BoundTo(ThePolicy, feed.family)
    /\ role2' = Holding({}, None)
    /\ UNCHANGED <<ledger, uncommitted, todo, checkpoint, artifacts>>

Holds(s) ==
    /\ role2' = s
    /\ todo' = IF feed.contract THEN "write" ELSE "commit"

Ready == role2 # None /\ todo = ""

OfferChunk(c) ==
    /\ Ready /\ ChunkFits(role2, c)
    /\ Holds(Holding(role2.chunks \cup {c}, role2.closed))
    /\ uncommitted' = {c} \ ledger.chunks
    /\ UNCHANGED <<ledger, checkpoint, artifacts>>

AcceptRunClosed(x) ==
    /\ Ready /\ role2.closed = None /\ x = ledger.close /\ CloseFits(x)
    /\ Holds(Holding(role2.chunks, x))
    /\ UNCHANGED <<ledger, uncommitted, checkpoint, artifacts>>

AcceptProof(p, at, ready) ==
    /\ Ready /\ feed.contract /\ ~Terminal(role2) /\ role2.closed # None
    /\ Holds(AfterProof(role2, p, at, ready))
    /\ UNCHANGED <<ledger, uncommitted, checkpoint, artifacts>>

FinalizeAtRunEnd(end) ==
    /\ Ready /\ ~Terminal(role2) /\ role2.closed # None /\ end >= feed.start
    /\ ChunksCovered(role2) => WatermarksCover(role2, end)
    /\ Holds(AfterRunEnd(role2, end))
    /\ UNCHANGED <<ledger, uncommitted, checkpoint, artifacts>>

WriteCheckpoint ==
    /\ role2 # None /\ todo = "write" /\ CheckpointContract(role2) /\ MayReplace(role2)
    /\ checkpoint' = role2 /\ todo' = "commit"
    /\ UNCHANGED <<ledger, role2, uncommitted, artifacts>>

CommitChunk ==
    /\ role2 # None /\ todo = "commit"
    /\ ledger' = [ledger EXCEPT !.chunks = @ \cup uncommitted]
    /\ uncommitted' = {} /\ todo' = ""
    /\ UNCHANGED <<role2, checkpoint, artifacts>>

EndProcess ==
    /\ feed.crash /\ role2 # None
    /\ role2' = None /\ uncommitted' = {} /\ todo' = ""
    /\ UNCHANGED <<ledger, checkpoint, artifacts>>

Restore(now) ==
    /\ role2 = None /\ checkpoint # None /\ RestoreReturns(checkpoint, now)
    /\ role2' = Replayed(checkpoint, now)
    /\ ledger' = [ledger EXCEPT !.chunks = @ \cup checkpoint.chunks]
    /\ UNCHANGED <<uncommitted, todo, checkpoint, artifacts>>

\* _publish_evidence_artifacts: extracted again from the checkpoint's events,
\* the summary linked last.
FilesOf(s) ==
    ArtifactsOf(UNION {c.events : c \in s.chunks}, feed.run, s.snap.input,
                [status |-> "selected", diagnostics |-> {}])

Publishing ==
    /\ Ready /\ checkpoint = role2
    /\ role2.snap.status = "finalized" /\ role2.snap.mode = "verified_close_proof"

LinkEvidence ==
    /\ Publishing /\ artifacts = NoFiles
    /\ artifacts' = [artifacts EXCEPT !.evidence = FilesOf(role2).evidence]
    /\ todo' = "summary"
    /\ UNCHANGED <<ledger, role2, uncommitted, checkpoint>>

LinkSummary ==
    /\ todo = "summary" /\ todo' = ""
    /\ artifacts' = [artifacts EXCEPT !.summary = FilesOf(role2).summary]
    /\ UNCHANGED <<ledger, role2, uncommitted, checkpoint>>
-----------------------------------------------------------------------------
\* The events of the chunks the close covers, as Role3 committed them.
SealedEvents(s) ==
    LET sealed(c) == \E f \in s.closed.finals : f.part = c.part /\ c.seq <= f.covered
    IN  {e \in EventsOf({c \in ledger.chunks : sealed(c)}) :
            s.snap.mode = "authoritative_run_end_fallback" => e.time <= s.snap.boundary}

\* What Role2 finalizes does not depend on how the Run came in.  In whatever
\* order chunks were offered, wherever the process ended between ledger,
\* checkpoint and files, the Evidence of a finalized state is the one a
\* reference computes, without a walk, from the events Role3 committed under the
\* accepted close; its boundary is the trusted seal's, and it is not available
\* before anything it was made from; the files hold the same Evidence and load;
\* and every later process, whatever its clock says, restores the very state
\* that was saved.  A Run whose events are clear is never failed as unclear.
EvidenceIsReference ==
    /\ \A s \in {role2, checkpoint} \ {None} :
          LET batch == SealedEvents(s)
              count == Len(ThePolicy.lineage)
          IN  /\ s.snap.status = "finalized" =>
                    /\ Clear(batch, count, feed.start)
                    /\ Shape(s.snap.evidences) = EvidenceExpected(batch, ThePolicy, feed.start)
                    /\ \A e \in s.snap.evidences : e.time <= s.snap.available
                    /\ s.snap.mode = "verified_close_proof" =>
                          /\ s.snap.boundary = BoundaryOf(Trust.projection)
                          /\ \A e \in batch : e.ingest <= s.snap.available
              /\ s.snap.why = "unclear" => ~Clear(batch, count, feed.start)
    /\ checkpoint # None /\ checkpoint.snap.status = "finalized" =>
          \A now \in feed.clock :
              RestoreReturns(checkpoint, now) /\ Replayed(checkpoint, now) = checkpoint
    /\ artifacts.summary # None =>
          ArtifactsLoad(artifacts) /\ artifacts.evidence = checkpoint.snap.evidences
=============================================================================
