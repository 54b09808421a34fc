----------------------------- MODULE R1Consumer -----------------------------
(***************************************************************************)
(* The Role2 consumer of one Run's spool                                   *)
(* (pipeline/r1_incremental_consumer.py over r1_incremental_evidence.py,   *)
(* r1_incremental_checkpoint.py, r1_process_lock.py and the publication    *)
(* part of r1_artifacts.py and r1_incremental_availability.py), beside the *)
(* Role3 processes of R1Spool.                                             *)
(*                                                                         *)
(* A sidecar repeats consume_available over a state root, a finalize       *)
(* command may run beside it; each pass or command holds the lock of the   *)
(* state root.  Either may die between any two file operations.  The       *)
(* checkpoint is written in two steps, as its docstring warns: the         *)
(* generation check, then os.replace.                                      *)
(*                                                                         *)
(* Passes and commands read and extend one hash-chained trace              *)
(* (r1_operational_trace.py).  No property tells its records apart; what   *)
(* matters is how the file ends, because a torn record makes every later   *)
(* read and append raise.  A death in an append may leave it so.           *)
(***************************************************************************)
EXTENDS R1Spool

CONSTANTS
    Sidecars,     \* processes of the consume command
    Finalizers,   \* processes of the finalize command
    Proofs,       \* verified close proofs an operator may supply
    ValidProofs,  \* those that validate and select an Evidence
    LateProofs,   \* valid ones whose Evidence is ready after run_end
    MaxDeaths     \* bound on deaths and failed links

ASSUME ProofAssumption == LateProofs \subseteq ValidProofs /\ ValidProofs \subseteq Proofs

Consumers == Sidecars \cup Finalizers

VARIABLES
    started,     \* run-started.json is in the control root
    checkpoint,  \* r1_incremental_checkpoint.json, or None
    pc,          \* where each process is; the state-root lock is free when all idle
    view,        \* the last ordinal a pass saw when it listed event_chunk files
    mem,         \* the R1IncrementalEvidenceState a process holds, or None
    files,       \* artifact files: the checkpoint each one was made from, or None
    trace,       \* how r1_role2_operational_trace.jsonl ends
    deaths

consumerVars == <<started, checkpoint, pc, view, mem, files, trace, deaths>>
vars == <<spoolVars, consumerVars>>

(***************************************************************************)
(* A state is [got, closed, status, proof]: the accepted chunks, the       *)
(* accepted run_closed and what finalization made of them.  "accumulating" *)
(* and "provisional" are both "open".                                      *)
(***************************************************************************)
States == [got    : SUBSET ChunkMsgs,
           closed : CloseMsgs \cup {None},
           status : {"open", "finalized", "failed_closed"},
           proof  : Proofs \cup {None}]

ASSUME NoneIsNoState == None \notin States

Fresh == [got |-> {}, closed |-> None, status |-> "open", proof |-> None]

\* _load_state: memory is used only while the checkpoint is the one it came
\* from, so what a process loads is the checkpoint, or a fresh state.
Current == IF checkpoint = None THEN Fresh ELSE checkpoint

Flag(b) == IF b THEN 1 ELSE 0

\* export_checkpoint
Generation(s) ==
    Cardinality(s.got) + Flag(s.closed # None) + Flag(s.status # "open")

Artifacts == {"evidence", "summary", "envelope", "receipt"}

\* "whole": with a whole record and its newline, or there is no file yet;
\* "unended": with a whole record that has no newline; "torn": unreadable.
TraceEnds == {"whole", "unended", "torn"}

ConsumerInit ==
    /\ SpoolInit
    /\ started = FALSE
    /\ checkpoint = None
    /\ pc = [p \in Consumers |-> "idle"]
    /\ view = [p \in Consumers |-> 0]
    /\ mem = [p \in Consumers |-> None]
    /\ files = [a \in Artifacts |-> None]
    /\ trace = "whole"
    /\ deaths = 0

-----------------------------------------------------------------------------
(***************************************************************************)
(* Pieces of a step                                                        *)
(***************************************************************************)

\* Mutant: the directory lock is not taken.
NoLock == TRUE

\* r1_directory_lock; a timeout is another try later.
LockFree == \A q \in Consumers : pc[q] = "idle"

\* Mutant: a state is available only from a checkpoint.
HasCheckpoint == checkpoint # None

\* _load_state returns None before run_started, unless there is a checkpoint.
HasState == checkpoint # None \/ started

\* The generation check of write_r1_incremental_checkpoint
CanReplace(s) ==
    checkpoint # None => Generation(s) > Generation(checkpoint) \/ s = checkpoint

\* records() raises on a torn record, and append() calls records() first.
Readable == trace # "torn"

\* append(): after a record without its newline it glues two records into one
\* line, which nobody can read from then on.
AppendTrace ==
    /\ Readable
    /\ trace' = IF trace = "whole" THEN "whole" ELSE "torn"

\* A record that is not written again when the trace already holds it
AppendIfNew == AppendTrace \/ (Readable /\ UNCHANGED trace)

Goto(p, l) == pc' = [pc EXCEPT ![p] = l]

\* A pass or a command ends, and the process holds the state m.
Leave(p, m) ==
    /\ Goto(p, "idle")
    /\ mem' = [mem EXCEPT ![p] = m]
    /\ view' = [view EXCEPT ![p] = 0]

\* The process of a command ends with it, a sidecar goes on.
Return(p) == Leave(p, IF p \in Sidecars THEN mem[p] ELSE None)

\* An exception ends the process: the lock is released, the memory is gone.
Die(p) ==
    /\ Leave(p, None)
    /\ UNCHANGED <<checkpoint, files>>

\* The state s is in memory and passes the generation check.
Save(p, s) ==
    /\ CanReplace(s)
    /\ mem' = [mem EXCEPT ![p] = s]
    /\ Goto(p, "replace")
    /\ UNCHANGED <<checkpoint, view, files>>

StartRun ==
    /\ ~started /\ started' = TRUE
    /\ UNCHANGED <<spoolVars, checkpoint, pc, view, mem, files, trace, deaths>>

-----------------------------------------------------------------------------
(***************************************************************************)
(* consume_available                                                       *)
(***************************************************************************)

\* A terminal checkpoint is reported without a restore.  The records of the
\* trace are read before the outbox is listed.
BeginConsume(p) ==
    /\ LockFree /\ HasState /\ Readable
    /\ Current.status = "open"
    /\ Goto(p, "chunks")
    /\ view' = [view EXCEPT ![p] = published]
    /\ mem' = [mem EXCEPT ![p] = Current]
    /\ UNCHANGED <<spoolVars, started, checkpoint, files, trace>>

\* Mutant: event_chunk files are taken without looking for their ack.
Published(i) == i <= published

Acked(i) == i \in acks

Todo(p) ==
    {i \in 1..view[p] : outbox[i].type = "event_chunk" /\ outbox[i] \notin mem[p].got}

CoveredBy(x, m) == \E f \in x.finals : f.part = m.part /\ m.seq <= f.covered

\* _apply_chunk and accept_chunk: the next sequence, within the close if
\* there is one, and an exact replay of a committed ledger entry.
Applicable(s, m) ==
    /\ m.part \in Contract
    /\ m.seq = Cardinality(s.got) + 1
    /\ s.closed # None => CoveredBy(s.closed, m)
    /\ m \in chunks

\* chunk_received (when the file is new), then chunk_accepted or
\* chunk_rejected; only then the checkpoint.  When the first of two appends
\* is the one that glues, the second one raises.
ConsumeChunk(p) ==
    /\ pc[p] = "chunks" /\ Todo(p) # {}
    /\ Acked(First(Todo(p)))
    /\ AppendTrace
    /\ LET m == outbox[First(Todo(p))]
       IN \/ Applicable(mem[p], m) /\ Save(p, [mem[p] EXCEPT !.got = @ \cup {m}])
          \/ ~(Applicable(mem[p], m) /\ Readable') /\ Die(p)
    /\ UNCHANGED <<spoolVars, started>>

\* waiting_ack: the pass does not look for a run_closed.
WaitForAck(p) ==
    /\ pc[p] = "chunks" /\ Todo(p) # {}
    /\ ~Acked(First(Todo(p)))
    /\ AppendIfNew
    /\ Goto(p, "report")
    /\ UNCHANGED <<spoolVars, started, checkpoint, view, mem, files>>

\* _accept_available_run_closed lists the run_closed files only now.
Closes == {i \in 1..published : outbox[i].type = "run_closed"}

AcceptClose(p) ==
    /\ pc[p] = "chunks" /\ Todo(p) = {}
    /\ IF Closes # {} /\ First(Closes) \in acks /\ mem[p].closed = None
       THEN Save(p, [mem[p] EXCEPT !.closed = outbox[First(Closes)]])
       ELSE Goto(p, "report") /\ UNCHANGED <<checkpoint, view, mem, files>>
    /\ UNCHANGED <<spoolVars, started, trace>>

\* The last record of a pass (_record_finalization_status) or of a command
ReportStatus(p) ==
    /\ pc[p] = "report"
    /\ \/ AppendIfNew /\ Return(p)
       \/ ~Readable /\ Leave(p, None) /\ UNCHANGED trace
    /\ UNCHANGED <<spoolVars, started, checkpoint, files>>

-----------------------------------------------------------------------------
(***************************************************************************)
(* The checkpoint, and finalize_and_publish                                *)
(***************************************************************************)

\* Mutant: the check looks for missing sequences, not for excess ones.
NothingMissing(s, x) ==
    \A f \in x.finals : \A i \in 1..f.covered :
        \E c \in s.got : c.part = f.part /\ c.seq = i

\* No diagnostics of _chunk_coverage_diagnostics
Covered(s, x) ==
    /\ \A c \in s.got : CoveredBy(x, c)
    /\ \A f \in x.finals : \A i \in 1..f.covered :
          \E c \in s.got : c.part = f.part /\ c.seq = i

\* accept_verified_close_proof: finalized, or failed closed for good.
FinalState(s, x, pr) ==
    LET ok == Covered(s, x) /\ pr \in ValidProofs
    IN [got    |-> s.got,
        closed |-> x,
        status |-> IF ok THEN "finalized" ELSE "failed_closed",
        proof  |-> IF ok THEN pr ELSE None]

\* finalize_and_publish up to the checkpoint.  A failed result is recorded in
\* the trace before the checkpoint, a final one after it.  A terminal state
\* accepts only the proof that finalized it, and goes on with the publication.
Finalize(p) ==
    /\ LockFree /\ HasState
    /\ exported # None /\ Current.closed \in {None, exported}
    /\ \E pr \in Proofs :
          \/ /\ Current.status = "open"
             /\ Save(p, FinalState(Current, exported, pr))
             /\ IF FinalState(Current, exported, pr).status = "failed_closed"
                THEN AppendTrace ELSE UNCHANGED trace
          \/ /\ Current.status = "finalized" /\ pr = Current.proof
             /\ files["receipt"] = None
             /\ Goto(p, "evidence")
             /\ mem' = [mem EXCEPT ![p] = Current]
             /\ UNCHANGED <<checkpoint, view, files, trace>>
    /\ UNCHANGED <<spoolVars, started>>

\* A command that is refused, or repeated once the receipt is there, changes
\* nothing but the trace.
OnlyRecord(p) ==
    /\ LockFree
    /\ AppendTrace
    /\ UNCHANGED <<spoolVars, started, checkpoint, pc, view, mem, files, deaths>>

\* Where a process goes on after os.replace: a pass with its next chunk, or
\* with its report when it was the close that it wrote.
AfterReplace(p) ==
    CASE mem[p].status = "finalized" -> "evidence"
      [] mem[p].status = "open" /\ mem[p].got # Current.got -> "chunks"
      [] OTHER -> "report"

\* os.replace; for a chunk, incremental_state_updated is then appended, which
\* raises when the append before the checkpoint glued two records.  A
\* finalization that failed closed ends here.
Replace(p) ==
    /\ pc[p] = "replace"
    /\ checkpoint' = mem[p]
    /\ IF mem[p].status = "failed_closed" \/ (AfterReplace(p) = "chunks" /\ ~Readable)
       THEN Leave(p, None)
       ELSE Goto(p, AfterReplace(p)) /\ UNCHANGED <<view, mem>>
    /\ UNCHANGED <<spoolVars, started, files, trace>>

Put(p, a) == files' = [files EXCEPT ![a] = IF @ = None THEN mem[p] ELSE @]

\* Mutant: an existing evidence file is not read back.
PublishEvidenceUnread(p) ==
    /\ pc[p] = "evidence"
    /\ AppendTrace
    /\ Put(p, "evidence")
    /\ Goto(p, IF files["evidence"] = None THEN "summary" ELSE "envelope")
    /\ UNCHANGED <<spoolVars, started, checkpoint, view, mem>>

\* evidence_finalized, then _publish_evidence_artifacts, which looks for the
\* evidence file alone.  When it exists, the artifacts are loaded: without the
\* summary that raises.
PublishEvidence(p) ==
    /\ pc[p] = "evidence"
    /\ AppendTrace
    /\ Put(p, "evidence")
    /\ IF files["evidence"] # None /\ files["summary"] = None
       THEN Return(p)
       ELSE /\ Goto(p, IF files["evidence"] = None THEN "summary" ELSE "envelope")
            /\ UNCHANGED <<view, mem>>
    /\ UNCHANGED <<spoolVars, started, checkpoint>>

\* The final checkpoint is written, its record cannot be.
EvidenceUnrecorded(p) ==
    /\ pc[p] = "evidence" /\ ~Readable
    /\ Die(p)
    /\ UNCHANGED <<spoolVars, started, trace>>

PublishSummary(p) ==
    /\ pc[p] = "summary"
    /\ Put(p, "summary") /\ Goto(p, "envelope")
    /\ UNCHANGED <<spoolVars, started, checkpoint, view, mem, trace>>

\* The second os.link of _publish_files fails: the first one is undone.
SummaryFails(p) ==
    /\ pc[p] = "summary" /\ deaths < MaxDeaths
    /\ deaths' = deaths + 1
    /\ files' = [files EXCEPT !["evidence"] = None]
    /\ Return(p)
    /\ UNCHANGED <<spoolVars, started, checkpoint, trace>>

\* Evidence that is ready after run_end gets no envelope: the command is
\* blocked, which it records.
PublishEnvelope(p) ==
    /\ pc[p] = "envelope"
    /\ IF mem[p].proof \in LateProofs
       THEN Goto(p, "report") /\ UNCHANGED files
       ELSE Put(p, "envelope") /\ Goto(p, "receipt")
    /\ UNCHANGED <<spoolVars, started, checkpoint, view, mem, trace>>

\* evidence_published is recorded after the receipt.
PublishReceipt(p) ==
    /\ pc[p] = "receipt"
    /\ Put(p, "receipt") /\ Goto(p, "report")
    /\ UNCHANGED <<spoolVars, started, checkpoint, view, mem, trace>>

\* The process is about to append, or has begun to; every finalize command,
\* also a refused one, comes to a record.
Appending(p) ==
    \/ pc[p] \in {"chunks", "report", "evidence"}
    \/ p \in Finalizers /\ LockFree

\* A kill between two file operations, or inside an append: then a part of
\* the record is left, or all of it but the newline.
ConsumerCrash(p) ==
    /\ deaths < MaxDeaths
    /\ deaths' = deaths + 1
    /\ \/ pc[p] # "idle" /\ UNCHANGED trace
       \/ Appending(p) /\ Readable /\ trace' = "torn"
       \/ Appending(p) /\ trace = "whole" /\ trace' = "unended"
    /\ Die(p)
    /\ UNCHANGED <<spoolVars, started>>

ConsumerMove(p) ==
    \/ p \in Sidecars /\ (BeginConsume(p) \/ ConsumeChunk(p) \/ WaitForAck(p) \/ AcceptClose(p))
    \/ p \in Finalizers /\ (\/ Finalize(p) \/ PublishEvidence(p) \/ EvidenceUnrecorded(p)
                            \/ PublishSummary(p) \/ PublishEnvelope(p) \/ PublishReceipt(p))
    \/ Replace(p) \/ ReportStatus(p)

ConsumerStep(p) == ConsumerMove(p) /\ UNCHANGED deaths

Next ==
    \/ SpoolNext /\ UNCHANGED consumerVars
    \/ StartRun
    \/ \E p \in Consumers : ConsumerStep(p) \/ SummaryFails(p) \/ ConsumerCrash(p)
    \/ \E p \in Finalizers : OnlyRecord(p)

Safety == ConsumerInit /\ [][Next]_vars

\* The sidecars are loops, a pass or a command once begun runs on, and the
\* operator repeats finalize until it is done.
Fairness ==
    /\ \A p \in Ingresses : WF_vars(IngressStep(p) /\ UNCHANGED consumerVars)
    /\ \A p \in Consumers : WF_vars(ConsumerStep(p))

Spec == Safety /\ Fairness

-----------------------------------------------------------------------------
(***************************************************************************)
(* Correctness                                                             *)
(***************************************************************************)

\* Every consumer variable has a value of its kind.
ConsumerTypeOK ==
    /\ started \in BOOLEAN
    /\ checkpoint \in States \cup {None}
    /\ pc \in [Consumers -> {"idle", "chunks", "replace", "report"} \cup Artifacts]
    /\ view \in [Consumers -> 0..published]
    /\ mem \in [Consumers -> States \cup {None}]
    /\ files \in [Artifacts -> States \cup {None}]
    /\ trace \in TraceEnds

\* _load_verified_chunk and _apply_chunk: what Role2 has taken up is a gapless
\* run of chunk sequences, each committed in the Role3 ledger and bound by an
\* ack, and its run_closed is the one the ledger accepted.
CheckpointIsPrefix ==
    LET s == Current
    IN /\ {c.seq : c \in s.got} = 1..Cardinality(s.got)
       /\ s.got \subseteq chunks
       /\ \A c \in s.got : \E i \in acks : outbox[i] = c
       /\ s.closed \in {None, close}

\* accept_verified_close_proof: Evidence is finalized only from all the chunks
\* that the accepted close covers and from no other, whatever was published,
\* acknowledged or lagging when finalize ran.
FinalizedCoversClose ==
    Current.status = "finalized" =>
        /\ Current.closed = close /\ Current.proof \in ValidProofs
        /\ Current.got = {c \in chunks : CoveredBy(close, c)}
        /\ \A f \in close.finals : L!Covers(f.part, f.covered)

\* "A running sidecar never overwrites a finalized checkpoint": a checkpoint
\* is replaced only while it is open, by one of a later generation that
\* keeps what was accepted.
TerminalIsFinal ==
    [][checkpoint # None /\ checkpoint' # checkpoint =>
          /\ checkpoint.status = "open"
          /\ checkpoint.got \subseteq checkpoint'.got
          /\ checkpoint.closed \in {None, checkpoint'.closed}
          /\ Generation(checkpoint') > Generation(checkpoint)]_vars

\* finalize_and_publish: every artifact is made from the final checkpoint and
\* each later one appears only beside the earlier ones; Evidence that missed
\* run_end has no envelope.
ArtifactsMatchCheckpoint ==
    /\ \A a \in Artifacts :
          files[a] # None => files[a] = checkpoint /\ checkpoint.status = "finalized"
    /\ files["summary"] # None => files["evidence"] # None
    /\ files["envelope"] # None =>
          files["summary"] # None /\ checkpoint.proof \notin LateProofs
    /\ files["receipt"] # None => files["envelope"] # None

AckedChunksLeft ==
    {i \in acks : outbox[i].type = "event_chunk" /\ outbox[i] \notin Current.got}

\* The next acked chunk is one that Role2 rejects for ever.
Rejecting ==
    AckedChunksLeft # {} /\ ~Applicable(Current, outbox[First(AckedChunksLeft)])

\* A death tore the trace: "a torn or edited record fails closed on read".
TraceTorn == ~Readable /\ deaths > 0

\* consume --follow-interval-sec: after run_started every acked chunk is taken
\* up in the end, over every death that leaves the trace readable, unless the
\* state becomes terminal or rejects a chunk.
EventuallyConsumed ==
    []<>(started => AckedChunksLeft = {} \/ Current.status # "open" \/ Rejecting
                    \/ TraceTorn)

\* finalize is repeated until the receipt is there: a finalized state survives
\* a restart, and its publication is resumed while the trace can be read.
FinalizedIsPublished ==
    (Current.status = "finalized" /\ Current.proof \notin LateProofs)
        ~> (files["receipt"] # None \/ TraceTorn)

=============================================================================
