-------------------------- MODULE R1PositionFinality --------------------------
(***************************************************************************)
(* RecordId position finality of one Run and one Sysmon channel:           *)
(*                                                                         *)
(*   producer sidecar   polls the channel, publishes raw segments and one  *)
(*                      chunk per segment, and answers a freeze request    *)
(*                      with a generation observation and a freeze ack     *)
(*                      (r1_record_bounded_freeze.py);                     *)
(*   runner             requests the freeze, exports the bounded records   *)
(*                      and writes run-finalized;                          *)
(*   finalizer          re-verifies all files, reconciles and issues the   *)
(*                      close (r1_record_bounded_reconciliation.py,        *)
(*                      r1_record_position_finality.py);                   *)
(*   Role3              commits chunks and the close in its ledger, acks   *)
(*                      after the commit, and exports the accepted close   *)
(*                      (r1_position_close_repository.py).                 *)
(*                                                                         *)
(* A digest is the value it is the digest of.  Clocks of the machines are  *)
(* not synchronised: a stamp is any instant, and every order the code      *)
(* requires of stamps is a guard (a refused command leaves no file).  An   *)
(* event is its RecordId and the generation of the log it was written to;  *)
(* the code compares the raw XML of events in some places (the event       *)
(* itself) and RecordIds only in others.                                   *)
(***************************************************************************)
EXTENDS Naturals, Sequences, FiniteSets, FiniteSetsExt

CONSTANTS
    Instants,      \* the values a clock may show
    MaxRecord,     \* records in one generation of the channel
    MaxGeneration, \* generations (the log is cleared MaxGeneration - 1 times)
    MaxChunks,     \* raw segments, and so chunks, of the Run
    MaxFaults,     \* kinds of disturbance that happen in one behaviour
    None

ASSUME FinalityAssumption ==
    /\ Instants \subseteq Nat
    /\ MaxRecord \in Nat /\ MaxGeneration \in Nat /\ MaxChunks \in Nat /\ MaxFaults \in Nat

VARIABLES
    channel,    \* [gen, kinds, oldest]: the Windows event log (external)
    segments,   \* raw-segments/: the events of each published segment
    outbox,     \* outbox/: the events of each published chunk
    acks,       \* acks/: the chunk bytes each post-commit ack names
    ledger,     \* r1_stream_chunks: the committed chunks, in sequence
    last,       \* producer-state.json: last_record_id
    freeze,     \* the snapshot the sidecar holds while it freezes, or None
    failed,     \* collection-freeze-failed.json exists
    request, freezeGen, freezeAck,           \* control files, or None
    evtx, jsonl, snapshot, exportGen, finalized,  \* canonical export and control files, or None
    recon, close, closeAck, exported,        \* position-finality files, or None
    closeRow,   \* the row of r1_stream_position_closes, or None
    faults      \* the kinds of disturbance that happened

channelVars   == <<channel>>
deliveryVars  == <<segments, outbox, acks, ledger, last>>
freezeVars    == <<freeze, failed, request, freezeGen, freezeAck>>
exportVars    == <<evtx, jsonl, snapshot, exportGen, finalized>>
closeVars     == <<recon, close, closeAck, exported, closeRow>>
finalityVars  == <<channelVars, deliveryVars, freezeVars, exportVars, closeVars, faults>>

RecordIds == 1..MaxRecord
Event     == [gen : Nat, rid : RecordIds]

Rids(S)   == {e.rid : e \in S}
AllOf(q)  == UNION {q[i] : i \in DOMAIN q}
Covered(q, n) == SubSeq(q, 1, n)

-----------------------------------------------------------------------------
(* The channel: records of any Event ID, of which the targets (EID 1 or 3) *)
(* are collected.                                                          *)
Newest(c)  == Len(c.kinds)
Retained(c) == {i \in DOMAIN c.kinds : i >= c.oldest}
Targets(c) == {[gen |-> c.gen, rid |-> i] : i \in {j \in Retained(c) : c.kinds[j] = "target"}}
Bound(c, lower, upper) == {e \in Targets(c) : lower <= e.rid /\ e.rid <= upper}

(* The raw XML of record i, None when the log does not hold it.            *)
Anchor(c, i) == IF i \in Retained(c) THEN [gen |-> c.gen, rid |-> i] ELSE None

(* A disturbance from outside: the log rolls over or is cleared, a file is *)
(* edited by hand, the database is restored.                               *)
Disturb(kind) ==
    /\ kind \notin faults /\ Cardinality(faults) < MaxFaults
    /\ faults' = faults \cup {kind}

Write(kind) ==
    /\ exportGen = None
    /\ Newest(channel) < MaxRecord
    /\ channel' = [channel EXCEPT !.kinds = Append(@, kind)]
    /\ UNCHANGED <<deliveryVars, freezeVars, exportVars, closeVars, faults>>

RollOver ==
    /\ exportGen = None /\ Disturb("rollover")
    /\ channel.oldest < Newest(channel)
    /\ channel' = [channel EXCEPT !.oldest = @ + 1]
    /\ UNCHANGED <<deliveryVars, freezeVars, exportVars, closeVars>>

Clear ==
    /\ exportGen = None /\ Disturb("clear")
    /\ channel.gen < MaxGeneration
    /\ channel' = [gen |-> channel.gen + 1, kinds |-> <<>>, oldest |-> 1]
    /\ UNCHANGED <<deliveryVars, freezeVars, exportVars, closeVars>>

-----------------------------------------------------------------------------
(* The producer sidecar, and Role3's consume of its chunks.                *)

(* The sidecar polls: it neither freezes, nor has it stopped (a failed     *)
(* freeze, and an interrupted one, cannot be resumed).                     *)
Polling == ~failed /\ freeze = None /\ (freezeGen # None => freezeAck # None)

AllPublished == Len(outbox) = Len(segments)

Poll ==
    /\ Polling /\ AllPublished /\ finalized = None
    /\ Len(segments) < MaxChunks
    /\ LET new == {e \in Targets(channel) : e.rid > last}
       IN  /\ new # {}
           /\ segments' = Append(segments, new)
           /\ last' = Max(Rids(new))
    /\ UNCHANGED <<channelVars, outbox, acks, ledger, freezeVars, exportVars, closeVars, faults>>

PublishChunk ==
    /\ Len(outbox) < Len(segments)
    /\ outbox' = Append(outbox, segments[Len(outbox) + 1])
    /\ UNCHANGED <<channelVars, segments, acks, ledger, last, freezeVars, exportVars, closeVars, faults>>

(* A chunk is committed when it continues the ledger's sequence.           *)
CommitChunk ==
    /\ Len(acks) < Len(outbox)
    /\ Len(ledger) = Len(acks)
    /\ ledger' = Append(ledger, outbox[Len(acks) + 1])
    /\ UNCHANGED <<channelVars, segments, outbox, acks, last, freezeVars, exportVars, closeVars, faults>>

AckChunkBeforeCommit ==
    /\ Len(acks) < Len(outbox)
    /\ acks' = Append(acks, outbox[Len(acks) + 1])
    /\ UNCHANGED <<channelVars, segments, outbox, ledger, last, freezeVars, exportVars, closeVars, faults>>

(* consume writes the ack after the commit; a crash in between leaves the  *)
(* chunk committed and not acked, and the next consume is a replay.        *)
AckChunk ==
    /\ Len(acks) < Len(ledger) /\ Len(acks) < Len(outbox)
    /\ ledger[Len(acks) + 1] = outbox[Len(acks) + 1]
    /\ acks' = Append(acks, outbox[Len(acks) + 1])
    /\ UNCHANGED <<channelVars, segments, outbox, ledger, last, freezeVars, exportVars, closeVars, faults>>

-----------------------------------------------------------------------------
(* The freeze.                                                             *)

(* The runner's request; the candidate boundary is the completion of the   *)
(* Run's last action.                                                      *)
WriteRequest ==
    /\ request = None
    /\ \E b, o, r \in Instants :
        /\ b <= o /\ o <= r
        /\ request' = [boundary |-> b, observation |-> o, at |-> r]
    /\ UNCHANGED <<channelVars, deliveryVars, freeze, failed, freezeGen, freezeAck,
                   exportVars, closeVars, faults>>

Freezing == request # None /\ freezeAck = None /\ freezeGen = None /\ ~failed /\ AllPublished

(* The checks of the freeze snapshot on the target host.                   *)
SnapshotOK(c, published, lastId) ==
    /\ c.kinds # <<>>
    /\ Newest(c) >= lastId
    /\ Targets(c) # {}
    /\ published # {} => Min(Rids(Targets(c))) = Min(Rids(published))

FreezeSnapshot ==
    /\ Freezing /\ freeze = None
    /\ SnapshotOK(channel, AllOf(segments), last)
    /\ LET lower == Min(Rids(Targets(channel)))
           upper == Newest(channel)
           new   == {e \in Targets(channel) : e.rid > last}
       IN  /\ \E t \in Instants :
                freeze' = [lower |-> lower, upper |-> upper, gen |-> channel.gen,
                           bound |-> Bound(channel, lower, upper),
                           oldest |-> channel.oldest, at |-> t, saved |-> FALSE]
           /\ Len(segments) < MaxChunks \/ new = {}
           /\ segments' = IF new = {} THEN segments ELSE Append(segments, new)
    /\ UNCHANGED <<channelVars, outbox, acks, ledger, last, failed, request, freezeGen, freezeAck,
                   exportVars, closeVars, faults>>

SaveFreezeState ==
    /\ freeze # None /\ ~freeze.saved /\ AllPublished
    /\ last' = freeze.upper
    /\ freeze' = [freeze EXCEPT !.saved = TRUE]
    /\ UNCHANGED <<channelVars, segments, outbox, acks, ledger, failed, request, freezeGen, freezeAck,
                   exportVars, closeVars, faults>>

(* Whatever check refuses the freeze, the sidecar leaves a failure file    *)
(* and stops.                                                              *)
FreezeFails ==
    /\ Freezing
    /\ \/ freeze = None /\ ~SnapshotOK(channel, AllOf(segments), last)
       \/ /\ freeze # None /\ freeze.saved
          /\ Rids(AllOf(segments)) # Rids(freeze.bound)
    /\ failed' = TRUE
    /\ freeze' = None
    /\ UNCHANGED <<channelVars, deliveryVars, request, freezeGen, freezeAck, exportVars, closeVars, faults>>

(* The sidecar crashes: its snapshot is gone, its files are not, and the   *)
(* raw segments may be ahead of the producer's state.                      *)
SidecarCrash ==
    /\ freeze # None
    /\ freeze' = None
    /\ last' = IF \E e \in AllOf(segments) : e.rid > last
                 THEN Max(Rids(AllOf(segments))) ELSE last
    /\ UNCHANGED <<channelVars, segments, outbox, acks, ledger, failed, request, freezeGen,
                   freezeAck, exportVars, closeVars, faults>>

LiveIsAnything(f) == TRUE

(* Invoke-PositionFreeze compares the published keys with the bound.       *)
LiveIsBound(f) == Rids(AllOf(segments)) = Rids(f.bound)

(* issue_r1_channel_generation_observation(phase = freeze_ack).            *)
WriteFreezeGeneration ==
    /\ freeze # None /\ freeze.saved /\ freezeGen = None
    /\ Len(acks) = Len(outbox)
    /\ LiveIsBound(freeze)
    /\ freeze.at >= request.at
    /\ freezeGen' = [lower |-> freeze.lower, upper |-> freeze.upper, gen |-> freeze.gen,
                     oldest |-> freeze.oldest, at |-> freeze.at]
    /\ UNCHANGED <<channelVars, deliveryVars, freeze, failed, request, freezeAck,
                   exportVars, closeVars, faults>>

UniqueRids(S) == \A e, f \in S : e.rid = f.rid => e = f

(***************************************************************************)
(* verify_r1_live_snapshot_delivery: the first n raw segments hold events  *)
(* of the bound, once each; the first n chunks exist, have an ack bound to *)
(* their bytes and carry the events of their segment; later chunks carry   *)
(* nothing of the bound.                                                   *)
(***************************************************************************)
Live(n) == AllOf(Covered(segments, n))

LiveIdentities(lower, upper, n) ==
    /\ \A e \in Live(n) : lower <= e.rid /\ e.rid <= upper
    /\ UniqueRids(Live(n))
    /\ \A i, j \in 1..n : i # j => Rids(segments[i]) \cap Rids(segments[j]) = {}

ChunksVerified(upper, n) ==
    /\ n <= Len(outbox) /\ n <= Len(acks)
    /\ \A i \in 1..n : acks[i] = outbox[i] /\ Rids(outbox[i]) \subseteq Rids(segments[i])
    /\ \A i \in (n + 1)..Len(outbox) : \A e \in outbox[i] : e.rid > upper

LiveDelivery(lower, upper, n) ==
    /\ 1 <= lower /\ lower <= upper
    /\ 1 <= n /\ n <= Len(segments)
    /\ LiveIdentities(lower, upper, n)
    /\ ChunksVerified(upper, n)
    /\ Rids(AllOf(Covered(outbox, n))) = Rids(Live(n))

(* issue_r1_collection_freeze_ack.                                         *)
WriteFreezeAck ==
    /\ freeze # None /\ freezeGen # None /\ freezeAck = None
    /\ LiveDelivery(freeze.lower, freeze.upper, Len(outbox))
    /\ Cardinality(Live(Len(outbox))) = Cardinality(freeze.bound)
    /\ \E t \in Instants :
        /\ t >= request.at
        /\ freezeAck' = [lower |-> freeze.lower, upper |-> freeze.upper,
                         count |-> Cardinality(freeze.bound), identity |-> freeze.bound,
                         covered |-> Len(outbox),
                         inventory |-> Covered(segments, Len(outbox)), at |-> t]
    /\ freeze' = None
    /\ UNCHANGED <<channelVars, deliveryVars, failed, request, freezeGen, exportVars, closeVars, faults>>

-----------------------------------------------------------------------------
(* The canonical export by the runner.                                     *)

(* Test-R1FreezeAck.                                                       *)
FreezeAckOK ==
    /\ ~failed /\ freezeAck # None /\ freezeGen # None
    /\ request.at <= freezeGen.at /\ freezeGen.at <= freezeAck.at
    /\ freezeGen.oldest <= freezeAck.lower

ExportEvtx ==
    /\ FreezeAckOK /\ evtx = None
    /\ evtx' = Bound(channel, freezeAck.lower, freezeAck.upper)
    /\ UNCHANGED <<channelVars, deliveryVars, freezeVars, jsonl, snapshot, exportGen, finalized,
                   closeVars, faults>>

(* Test-R1RecordBoundedExport: the log may have changed since the export.  *)
SameGeneration(c) ==
    /\ Anchor(c, freezeAck.lower) = [gen |-> freezeGen.gen, rid |-> freezeAck.lower]
    /\ Anchor(c, freezeAck.upper) = [gen |-> freezeGen.gen, rid |-> freezeAck.upper]
    /\ freezeGen.oldest <= c.oldest /\ c.oldest <= freezeAck.lower

CompleteSnapshot ==
    /\ evtx # None /\ snapshot = None
    /\ evtx = freezeAck.identity
    /\ SameGeneration(channel)
    /\ \E t \in Instants :
        /\ t >= freezeAck.at
        /\ exportGen' = [lower |-> freezeAck.lower, upper |-> freezeAck.upper, gen |-> freezeGen.gen,
                         oldest |-> channel.oldest, at |-> t]
    /\ jsonl' = evtx
    /\ snapshot' = [evtx |-> evtx, jsonl |-> evtx]
    /\ UNCHANGED <<channelVars, deliveryVars, freezeVars, evtx, finalized, closeVars, faults>>

(* The files are hashed again: none changed since the export generation.   *)
WriteRunFinalized ==
    /\ snapshot # None /\ finalized = None
    /\ evtx = snapshot.evtx /\ jsonl = snapshot.jsonl
    /\ snapshot.evtx = freezeAck.identity
    /\ \E t \in Instants :
        /\ t >= exportGen.at /\ t >= freezeAck.at
        /\ finalized' = [lower |-> freezeAck.lower, upper |-> freezeAck.upper,
                         count |-> Cardinality(snapshot.jsonl), identity |-> snapshot.evtx,
                         evtx |-> evtx, jsonl |-> jsonl, at |-> t]
    /\ UNCHANGED <<channelVars, deliveryVars, freezeVars, evtx, jsonl, snapshot, exportGen,
                   closeVars, faults>>

-----------------------------------------------------------------------------
(* The finalizer.                                                          *)

(* _verify_artifact_bindings *)
ArtifactBindings ==
    /\ freezeAck.lower = finalized.lower /\ freezeAck.upper = finalized.upper
    /\ request.at <= freezeAck.at /\ freezeAck.at <= finalized.at
    /\ freezeAck.count = finalized.count
    /\ freezeAck.identity = finalized.identity

(* _verify_canonical_files: the manifest names the two files the same way. *)
CanonicalFiles == evtx = finalized.evtx /\ jsonl = finalized.jsonl

(* _read_canonical_identities *)
CanonicalIdentities ==
    /\ \A e \in jsonl : freezeAck.lower <= e.rid /\ e.rid <= freezeAck.upper
    /\ UniqueRids(jsonl)
    /\ Cardinality(jsonl) = finalized.count

(* verify_r1_record_bounded_snapshot *)
SnapshotVerified ==
    /\ request # None /\ freezeAck # None /\ finalized # None
    /\ ArtifactBindings
    /\ CanonicalFiles
    /\ CanonicalIdentities
    /\ LiveDelivery(freezeAck.lower, freezeAck.upper, freezeAck.covered)
    /\ Covered(segments, freezeAck.covered) = freezeAck.inventory
    /\ Cardinality(Live(freezeAck.covered)) = freezeAck.count
    /\ Rids(jsonl) = Rids(Live(freezeAck.covered))

(* build_r1_record_bounded_reconciliation *)
Reconciliation(t) ==
    [request |-> request, ack |-> freezeAck, finalized |-> finalized,
     acked |-> freezeAck.covered, observation |-> request.observation, at |-> t]

Reconcile ==
    /\ recon = None
    /\ SnapshotVerified
    /\ \E t \in Instants :
        /\ t >= finalized.at /\ t >= request.observation
        /\ recon' = Reconciliation(t)
    /\ UNCHANGED <<channelVars, deliveryVars, freezeVars, exportVars, close, closeAck, exported,
                   closeRow, faults>>

(* verify_r1_record_bounded_reconciliation: everything is verified again   *)
(* and must give the stored artifact.                                      *)
ReconciliationVerified ==
    /\ recon # None
    /\ SnapshotVerified
    /\ recon.at >= finalized.at
    /\ recon = Reconciliation(recon.at)

(* verify_r1_channel_generation *)
ChannelGenerationVerified ==
    /\ freezeGen # None /\ exportGen # None
    /\ \A g \in {freezeGen, exportGen} : g.lower = freezeAck.lower /\ g.upper = freezeAck.upper
    /\ freezeGen.gen = exportGen.gen
    /\ exportGen.oldest >= freezeGen.oldest
    /\ request.at <= freezeGen.at /\ freezeGen.at <= freezeAck.at
    /\ freezeAck.at <= exportGen.at /\ exportGen.at <= finalized.at

EmittedAnytime(t) == TRUE

EmittedAfter(t) == t >= recon.at /\ t >= request.observation

(* issue_r1_record_position_close and its publication.                     *)
IssueClose ==
    /\ close = None
    /\ ReconciliationVerified
    /\ ChannelGenerationVerified
    /\ \E t \in Instants :
        /\ EmittedAfter(t)
        /\ close' = [lower |-> freezeAck.lower, upper |-> freezeAck.upper, gen |-> freezeGen.gen,
                     covered |-> freezeAck.covered, chunks |-> Covered(outbox, freezeAck.covered),
                     count |-> Cardinality(jsonl), ids |-> Rids(jsonl),
                     identity |-> finalized.identity,
                     source |-> [request |-> request, ack |-> freezeAck, finalized |-> finalized,
                                 recon |-> recon, freezeGen |-> freezeGen, exportGen |-> exportGen],
                     boundary |-> request.boundary, observation |-> request.observation, at |-> t]
    /\ UNCHANGED <<channelVars, deliveryVars, freezeVars, exportVars, recon, closeAck, exported,
                   closeRow, faults>>

-----------------------------------------------------------------------------
(* Role3's acceptance of the close.                                        *)
CoveredUnchecked(c) == TRUE

(* _require_committed_covered_chunks *)
CoveredCommitted(c) ==
    /\ c.covered <= Len(ledger)
    /\ Covered(ledger, c.covered) = c.chunks

(* The transaction of consume_r1_record_position_close: an existing row is *)
(* returned for an exact replay and refuses anything else.                 *)
CommitClose ==
    /\ close # None /\ closeAck = None
    /\ closeRow = None
    /\ CoveredCommitted(close)
    /\ \E t \in Instants : closeRow' = [close |-> close, at |-> t]
    /\ UNCHANGED <<channelVars, deliveryVars, freezeVars, exportVars, recon, close, closeAck,
                   exported, faults>>

AckClose ==
    /\ close # None /\ closeAck = None
    /\ closeRow # None
    /\ closeRow.close = close
    /\ closeAck' = [message |-> close, row |-> closeRow]
    /\ UNCHANGED <<channelVars, deliveryVars, freezeVars, exportVars, recon, close, exported,
                   closeRow, faults>>

(* require_receipt_binds_close *)
ReceiptBinds(row, c) == row.close = c /\ row.at >= c.at

(* export_r1_accepted_record_position_close *)
ExportClose ==
    /\ close # None /\ closeAck # None /\ closeRow # None /\ exported = None
    /\ closeAck.message = close
    /\ ReceiptBinds(closeRow, close)
    /\ closeAck.row = closeRow
    /\ exported' = [close |-> close, receipt |-> closeRow]
    /\ UNCHANGED <<channelVars, deliveryVars, freezeVars, exportVars, recon, close, closeAck,
                   closeRow, faults>>

-----------------------------------------------------------------------------
(* Faults the finalizer and the ledger are there to notice: a file is      *)
(* edited or written again by hand, the database is restored.              *)
Lossy(S) == {S \ {e} : e \in S}

EditSegment ==
    /\ Disturb("segment") /\ close = None
    /\ \E i \in DOMAIN segments : \E S \in Lossy(segments[i]) :
            segments' = [segments EXCEPT ![i] = S]
    /\ UNCHANGED <<channelVars, outbox, acks, ledger, last, freezeVars, exportVars, closeVars>>

EditJsonl ==
    /\ Disturb("jsonl") /\ close = None /\ jsonl # None
    /\ \E S \in Lossy(jsonl) : jsonl' = S
    /\ UNCHANGED <<channelVars, deliveryVars, freezeVars, evtx, snapshot, exportGen, finalized, closeVars>>

RewriteAck ==
    /\ Disturb("ack") /\ freezeAck # None
    /\ \E t \in Instants : freezeAck' = [freezeAck EXCEPT !.at = t]
    /\ UNCHANGED <<channelVars, deliveryVars, freeze, failed, request, freezeGen, exportVars, closeVars>>

RestoreLedger ==
    /\ Disturb("restore") /\ exported = None
    /\ \E n \in 0..Len(ledger) : ledger' = Covered(ledger, n)
    /\ closeRow' = None
    /\ UNCHANGED <<channelVars, segments, outbox, acks, last, freezeVars, exportVars,
                   recon, close, closeAck, exported>>

-----------------------------------------------------------------------------
FinalityInit ==
    /\ channel = [gen |-> 1, kinds |-> <<>>, oldest |-> 1]
    /\ segments = <<>> /\ outbox = <<>> /\ acks = <<>> /\ ledger = <<>> /\ last = 0
    /\ freeze = None /\ failed = FALSE
    /\ request = None /\ freezeGen = None /\ freezeAck = None
    /\ evtx = None /\ jsonl = None /\ snapshot = None /\ exportGen = None /\ finalized = None
    /\ recon = None /\ close = None /\ closeAck = None /\ exported = None /\ closeRow = None
    /\ faults = {}

ChannelNext == (\E kind \in {"target", "other"} : Write(kind)) \/ RollOver \/ Clear
SidecarNext == \/ Poll \/ PublishChunk \/ FreezeSnapshot \/ SaveFreezeState \/ FreezeFails
               \/ SidecarCrash \/ WriteFreezeGeneration \/ WriteFreezeAck
RunnerNext  == WriteRequest \/ ExportEvtx \/ CompleteSnapshot \/ WriteRunFinalized
FinalizerNext == Reconcile \/ IssueClose
LedgerNext  == CommitChunk \/ AckChunk \/ CommitClose \/ AckClose \/ ExportClose
FaultNext   == EditSegment \/ EditJsonl \/ RewriteAck \/ RestoreLedger

FinalityNext == ChannelNext \/ SidecarNext \/ RunnerNext \/ FinalizerNext \/ LedgerNext \/ FaultNext

FinalitySpec == FinalityInit /\ [][FinalityNext]_finalityVars

-----------------------------------------------------------------------------
(* The freeze ack proves collector delivery of one bounded snapshot: the   *)
(* chunks it covers were acknowledged, carry exactly the RecordIds of the  *)
(* bound, and are in the ledger unless the database was restored since.    *)
AckMeansDelivered ==
    freezeAck # None =>
        /\ freezeAck.covered <= Len(acks)
        /\ Rids(AllOf(Covered(acks, freezeAck.covered))) = Rids(freezeAck.identity)
        /\ "restore" \notin faults => /\ freezeAck.covered <= Len(ledger)
                         /\ Covered(ledger, freezeAck.covered) = Covered(acks, freezeAck.covered)

(* An accepted close is about what the same database holds: the covered    *)
(* chunks are there, they carry exactly the RecordIds of the canonical     *)
(* snapshot that run-finalized sealed, and no other chunk in the ledger    *)
(* carries a RecordId of the closed range.                                 *)
CloseMeansCommitted ==
    closeRow # None =>
        LET c == closeRow.close IN
        /\ c.covered <= Len(ledger)
        /\ Rids(AllOf(Covered(ledger, c.covered))) = c.ids
        /\ c.ids = Rids(finalized.jsonl) /\ c.ids # {}
        /\ \A i \in DOMAIN ledger : \A e \in ledger[i] :
                c.lower <= e.rid /\ e.rid <= c.upper => i <= c.covered
=============================================================================
