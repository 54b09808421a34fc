---------------------------- MODULE R1StreamLedger ----------------------------
(***************************************************************************)
(* The Role3 delivery ledger of one Run's R1 stream                        *)
(* (storage/repositories/r1_stream_delivery_repository.py and              *)
(* r1_position_close_repository.py) behind R1StreamIngress                 *)
(* (pipeline/r1_stream_ingress.py).                                        *)
(*                                                                         *)
(* Every accept_* call takes the Run's advisory lock first and holds it    *)
(* until its transaction ends, so one delivery is one step; a crash before *)
(* the commit leaves nothing.  Messages come from constant sets and may be *)
(* delivered in any order and any number of times.  A delivery that the    *)
(* ledger answers with "duplicate", or refuses with an exception, changes  *)
(* nothing and is a stuttering step here, except that a late chunk leaves  *)
(* a dead letter outside the transaction.                                  *)
(***************************************************************************)
EXTENDS Naturals, FiniteSets

CONSTANTS
    ChunkMsgs,      \* R1EventChunk messages
    WatermarkMsgs,  \* R1SourceWatermark messages
    CloseMsgs,      \* R1RunClosed messages
    PositionMsgs,   \* R1RecordPositionClose messages
    WatermarkLock,  \* the advisory lock of save_watermark can be taken
    None            \* absent value

Positive == Nat \ {0}

(***************************************************************************)
(* An event is [id, at, rec]: its timestamp and its RecordId, None when    *)
(* that is no canonical decimal.  Content digests are equal exactly when   *)
(* the records are: a message with the identity of another and different   *)
(* content is another record with the same id.                             *)
(***************************************************************************)

\* R1EventChunk
IsChunk(c) ==
    /\ c.seq \in Positive
    /\ c.events # {}
    /\ \A e \in c.events : e.at \in Nat /\ e.rec \in Nat \cup {None}
    /\ \A e, f \in c.events : e.id = f.id => e = f

\* R1SourceWatermark; emitted_at is left out
IsWatermark(w) ==
    /\ w.seq \in Positive /\ w.covered \in Positive
    /\ w.at \in Nat /\ w.lateness \in Nat

\* R1RunClosed: one final watermark for each of some partitions
IsRunClosed(x) ==
    /\ x.finals \subseteq WatermarkMsgs /\ x.finals # {}
    /\ IsFiniteSet(x.finals)
    /\ \A v, w \in x.finals : v.part = w.part => v = w

\* R1RecordPositionClose; the digest of the covered chunk list is the list
IsPositionClose(x) ==
    /\ x.upper \in Nat /\ x.covered \in Positive
    /\ x.list \subseteq ChunkMsgs

ASSUME MessageAssumption ==
    /\ \A c \in ChunkMsgs : IsChunk(c)
    /\ \A w \in WatermarkMsgs : IsWatermark(w)
    /\ \A x \in CloseMsgs : IsRunClosed(x)
    /\ \A x \in PositionMsgs : IsPositionClose(x)

(***************************************************************************)
(* On PostgreSQL the statement _LOCK_WATERMARK_PARTITION cannot type its   *)
(* parameters and raises, so as built no watermark is stored: FALSE.  TRUE *)
(* is the repository once that statement is repaired; its rules are those  *)
(* of the code for the transaction that follows the lock.                  *)
(***************************************************************************)
ASSUME WatermarkLockAssumption == WatermarkLock \in BOOLEAN

ASSUME NoneAssumption ==
    None \notin Nat /\ None \notin CloseMsgs /\ None \notin PositionMsgs

VARIABLES
    chunks,      \* r1_stream_chunks
    events,      \* r1_stream_events: partition and event
    watermarks,  \* r1_stream_watermarks
    close,       \* r1_stream_run_closes: the accepted close, or None
    position,    \* r1_stream_position_closes: the accepted one, or None
    dead         \* dead-letter files: late chunk, watermark, late events

vars == <<chunks, events, watermarks, close, position, dead>>

Init ==
    /\ chunks = {} /\ events = {} /\ watermarks = {}
    /\ close = None /\ position = None /\ dead = {}

-----------------------------------------------------------------------------
(***************************************************************************)
(* What a transaction reads                                                *)
(***************************************************************************)

PartsOf(S) == {m.part : m \in S}
InPart(S, p) == {m \in S : m.part = p}

\* ORDER BY watermark_sequence DESC LIMIT 1
IsLatest(w) ==
    w \in watermarks /\ \A v \in InPart(watermarks, w.part) : v.seq <= w.seq

\* Mutant: compares the number of chunks instead of their sequences.
CoversByCount(p, n) == Cardinality(InPart(chunks, p)) >= n

\* _watermark_covers_received_chunks: chunks 1..n are all present.
Covers(p, n) == \A i \in 1..n : \E c \in InPart(chunks, p) : c.seq = i

\* The partition's frontier: its latest watermark, once that is covered.
ActiveFrontier(w) == IsLatest(w) /\ Covers(w.part, w.covered)

\* An identity or a sequence that an accepted chunk already uses.
ChunkConflict(c) ==
    \E d \in InPart(chunks, c.part) : d.id = c.id \/ d.seq = c.seq

\* _position_close_frontier, _assert_events_are_post_position_close
PositionRefuses(c) ==
    /\ position # None
    /\ \/ position.part # c.part
       \/ \E e \in c.events : e.rec \in Nat => e.rec <= position.upper

NewEvents(c) ==
    {e \in c.events : \A r \in InPart(events, c.part) : r.event.id # e.id}

EventConflict(c) ==
    \E e \in c.events, r \in InPart(events, c.part) :
        r.event.id = e.id /\ r.event # e

\* Mutant: only events before the watermark are late, not those at it.
LateBefore(c, w) == {e \in NewEvents(c) : e.at < w.at}

\* The violating events of _reject_late_events
LateEvents(c, w) == {e \in NewEvents(c) : e.at <= w.at}

IsLate(c) ==
    \E w \in InPart(watermarks, c.part) : ActiveFrontier(w) /\ LateEvents(c, w) # {}

-----------------------------------------------------------------------------
(***************************************************************************)
(* Chunks                                                                  *)
(***************************************************************************)

\* Mutant: a chunk with a new id may reuse a sequence.
AdmissibleById(c) ==
    /\ \A d \in InPart(chunks, c.part) : d.id # c.id
    /\ close = None
    /\ ~PositionRefuses(c)
    /\ ~EventConflict(c)

\* inspect_chunk_admission up to the frontier: neither replay nor refusal.
Admissible(c) ==
    /\ ~ChunkConflict(c)
    /\ close = None
    /\ ~PositionRefuses(c)
    /\ ~EventConflict(c)

\* Mutant: the chunk of a mixed delivery is saved without its new events.
SaveChunkOnly(c) ==
    /\ events' = IF NewEvents(c) = c.events
                 THEN events \cup {[part |-> c.part, event |-> e] : e \in c.events}
                 ELSE events
    /\ chunks' = chunks \cup {c}

\* save_events and save_chunk in one transaction
SaveChunk(c) ==
    /\ events' = events \cup {[part |-> c.part, event |-> e] : e \in NewEvents(c)}
    /\ chunks' = chunks \cup {c}

AcceptChunk(c) ==
    /\ Admissible(c)
    /\ ~IsLate(c)
    /\ SaveChunk(c)
    /\ UNCHANGED <<watermarks, close, position, dead>>

\* The dead letter is an immutable file named after the chunk: a second one
\* of the same chunk is refused by _publish_immutable and changes nothing.
RejectLateChunk(c) ==
    /\ Admissible(c)
    /\ \A d \in dead : d.chunk.id # c.id
    /\ \E w \in InPart(watermarks, c.part) :
          /\ ActiveFrontier(w) /\ LateEvents(c, w) # {}
          /\ dead' = dead \cup
                {[chunk |-> c, watermark |-> w, late |-> LateEvents(c, w)]}
    /\ UNCHANGED <<chunks, events, watermarks, close, position>>

-----------------------------------------------------------------------------
(***************************************************************************)
(* Watermarks and closes                                                   *)
(***************************************************************************)

\* Mutant: the new watermark is compared with nothing but its identity.
AdvancesByName(w) ==
    \A v \in InPart(watermarks, w.part) : v.id # w.id /\ v.seq # w.seq

\* save_watermark: new identity and sequence, and a frontier that advances.
Advances(w) ==
    \A v \in InPart(watermarks, w.part) :
        /\ v.id # w.id /\ v.seq # w.seq
        /\ IsLatest(v) =>
              v.seq < w.seq /\ v.at <= w.at /\ v.lateness = w.lateness

\* save_watermark: the lock comes before every look at the tables.
AcceptWatermark(w) ==
    /\ WatermarkLock
    /\ close = None
    /\ Advances(w)
    /\ watermarks' = watermarks \cup {w}
    /\ UNCHANGED <<chunks, events, close, position, dead>>

KnownPartitions == PartsOf(chunks) \cup PartsOf(watermarks)

\* Mutant: only partitions with a watermark are counted.
FinalsMatchWatermarked(x) ==
    /\ \A f \in x.finals : IsLatest(f)
    /\ Cardinality(PartsOf(watermarks)) = Cardinality(x.finals)

\* assert_final_watermarks_match: every final watermark is the latest one of
\* its partition, and there are as many as known partitions.
FinalsMatch(x) ==
    /\ \A f \in x.finals : IsLatest(f)
    /\ Cardinality(KnownPartitions) = Cardinality(x.finals)

\* save_run_close after assert_final_watermarks_match
AcceptRunClosed(x) ==
    /\ FinalsMatch(x)
    /\ close = None
    /\ close' = x
    /\ UNCHANGED <<chunks, events, watermarks, position, dead>>

CoveredChunks(x) == {c \in InPart(chunks, x.part) : c.seq <= x.covered}

\* Mutant: the list is compared without looking for gaps.
CommittedAsListed(x) == CoveredChunks(x) = x.list

\* _require_committed_covered_chunks: no gap in 1..covered, and the digest
\* of the covered list is the one of the close.
CommittedCoveredChunks(x) ==
    /\ Covers(x.part, x.covered)
    /\ CoveredChunks(x) = x.list

\* save_position_close; independent of watermarks and run_closed
SavePositionClose(x) ==
    /\ position = None
    /\ CommittedCoveredChunks(x)
    /\ position' = x
    /\ UNCHANGED <<chunks, events, watermarks, close, dead>>

Next ==
    \/ \E c \in ChunkMsgs : AcceptChunk(c) \/ RejectLateChunk(c)
    \/ \E w \in WatermarkMsgs : AcceptWatermark(w)
    \/ \E x \in CloseMsgs : AcceptRunClosed(x)
    \/ \E x \in PositionMsgs : SavePositionClose(x)

Spec == Init /\ [][Next]_vars

-----------------------------------------------------------------------------
(***************************************************************************)
(* Correctness                                                             *)
(***************************************************************************)

\* Every table holds rows of its kind.
TypeOK ==
    /\ chunks \subseteq ChunkMsgs
    /\ \A r \in events :
          \E c \in ChunkMsgs : \E e \in c.events :
              r = [part |-> c.part, event |-> e]
    /\ watermarks \subseteq WatermarkMsgs
    /\ close \in CloseMsgs \cup {None}
    /\ position \in PositionMsgs \cup {None}
    /\ \A d \in dead :
          /\ d.chunk \in ChunkMsgs
          /\ d.watermark \in WatermarkMsgs
          /\ d.late # {} /\ d.late \subseteq d.chunk.events

\* inspect_chunk_admission and save_events: within a partition a chunk id, a
\* chunk sequence and an event id each stand for one content for ever,
\* whatever mix of replays and conflicting redeliveries arrives.
OneContentPerIdentity ==
    /\ \A c, d \in chunks : c.part = d.part /\ (c.id = d.id \/ c.seq = d.seq) => c = d
    /\ \A r, s \in events : r.part = s.part /\ r.event.id = s.event.id => r = s

\* save_events and save_chunk commit together: the event table is exactly the
\* events of the accepted chunks, mixed deliveries of old and new included.
EventsAreThoseOfChunks ==
    events = UNION {{[part |-> c.part, event |-> e] : e \in c.events} : c \in chunks}

\* save_watermark compares with the latest watermark only; still the whole
\* history of a partition is ordered: sequence order is event-time order and
\* the lateness budget never changes.
FrontierOrdered ==
    \A v, w \in watermarks : v.part = w.part =>
        /\ v.lateness = w.lateness
        /\ v.seq = w.seq \/ v.id = w.id => v = w
        /\ v.seq < w.seq => v.at <= w.at

\* assert_final_watermarks_match counts partitions, it does not compare them.
\* Still a closed run's final watermarks are those of exactly the partitions
\* the ledger knows, and stay their latest ones: redelivery of the accepted
\* close is a duplicate for ever and never raises.
CloseCoversEveryPartition ==
    close # None =>
        /\ FinalsMatch(close)
        /\ PartsOf(close.finals) = KnownPartitions

\* save_position_close: the chunks a position close was accepted for are, at
\* every later time, all and the only ones of the partition up to its covered
\* sequence, so its digest can be recomputed from the ledger.
PositionCloseStaysBacked ==
    position # None => CommittedCoveredChunks(position)

\* accept_chunk: an event taken up for the first time lies strictly after the
\* active frontier and strictly after the RecordId frontier of a position
\* close, and nothing is taken up once the run is closed.
NothingNewBehindFrontier ==
    [][\A r \in events' \ events :
          /\ close = None
          /\ \A w \in InPart(watermarks, r.part) : ActiveFrontier(w) => r.event.at > w.at
          /\ position # None =>
                /\ r.part = position.part
                /\ r.event.rec \in Nat /\ r.event.rec > position.upper
      ]_vars

\* "Append-only ledger": nothing accepted is removed or replaced, and a
\* run_closed freezes the stream tables.
AppendOnly ==
    [][/\ chunks \subseteq chunks' /\ events \subseteq events'
       /\ watermarks \subseteq watermarks' /\ dead \subseteq dead'
       /\ position # None => position' = position
       /\ close # None =>
            UNCHANGED <<close, chunks, events, watermarks, dead>>
      ]_vars

=============================================================================
