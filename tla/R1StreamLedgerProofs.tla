------------------------- MODULE R1StreamLedgerProofs -------------------------
(***************************************************************************)
(* Proofs about R1StreamLedger for every set of messages: any number of    *)
(* partitions, sequences, identities and colliding contents, delivered in  *)
(* any order and any number of times.                                      *)
(*                                                                         *)
(* The inductive invariant is the conjunction of the invariants the runs   *)
(* check with two facts about what SQL computes: a partition that has      *)
(* watermarks has a latest one (ORDER BY ... LIMIT 1 finds a row), and the *)
(* known partitions are finite (COUNT is a number).                        *)
(***************************************************************************)
EXTENDS R1StreamLedger, FiniteSetTheorems, TLAPS

LatestExists == \A v \in watermarks : \E w \in InPart(watermarks, v.part) : IsLatest(w)

FinitelyManyPartitions == IsFiniteSet(KnownPartitions)

IndInv ==
    /\ TypeOK
    /\ OneContentPerIdentity
    /\ EventsAreThoseOfChunks
    /\ FrontierOrdered
    /\ LatestExists
    /\ FinitelyManyPartitions
    /\ CloseCoversEveryPartition
    /\ PositionCloseStaysBacked

-----------------------------------------------------------------------------
(***************************************************************************)
(* What the operators the ledger is built from promise                     *)
(***************************************************************************)

\* _watermark_covers_received_chunks: a covered sequence is taken, so a chunk
\* without a conflict lies beyond it.
LEMMA NewChunkIsBeyondCovered ==
    ASSUME NEW c \in ChunkMsgs, ~ChunkConflict(c),
           NEW n \in Nat, Covers(c.part, n)
    PROVE  c.seq > n
<1>1. c.seq \in Nat /\ c.seq >= 1
  BY MessageAssumption DEF IsChunk, Positive
<1>2. c.seq \notin 1..n
  BY DEF ChunkConflict, Covers, InPart
<1> QED BY <1>1, <1>2

\* save_watermark compares with the latest watermark of the partition only;
\* that bounds all of them.
LEMMA AdvancesBeyondAll ==
    ASSUME TypeOK, FrontierOrdered, LatestExists,
           NEW w \in WatermarkMsgs, Advances(w),
           NEW v \in watermarks, v.part = w.part
    PROVE  v.seq < w.seq /\ v.at <= w.at /\ v.lateness = w.lateness /\ v.id # w.id
<1>1. PICK u \in InPart(watermarks, v.part) : IsLatest(u)
  BY DEF LatestExists
<1>2. u \in watermarks /\ u.part = w.part /\ u \in InPart(watermarks, w.part)
  BY <1>1 DEF InPart
<1>3. v.seq <= u.seq
  BY <1>1 DEF IsLatest, InPart
<1>4. u.seq < w.seq /\ u.at <= w.at /\ u.lateness = w.lateness
  BY <1>1, <1>2 DEF Advances
<1>5. v.lateness = u.lateness /\ (v.seq = u.seq => v = u) /\ (v.seq < u.seq => v.at <= u.at)
  BY <1>2 DEF FrontierOrdered
<1>6. \A m \in {u, v, w} : m.seq \in Nat /\ m.at \in Nat
  BY <1>2, MessageAssumption DEF TypeOK, IsWatermark, Positive
<1>7. v.id # w.id
  BY DEF Advances, InPart
<1> QED BY <1>3, <1>4, <1>5, <1>6, <1>7

\* assert_final_watermarks_match: equally many final watermarks as known
\* partitions, each the latest of its own, are those of all partitions.
LEMMA CountingPartitionsSuffices ==
    ASSUME FinitelyManyPartitions, NEW x \in CloseMsgs, FinalsMatch(x)
    PROVE  PartsOf(x.finals) = KnownPartitions
<1> DEFINE f == [m \in x.finals |-> m.part]
<1>1. IsFiniteSet(x.finals) /\ \A v, w \in x.finals : v.part = w.part => v = w
  BY MessageAssumption DEF IsRunClosed
<1>2. f \in Surjection(x.finals, PartsOf(x.finals))
  BY DEF Surjection, PartsOf
<1>3. f \in Injection(x.finals, PartsOf(x.finals))
  BY <1>1 DEF Injection, IsInjective, PartsOf
<1>4. Cardinality(PartsOf(x.finals)) = Cardinality(x.finals)
  BY <1>1, <1>2, <1>3, FS_Surjection
<1>5. PartsOf(x.finals) \in SUBSET KnownPartitions
  BY DEF FinalsMatch, IsLatest, PartsOf, KnownPartitions
<1>6. Cardinality(KnownPartitions) = Cardinality(PartsOf(x.finals))
  BY <1>4 DEF FinalsMatch
<1> QED BY <1>5, <1>6, FS_Subset DEF FinitelyManyPartitions

-----------------------------------------------------------------------------
(***************************************************************************)
(* The steps, one lemma per conjunct of the invariant                      *)
(***************************************************************************)

LEMMA TypeStep == TypeOK /\ [Next]_vars => TypeOK'
<1> SUFFICES ASSUME TypeOK, [Next]_vars PROVE TypeOK'
  OBVIOUS
<1>1. ASSUME NEW c \in ChunkMsgs, AcceptChunk(c) PROVE TypeOK'
  BY <1>1 DEF AcceptChunk, SaveChunk, NewEvents, TypeOK
<1>2. ASSUME NEW c \in ChunkMsgs, RejectLateChunk(c) PROVE TypeOK'
  <2>1. PICK w \in InPart(watermarks, c.part) :
            /\ LateEvents(c, w) # {}
            /\ dead' = dead \cup
                 {[chunk |-> c, watermark |-> w, late |-> LateEvents(c, w)]}
    BY <1>2 DEF RejectLateChunk
  <2>2. w \in WatermarkMsgs /\ LateEvents(c, w) \subseteq c.events
    BY DEF InPart, LateEvents, NewEvents, TypeOK
  <2> QED BY <1>2, <2>1, <2>2 DEF RejectLateChunk, TypeOK
<1>3. ASSUME NEW w \in WatermarkMsgs, AcceptWatermark(w) PROVE TypeOK'
  BY <1>3 DEF AcceptWatermark, TypeOK
<1>4. ASSUME NEW x \in CloseMsgs, AcceptRunClosed(x) PROVE TypeOK'
  BY <1>4 DEF AcceptRunClosed, TypeOK
<1>5. ASSUME NEW x \in PositionMsgs, SavePositionClose(x) PROVE TypeOK'
  BY <1>5 DEF SavePositionClose, TypeOK
<1>6. ASSUME UNCHANGED vars PROVE TypeOK'
  BY <1>6 DEF vars, TypeOK
<1> QED BY <1>1, <1>2, <1>3, <1>4, <1>5, <1>6 DEF Next

\* Only an accepted chunk changes the chunk and event tables, and only before
\* the run is closed.
LEMMA OnlyAcceptChunkWrites ==
    ASSUME [Next]_vars
    PROVE  \/ UNCHANGED <<chunks, events>>
           \/ /\ \E c \in ChunkMsgs : AcceptChunk(c)
              /\ close = None /\ UNCHANGED <<watermarks, close, position, dead>>
BY DEF Next, vars, AcceptChunk, Admissible, RejectLateChunk, AcceptWatermark,
       AcceptRunClosed, SavePositionClose

\* Only an accepted watermark changes the watermark table, and only before
\* the run is closed.
LEMMA OnlyAcceptWatermarkWrites ==
    ASSUME [Next]_vars
    PROVE  \/ UNCHANGED watermarks
           \/ /\ \E w \in WatermarkMsgs : AcceptWatermark(w)
              /\ close = None /\ UNCHANGED <<chunks, events, close, position, dead>>
BY DEF Next, vars, AcceptChunk, SaveChunk, RejectLateChunk, AcceptWatermark,
       AcceptRunClosed, SavePositionClose

LEMMA OneContentStep ==
    TypeOK /\ OneContentPerIdentity /\ [Next]_vars => OneContentPerIdentity'
<1> SUFFICES ASSUME TypeOK, OneContentPerIdentity, [Next]_vars
             PROVE  OneContentPerIdentity'
  OBVIOUS
<1>1. CASE UNCHANGED <<chunks, events>>
  BY <1>1 DEF OneContentPerIdentity
<1>2. ASSUME NEW c \in ChunkMsgs, AcceptChunk(c) PROVE OneContentPerIdentity'
  <2>1. \A d \in chunks : d.part = c.part => d.id # c.id /\ d.seq # c.seq
    BY <1>2 DEF AcceptChunk, Admissible, ChunkConflict, InPart
  <2>2. chunks' = chunks \cup {c}
    BY <1>2 DEF AcceptChunk, SaveChunk
  <2>3. \A a, b \in chunks' : a.part = b.part /\ (a.id = b.id \/ a.seq = b.seq) => a = b
    BY <2>1, <2>2 DEF OneContentPerIdentity
  <2>4. events' = events \cup {[part |-> c.part, event |-> e] : e \in NewEvents(c)}
    BY <1>2 DEF AcceptChunk, SaveChunk
  <2>5. \A e, f \in NewEvents(c) : e.id = f.id => e = f
    BY MessageAssumption DEF NewEvents, IsChunk
  <2>6. \A e \in NewEvents(c), r \in events : r.part = c.part => r.event.id # e.id
    BY DEF NewEvents, InPart
  <2>7. \A r, s \in events' : r.part = s.part /\ r.event.id = s.event.id => r = s
    BY <2>4, <2>5, <2>6 DEF OneContentPerIdentity
  <2> QED BY <2>3, <2>7 DEF OneContentPerIdentity
<1> QED BY <1>1, <1>2, OnlyAcceptChunkWrites

LEMMA EventsStep ==
    TypeOK /\ EventsAreThoseOfChunks /\ [Next]_vars => EventsAreThoseOfChunks'
<1> SUFFICES ASSUME TypeOK, EventsAreThoseOfChunks, [Next]_vars
             PROVE  EventsAreThoseOfChunks'
  OBVIOUS
<1>1. CASE UNCHANGED <<chunks, events>>
  BY <1>1 DEF EventsAreThoseOfChunks
<1>2. ASSUME NEW c \in ChunkMsgs, AcceptChunk(c) PROVE EventsAreThoseOfChunks'
  <2> DEFINE Rows(d) == {[part |-> d.part, event |-> e] : e \in d.events}
  <2>1. chunks' = chunks \cup {c}
    BY <1>2 DEF AcceptChunk, SaveChunk
  <2>2. events' = events \cup {[part |-> c.part, event |-> e] : e \in NewEvents(c)}
    BY <1>2 DEF AcceptChunk, SaveChunk
  <2>3. ASSUME NEW e \in c.events, e \notin NewEvents(c)
        PROVE  [part |-> c.part, event |-> e] \in events
    <3>1. PICK r \in events : r.part = c.part /\ r.event.id = e.id
      BY <2>3 DEF NewEvents, InPart
    <3>2. r.event = e
      BY <1>2, <3>1 DEF AcceptChunk, Admissible, EventConflict, InPart
    <3>3. PICK d \in ChunkMsgs : \E g \in d.events : r = [part |-> d.part, event |-> g]
      BY DEF TypeOK
    <3> QED BY <3>1, <3>2, <3>3
  <2>4. events' = events \cup Rows(c)
    BY <2>2, <2>3 DEF NewEvents
  <2>5. events = UNION {Rows(d) : d \in chunks}
    BY DEF EventsAreThoseOfChunks
  <2>6. events' = UNION {Rows(d) : d \in chunks \cup {c}}
    <3> HIDE DEF Rows
    <3>1. \A r : r \in events <=> \E d \in chunks : r \in Rows(d)
      BY <2>5
    <3>2. \A r : r \in events' <=> \E d \in chunks \cup {c} : r \in Rows(d)
      BY <2>4, <3>1
    <3> QED BY <3>2, Zenon
  <2> QED BY <2>1, <2>6, Zenon DEF EventsAreThoseOfChunks
<1> QED BY <1>1, <1>2, OnlyAcceptChunkWrites

LEMMA FrontierStep ==
    TypeOK /\ FrontierOrdered /\ LatestExists /\ [Next]_vars
        => FrontierOrdered' /\ LatestExists'
<1> SUFFICES ASSUME TypeOK, FrontierOrdered, LatestExists, [Next]_vars
             PROVE  FrontierOrdered' /\ LatestExists'
  OBVIOUS
<1>1. CASE UNCHANGED watermarks
  BY <1>1 DEF FrontierOrdered, LatestExists, IsLatest, InPart
<1>2. ASSUME NEW w \in WatermarkMsgs, AcceptWatermark(w)
      PROVE  FrontierOrdered' /\ LatestExists'
  <2>1. watermarks' = watermarks \cup {w} /\ Advances(w)
    BY <1>2 DEF AcceptWatermark
  <2>2. \A v \in watermarks : v.part = w.part =>
            v.seq < w.seq /\ v.at <= w.at /\ v.lateness = w.lateness /\ v.id # w.id
    BY <2>1, AdvancesBeyondAll
  <2>3. \A v \in watermarks' : v.seq \in Nat /\ v.at \in Nat
    BY <2>1, MessageAssumption DEF TypeOK, IsWatermark, Positive
  <2>4. FrontierOrdered'
    BY <2>1, <2>2, <2>3 DEF FrontierOrdered
  <2>5. ASSUME NEW v \in watermarks'
        PROVE  \E u \in watermarks' :
                  u.part = v.part /\ \A t \in watermarks' : t.part = u.part => t.seq <= u.seq
    <3>1. CASE v.part = w.part
      BY <2>1, <2>2, <2>3, <3>1
    <3>2. CASE v.part # w.part
      <4>1. v \in watermarks
        BY <2>1, <3>2
      <4>2. PICK u \in InPart(watermarks, v.part) : IsLatest(u)
        BY <4>1 DEF LatestExists
      <4> QED BY <2>1, <3>2, <4>2 DEF IsLatest, InPart
    <3> QED BY <3>1, <3>2
  <2>6. LatestExists'
    BY <2>5 DEF LatestExists, IsLatest, InPart
  <2> QED BY <2>4, <2>6
<1> QED BY <1>1, <1>2, OnlyAcceptWatermarkWrites

LEMMA FinitenessStep ==
    FinitelyManyPartitions /\ [Next]_vars => FinitelyManyPartitions'
<1> SUFFICES ASSUME FinitelyManyPartitions, [Next]_vars
             PROVE  FinitelyManyPartitions'
  OBVIOUS
<1>1. CASE UNCHANGED <<chunks, watermarks>>
  BY <1>1 DEF FinitelyManyPartitions, KnownPartitions, PartsOf
<1>2. ASSUME NEW c \in ChunkMsgs, AcceptChunk(c) PROVE FinitelyManyPartitions'
  <2>1. KnownPartitions' = KnownPartitions \cup {c.part}
    BY <1>2 DEF AcceptChunk, SaveChunk, KnownPartitions, PartsOf
  <2> QED BY <2>1, FS_AddElement DEF FinitelyManyPartitions
<1>3. ASSUME NEW w \in WatermarkMsgs, AcceptWatermark(w) PROVE FinitelyManyPartitions'
  <2>1. KnownPartitions' = KnownPartitions \cup {w.part}
    BY <1>3 DEF AcceptWatermark, KnownPartitions, PartsOf
  <2> QED BY <2>1, FS_AddElement DEF FinitelyManyPartitions
<1> QED BY <1>1, <1>2, <1>3, OnlyAcceptChunkWrites, OnlyAcceptWatermarkWrites

LEMMA CloseStep ==
    TypeOK /\ FinitelyManyPartitions /\ CloseCoversEveryPartition /\ [Next]_vars
        => CloseCoversEveryPartition'
<1> SUFFICES ASSUME TypeOK, FinitelyManyPartitions, CloseCoversEveryPartition, [Next]_vars
             PROVE  CloseCoversEveryPartition'
  OBVIOUS
<1>1. ASSUME NEW x \in CloseMsgs, AcceptRunClosed(x) PROVE CloseCoversEveryPartition'
  <2>1. FinalsMatch(x) /\ close' = x /\ UNCHANGED <<chunks, watermarks>>
    BY <1>1 DEF AcceptRunClosed
  <2>2. PartsOf(x.finals) = KnownPartitions
    BY <2>1, CountingPartitionsSuffices
  <2> QED BY <2>1, <2>2
       DEF CloseCoversEveryPartition, FinalsMatch, IsLatest, InPart, KnownPartitions, PartsOf
<1>2. CASE UNCHANGED <<close, chunks, watermarks>>
  BY <1>2 DEF CloseCoversEveryPartition, FinalsMatch, IsLatest, InPart,
              KnownPartitions, PartsOf
<1>3. CASE close' = None
  BY <1>3 DEF CloseCoversEveryPartition
<1>4. \/ \E x \in CloseMsgs : AcceptRunClosed(x)
      \/ UNCHANGED <<close, chunks, watermarks>>
      \/ close' = None
  BY DEF Next, vars, AcceptChunk, Admissible, RejectLateChunk, AcceptWatermark,
         SavePositionClose
<1> QED BY <1>1, <1>2, <1>3, <1>4

LEMMA PositionStep ==
    TypeOK /\ PositionCloseStaysBacked /\ [Next]_vars => PositionCloseStaysBacked'
<1> SUFFICES ASSUME TypeOK, PositionCloseStaysBacked, [Next]_vars
             PROVE  PositionCloseStaysBacked'
  OBVIOUS
<1>1. ASSUME NEW x \in PositionMsgs, SavePositionClose(x) PROVE PositionCloseStaysBacked'
  BY <1>1 DEF SavePositionClose, PositionCloseStaysBacked, CommittedCoveredChunks,
              Covers, CoveredChunks, InPart
<1>2. ASSUME NEW c \in ChunkMsgs, AcceptChunk(c) PROVE PositionCloseStaysBacked'
  <2> SUFFICES ASSUME position' # None PROVE CommittedCoveredChunks(position)'
    BY DEF PositionCloseStaysBacked
  <2>1. position' = position /\ chunks' = chunks \cup {c} /\ ~ChunkConflict(c)
    BY <1>2 DEF AcceptChunk, SaveChunk, Admissible
  <2>2. position \in PositionMsgs /\ position.part = c.part
    BY <1>2, <2>1 DEF TypeOK, AcceptChunk, Admissible, PositionRefuses
  <2>3. Covers(position.part, position.covered) /\ CoveredChunks(position) = position.list
    BY <2>1 DEF PositionCloseStaysBacked, CommittedCoveredChunks
  <2>4. position.covered \in Nat
    BY <2>2, MessageAssumption DEF IsPositionClose, Positive
  <2>5. c.seq > position.covered
    BY <2>1, <2>2, <2>3, <2>4, NewChunkIsBeyondCovered
  <2>6. c.seq \in Nat
    BY MessageAssumption DEF IsChunk, Positive
  <2>7. Covers(position.part, position.covered)'
    BY <2>1, <2>3 DEF Covers, InPart
  <2>8. CoveredChunks(position)' = CoveredChunks(position)
    BY <2>1, <2>4, <2>5, <2>6 DEF CoveredChunks, InPart
  <2> QED BY <2>1, <2>3, <2>7, <2>8 DEF CommittedCoveredChunks
<1>3. CASE UNCHANGED <<position, chunks>>
  BY <1>3 DEF PositionCloseStaysBacked, CommittedCoveredChunks, Covers, CoveredChunks, InPart
<1>4. \/ \E x \in PositionMsgs : SavePositionClose(x)
      \/ \E c \in ChunkMsgs : AcceptChunk(c)
      \/ UNCHANGED <<position, chunks>>
  BY DEF Next, vars, RejectLateChunk, AcceptWatermark, AcceptRunClosed
<1> QED BY <1>1, <1>2, <1>3, <1>4

LEMMA IndInvInit == Init => IndInv
<1> SUFFICES ASSUME Init PROVE IndInv
  OBVIOUS
<1>1. TypeOK /\ OneContentPerIdentity /\ FrontierOrdered /\ LatestExists
  BY DEF Init, TypeOK, OneContentPerIdentity, FrontierOrdered, LatestExists
<1>2. EventsAreThoseOfChunks
  BY DEF Init, EventsAreThoseOfChunks
<1>3. KnownPartitions = {}
  BY DEF Init, KnownPartitions, PartsOf
<1>4. FinitelyManyPartitions
  BY <1>3, FS_EmptySet DEF FinitelyManyPartitions
<1>5. CloseCoversEveryPartition /\ PositionCloseStaysBacked
  BY DEF Init, CloseCoversEveryPartition, PositionCloseStaysBacked
<1> QED BY <1>1, <1>2, <1>4, <1>5 DEF IndInv

LEMMA Invariance == Spec => []IndInv
<1>1. IndInv /\ [Next]_vars => IndInv'
  BY TypeStep, OneContentStep, EventsStep, FrontierStep, FinitenessStep,
     CloseStep, PositionStep DEF IndInv
<1> QED BY <1>1, IndInvInit, PTL DEF Spec

-----------------------------------------------------------------------------
(***************************************************************************)
(* The theorems                                                            *)
(***************************************************************************)

\* Every ledger table holds rows of its kind, whatever is delivered.
THEOREM TypeCorrect == Spec => []TypeOK
<1>1. IndInv => TypeOK
  BY DEF IndInv
<1> QED BY <1>1, Invariance, PTL

\* inspect_chunk_admission, save_events: an identity or a sequence stands for
\* one content for ever, for any mix of replays and conflicting redeliveries.
THEOREM IdentitiesAreUnique == Spec => []OneContentPerIdentity
<1>1. IndInv => OneContentPerIdentity
  BY DEF IndInv
<1> QED BY <1>1, Invariance, PTL

\* save_events and save_chunk: the event table is always the union of the
\* accepted chunks.
THEOREM EventTableIsExact == Spec => []EventsAreThoseOfChunks
<1>1. IndInv => EventsAreThoseOfChunks
  BY DEF IndInv
<1> QED BY <1>1, Invariance, PTL

\* save_watermark: comparing with the latest watermark orders all of them.
THEOREM FrontierIsOrdered == Spec => []FrontierOrdered
<1>1. IndInv => FrontierOrdered
  BY DEF IndInv
<1> QED BY <1>1, Invariance, PTL

\* assert_final_watermarks_match: counting the partitions is enough for any
\* number of them, and a close stays redeliverable for ever.
THEOREM CloseIsComplete == Spec => []CloseCoversEveryPartition
<1>1. IndInv => CloseCoversEveryPartition
  BY DEF IndInv
<1> QED BY <1>1, Invariance, PTL

\* save_position_close: an accepted position close stays recomputable from
\* the ledger, whatever chunks are accepted after it.
THEOREM PositionCloseIsBacked == Spec => []PositionCloseStaysBacked
<1>1. IndInv => PositionCloseStaysBacked
  BY DEF IndInv
<1> QED BY <1>1, Invariance, PTL

\* accept_chunk: an event taken up for the first time lies after the active
\* watermark and after the RecordId frontier, and the run is still open.
THEOREM FrontiersHold == Spec => NothingNewBehindFrontier
<1> DEFINE Behind(r) ==
      /\ close = None
      /\ \A w \in InPart(watermarks, r.part) : ActiveFrontier(w) => r.event.at > w.at
      /\ position # None =>
            /\ r.part = position.part
            /\ r.event.rec \in Nat /\ r.event.rec > position.upper
<1>1. ASSUME TypeOK, [Next]_vars PROVE \A r \in events' \ events : Behind(r)
  <2> SUFFICES ASSUME NEW r \in events' \ events PROVE Behind(r)
    OBVIOUS
  <2>1. PICK c \in ChunkMsgs : AcceptChunk(c)
    BY <1>1, OnlyAcceptChunkWrites
  <2>2. PICK e \in NewEvents(c) : r = [part |-> c.part, event |-> e]
    BY <2>1 DEF AcceptChunk, SaveChunk
  <2>3. e \in c.events /\ e.at \in Nat /\ e.rec \in Nat \cup {None}
    BY <2>2, MessageAssumption DEF NewEvents, IsChunk
  <2>4. close = None
    BY <2>1 DEF AcceptChunk, Admissible
  <2>5. ASSUME NEW w \in InPart(watermarks, c.part), ActiveFrontier(w)
        PROVE  e.at > w.at
    <3>1. w.at \in Nat
      BY <1>1, MessageAssumption DEF InPart, TypeOK, IsWatermark
    <3>2. ~(e.at <= w.at)
      BY <2>1, <2>2, <2>5 DEF AcceptChunk, IsLate, LateEvents
    <3> QED BY <2>3, <3>1, <3>2
  <2>6. ASSUME position # None
        PROVE  c.part = position.part /\ e.rec \in Nat /\ e.rec > position.upper
    <3>1. position.upper \in Nat
      BY <1>1, <2>6, MessageAssumption DEF TypeOK, IsPositionClose
    <3>2. position.part = c.part /\ ~(e.rec \in Nat => e.rec <= position.upper)
      BY <2>1, <2>3, <2>6 DEF AcceptChunk, Admissible, PositionRefuses
    <3> QED BY <3>1, <3>2
  <2> QED BY <2>2, <2>4, <2>5, <2>6
<1>2. TypeOK /\ [Next]_vars => [\A r \in events' \ events : Behind(r)]_vars
  BY <1>1
<1> QED BY <1>2, TypeCorrect, PTL DEF Spec, NothingNewBehindFrontier

\* The ledger is append-only, and a run_closed freezes the stream tables.
THEOREM LedgerIsAppendOnly == Spec => AppendOnly
<1> DEFINE Grows ==
      /\ chunks \subseteq chunks' /\ events \subseteq events'
      /\ watermarks \subseteq watermarks' /\ dead \subseteq dead'
      /\ position # None => position' = position
      /\ close # None => UNCHANGED <<close, chunks, events, watermarks, dead>>
<1>1. [Next]_vars => [Grows]_vars
  BY DEF Next, vars, AcceptChunk, Admissible, SaveChunk, RejectLateChunk,
         AcceptWatermark, AcceptRunClosed, SavePositionClose
<1> QED BY <1>1, PTL DEF Spec, AppendOnly
=============================================================================
