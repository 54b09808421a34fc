--------------------------- MODULE R1PositionProofs ---------------------------
(***************************************************************************)
(* Proofs about the close of a Run's records.  First R1PositionFinality,   *)
(* for every channel, any number of chunks and any number of disturbances: *)
(* what the freeze ack and the accepted close say of deliveries and of the *)
(* ledger, and the order of the stamps a close carries.  Both facts are    *)
(* about files that were written many steps apart.  The invariant          *)
(* therefore says what each file keeps of the files it was made from: a    *)
(* saved freeze is at the producer's last RecordId with nothing            *)
(* unpublished, an ack has nothing of its range behind its chunks, and a   *)
(* close names a prefix of the outbox, which ledger and acks follow.       *)
(*                                                                         *)
(* Then R1PositionHandoff: any number of commands that run at once, are    *)
(* killed and run again, over whatever sidecar, runner, finalizer and      *)
(* ledger do meanwhile.  What a command holds was read from files that     *)
(* others may write later.  The invariant says why it does not age: an     *)
(* export is never replaced; a file that is being filled belongs to one    *)
(* command; and an output a command has gone past is on disk, whole,       *)
(* exactly as the command remembers it.                                    *)
(***************************************************************************)
EXTENDS R1PositionHandoff, FiniteSetTheorems, SequenceTheorems, TLAPS

Batches == SUBSET Event

FinalityType ==
    /\ channel \in [gen : Nat, kinds : Seq({"target", "other"}), oldest : Nat]
    /\ Len(channel.kinds) <= MaxRecord
    /\ segments \in Seq(Batches) /\ outbox \in Seq(Batches)
    /\ acks \in Seq(Batches) /\ ledger \in Seq(Batches)
    /\ last \in Nat

(* Role3's acks and its ledger follow the outbox. *)
DeliveryInOrder ==
    /\ Len(outbox) <= Len(segments)
    /\ Len(acks) <= Len(outbox) /\ \A i \in 1..Len(acks) : acks[i] = outbox[i]
    /\ Len(ledger) <= Len(outbox) /\ \A i \in 1..Len(ledger) : ledger[i] = outbox[i]
    /\ "restore" \notin faults => Len(acks) <= Len(ledger)

(* Nothing of the range up to a RecordId is behind the first n chunks, nor *)
(* will the producer ever put it there.                                    *)
NothingBehind(n, upper) ==
    /\ last >= upper
    /\ \A i \in (n + 1)..Len(segments) : \A e \in segments[i] : e.rid > upper

FreezeShape ==
    [lower : Nat, upper : Nat, gen : Nat, bound : Batches, oldest : Nat, at : Instants,
     saved : BOOLEAN]

FreezeIsCurrent ==
    freeze # None =>
        /\ freeze \in FreezeShape
        /\ freeze.bound # {} /\ UniqueRids(freeze.bound)
        /\ freeze.saved => last = freeze.upper /\ AllPublished
        /\ freezeGen # None => freeze.saved /\ Rids(AllOf(segments)) \subseteq Rids(freeze.bound)

AckShape ==
    [lower : Nat, upper : Nat, count : Nat \ {0}, identity : Batches, covered : Nat,
     inventory : Seq(Batches), at : Instants]

AckIsSettled ==
    freezeAck # None =>
        /\ freezeAck \in AckShape
        /\ freezeGen # None
        /\ freezeAck.covered <= Len(acks)
        /\ Rids(AllOf(Covered(acks, freezeAck.covered))) = Rids(freezeAck.identity)
        /\ NothingBehind(freezeAck.covered, freezeAck.upper)

RequestOrdered ==
    request # None =>
        /\ request.boundary \in Nat /\ request.observation \in Nat /\ request.at \in Nat
        /\ request.boundary <= request.observation /\ request.observation <= request.at

(* The stamps of a close and of the files it was issued from. *)
CloseStamps(c) ==
    LET s == c.source IN
    /\ c.boundary <= s.request.at /\ s.request.at <= s.freezeGen.at
    /\ s.freezeGen.at <= s.ack.at /\ s.ack.at <= s.exportGen.at
    /\ s.exportGen.at <= s.finalized.at /\ s.finalized.at <= s.recon.at
    /\ s.recon.at <= c.at

CloseIsSettled ==
    close # None =>
        /\ request # None /\ finalized # None /\ freezeGen # None
        /\ close.covered \in Nat /\ close.upper \in Nat
        /\ close.covered <= Len(acks)
        /\ close.chunks = Covered(outbox, close.covered)
        /\ Rids(AllOf(close.chunks)) = close.ids
        /\ close.ids = Rids(finalized.jsonl) /\ close.ids # {}
        /\ NothingBehind(close.covered, close.upper)
        /\ \A i \in (close.covered + 1)..Len(outbox) : \A e \in outbox[i] : e.rid > close.upper
        /\ close.boundary = request.boundary
        /\ CloseStamps(close)

RowIsOfClose ==
    closeRow # None =>
        close # None /\ closeRow.close = close /\ close.covered <= Len(ledger)

ExportIsOfClose ==
    exported # None =>
        close # None /\ exported.close = close /\ ReceiptBinds(exported.receipt, close)

FinalityInv ==
    /\ FinalityType /\ DeliveryInOrder /\ FreezeIsCurrent /\ AckIsSettled /\ RequestOrdered
    /\ CloseIsSettled /\ RowIsOfClose /\ ExportIsOfClose

-----------------------------------------------------------------------------
(***************************************************************************)
(* Sets of RecordIds                                                       *)
(***************************************************************************)

(* A nonempty set of numbers up to n has a largest one: otherwise adding 1 *)
(* would map the numbers below some member, and 0, into themselves.        *)
LEMMA LargestExists ==
    ASSUME NEW n \in Nat, NEW S \in SUBSET (1..n), S # {}
    PROVE  \E x \in S : \A y \in S : x >= y
<1> SUFFICES ASSUME \A x \in S : \E y \in S : ~(x >= y) PROVE FALSE
  OBVIOUS
<1> DEFINE T == {x \in 1..n : \E y \in S : y >= x}
           U == T \cup {0}
           f == [x \in U |-> x + 1]
<1>1. IsFiniteSet(T)
  <2>1. IsFiniteSet(1..n)
    BY FS_Interval
  <2>2. T \in SUBSET (1..n)
    OBVIOUS
  <2> QED BY <2>1, <2>2, FS_Subset
<1>2. 0 \notin T
  OBVIOUS
<1>3. \A x \in U : x + 1 \in T
  <2> SUFFICES ASSUME NEW x \in U PROVE x + 1 \in T
    OBVIOUS
  <2>1. PICK y \in S : y >= x
    <3>1. CASE x \in T
      BY <3>1
    <3>2. CASE x = 0
      <4>1. PICK y \in S : TRUE
        OBVIOUS
      <4>2. y >= x
        BY <4>1, <3>2
      <4> QED BY <4>1, <4>2
    <3> QED BY <3>1, <3>2
  <2>2. PICK z \in S : ~(y >= z)
    OBVIOUS
  <2>3. x + 1 \in 1..n /\ z >= x + 1
    BY <2>1, <2>2
  <2> QED BY <2>3
<1>4. f \in Injection(U, T)
  <2>1. f \in [U -> T]
    BY <1>3
  <2>2. \A x, y \in U : f[x] = f[y] => x = y
    OBVIOUS
  <2> HIDE DEF T, U, f
  <2> QED BY <2>1, <2>2 DEF Injection, IsInjective
<1>5. Cardinality(U) = Cardinality(T) + 1 /\ Cardinality(T) \in Nat
  BY <1>1, <1>2, FS_AddElement, FS_CardinalityType
<1>6. Cardinality(U) <= Cardinality(T)
  <2> HIDE DEF T, U, f
  <2> QED BY <1>1, <1>4, FS_Injection
<1> QED BY <1>5, <1>6

LEMMA MaxIsLargest ==
    ASSUME NEW n \in Nat, NEW S \in SUBSET (1..n), S # {}
    PROVE  Max(S) \in S /\ \A y \in S : Max(S) >= y
<1> QED BY LargestExists DEF Max

LEMMA MinIsSmallest ==
    ASSUME NEW n \in Nat, NEW S \in SUBSET (1..n), S # {}
    PROVE  Min(S) \in S /\ \A y \in S : Min(S) <= y
<1> DEFINE T == {n + 1 - x : x \in S}
<1>1. T \in SUBSET (1..n) /\ T # {}
  <2>1. \A x \in S : x \in Int /\ 1 <= x /\ x <= n
    OBVIOUS
  <2>2. \A x \in S : n + 1 - x \in 1..n
    BY <2>1
  <2>3. PICK x \in S : TRUE
    OBVIOUS
  <2>4. n + 1 - x \in T
    OBVIOUS
  <2> QED  BY <2>2, <2>4
<1>2. PICK t \in T : \A y \in T : t >= y
  <2> HIDE DEF T
  <2> QED BY <1>1, LargestExists
<1>3. PICK x \in S : t = n + 1 - x
  BY <1>2
<1>4. \A y \in S : x <= y
  <2> SUFFICES ASSUME NEW y \in S PROVE x <= y
    OBVIOUS
  <2>1. t >= n + 1 - y
    BY <1>2
  <2> QED BY <2>1, <1>3
<1>5. \E z \in S : \A y \in S : z =< y
  BY <1>4
<1> QED BY <1>5 DEF Min

(* Events with different RecordIds are as many as their RecordIds. *)
LEMMA CountRids ==
    ASSUME NEW S \in Batches, UniqueRids(S)
    PROVE  /\ IsFiniteSet(S) /\ IsFiniteSet(Rids(S))
           /\ Cardinality(S) = Cardinality(Rids(S))
<1> DEFINE f == [r \in Rids(S) |-> CHOOSE e \in S : e.rid = r]
<1>1. IsFiniteSet(Rids(S))
  <2>1. IsFiniteSet(1..MaxRecord)
    BY FinalityAssumption, FS_Interval
  <2>2. Rids(S) \in SUBSET (1..MaxRecord)
    BY DEF Rids, Batches, Event, RecordIds
  <2> QED BY <2>1, <2>2, FS_Subset
<1>2. \A r \in Rids(S) : f[r] \in S /\ f[r].rid = r
  BY DEF Rids
<1>3. \A e \in S : e.rid \in Rids(S) /\ f[e.rid] = e
  BY <1>2 DEF UniqueRids, Rids
<1>4. f \in Bijection(Rids(S), S)
  <2>1. f \in [Rids(S) -> S]
    BY <1>2
  <2>2. \A q, r \in Rids(S) : f[q] = f[r] => q = r
    BY <1>2
  <2>3. \A e \in S : \E r \in Rids(S) : f[r] = e
    BY <1>3
  <2> HIDE DEF f
  <2> QED BY <2>1, <2>2, <2>3 DEF Bijection, Injection, IsInjective, Surjection
<1>5. ExistsBijection(Rids(S), S)
  <2> HIDE DEF f
  <2> QED BY <1>4 DEF ExistsBijection
<1> QED BY <1>1, <1>5, FS_Bijection

-----------------------------------------------------------------------------
(***************************************************************************)
(* Sequences of chunks                                                     *)
(***************************************************************************)
LEMMA CoveredIs ==
    ASSUME NEW q \in Seq(Batches), NEW n \in 0..Len(q)
    PROVE  /\ Covered(q, n) \in Seq(Batches)
           /\ DOMAIN Covered(q, n) = 1..n
           /\ \A i \in 1..n : Covered(q, n)[i] = q[i]
  BY DEF Covered

(* Sequences that agree up to n cover the same. *)
LEMMA CoveredSame ==
    ASSUME NEW q \in Seq(Batches), NEW r \in Seq(Batches), NEW n \in Nat,
           n <= Len(q), n <= Len(r), \A i \in 1..n : q[i] = r[i]
    PROVE  Covered(q, n) = Covered(r, n)
<1>1. Covered(q, n) \in Seq(Batches) /\ Covered(r, n) \in Seq(Batches)
  BY CoveredIs
<1>2. Len(Covered(q, n)) = n /\ Len(Covered(r, n)) = n
  BY DEF Covered
<1>3. \A i \in 1..n : Covered(q, n)[i] = Covered(r, n)[i]
  BY CoveredIs
<1> QED BY <1>1, <1>2, <1>3

(* Whatever is appended, what was covered stays. *)
LEMMA CoveredAppend ==
    ASSUME NEW q \in Seq(Batches), NEW b \in Batches, NEW n \in Nat, n <= Len(q)
    PROVE  Covered(Append(q, b), n) = Covered(q, n)
<1>1. Append(q, b) \in Seq(Batches) /\ Len(Append(q, b)) = Len(q) + 1
  OBVIOUS
<1>2. \A i \in 1..n : Append(q, b)[i] = q[i]
  OBVIOUS
<1>3. n <= Len(Append(q, b))
  BY <1>1
<1> QED BY <1>1, <1>2, <1>3, CoveredSame

LEMMA RidsOfCovered ==
    ASSUME NEW q \in Seq(Batches), NEW n \in Nat, n <= Len(q)
    PROVE  /\ AllOf(Covered(q, n)) \in Batches
           /\ AllOf(Covered(q, n)) \subseteq AllOf(q)
           /\ Rids(AllOf(Covered(q, n))) \subseteq Rids(AllOf(q))
<1>1. /\ DOMAIN Covered(q, n) = 1..n
      /\ \A i \in 1..n : Covered(q, n)[i] = q[i] /\ q[i] \in Batches
  BY CoveredIs
<1>2. 1..n \subseteq DOMAIN q
  OBVIOUS
<1>3. AllOf(Covered(q, n)) = UNION {q[i] : i \in 1..n}
  BY <1>1 DEF AllOf
<1>4. AllOf(Covered(q, n)) \subseteq AllOf(q)
  BY <1>2, <1>3 DEF AllOf
<1>5. AllOf(Covered(q, n)) \in Batches
  BY <1>1, <1>3 DEF Batches
<1> QED BY <1>4, <1>5 DEF Rids

LEMMA RidsOfAppend ==
    ASSUME NEW q \in Seq(Batches), NEW b \in Batches
    PROVE  /\ AllOf(Append(q, b)) = AllOf(q) \cup b
           /\ Rids(AllOf(Append(q, b))) = Rids(AllOf(q)) \cup Rids(b)
<1>1. /\ DOMAIN Append(q, b) = 1..(Len(q) + 1) /\ DOMAIN q = 1..Len(q)
      /\ \A i \in 1..Len(q) : Append(q, b)[i] = q[i]
      /\ Append(q, b)[Len(q) + 1] = b
  OBVIOUS
<1>2. AllOf(Append(q, b)) = AllOf(q) \cup b
  <2>1. \A e : e \in AllOf(Append(q, b)) <=> \E i \in 1..(Len(q) + 1) : e \in Append(q, b)[i]
    BY <1>1 DEF AllOf
  <2>2. \A e : e \in AllOf(q) <=> \E i \in 1..Len(q) : e \in q[i]
    BY <1>1 DEF AllOf
  <2>3. \A i \in 1..(Len(q) + 1) : i \in 1..Len(q) \/ i = Len(q) + 1
    OBVIOUS
  <2>4. 1..Len(q) \subseteq 1..(Len(q) + 1) /\ Len(q) + 1 \in 1..(Len(q) + 1)
    OBVIOUS
  <2> QED BY <1>1, <2>1, <2>2, <2>3, <2>4, Zenon
<1> QED BY <1>2 DEF Rids

(* Records of the channel. *)
LEMMA TargetsAreEvents ==
    ASSUME FinalityType
    PROVE  /\ Targets(channel) \in Batches /\ UniqueRids(Targets(channel))
           /\ \A S \in SUBSET Targets(channel) : S \in Batches /\ UniqueRids(S)
<1>1. Retained(channel) \subseteq RecordIds
  BY FinalityAssumption DEF FinalityType, Retained, RecordIds
<1>2. \A e \in Targets(channel) : /\ e.rid \in RecordIds
                                  /\ e = [gen |-> channel.gen, rid |-> e.rid]
  BY <1>1 DEF Targets
<1>3. channel.gen \in Nat
  BY DEF FinalityType
<1>4. Targets(channel) \in Batches
  BY <1>2, <1>3 DEF Batches, Event
<1>5. UniqueRids(Targets(channel))
  BY <1>2 DEF UniqueRids
<1>6. \A S \in SUBSET Targets(channel) : S \in Batches /\ UniqueRids(S)
  BY <1>4, <1>5 DEF Batches, UniqueRids
<1> QED BY <1>4, <1>5, <1>6

-----------------------------------------------------------------------------
(***************************************************************************)
(* The invariant holds initially, and a part of it survives every step     *)
(* that leaves its variables alone.                                        *)
(***************************************************************************)
LEMMA FinalityInvInit == FinalityInit => FinalityInv
<1> SUFFICES ASSUME FinalityInit PROVE FinalityInv
  OBVIOUS
<1>1. FinalityType
  BY FinalityAssumption DEF FinalityInit, FinalityType
<1>2. DeliveryInOrder
  BY DEF FinalityInit, DeliveryInOrder
<1>3. FreezeIsCurrent /\ AckIsSettled /\ RequestOrdered
  BY DEF FinalityInit, FreezeIsCurrent, AckIsSettled, RequestOrdered
<1>4. CloseIsSettled /\ RowIsOfClose /\ ExportIsOfClose
  BY DEF FinalityInit, CloseIsSettled, RowIsOfClose, ExportIsOfClose
<1> QED BY <1>1, <1>2, <1>3, <1>4 DEF FinalityInv

LEMMA Undisturbed ==
    ASSUME FinalityInv, faults \subseteq faults'
    PROVE  /\ UNCHANGED <<channel, segments, outbox, acks, ledger, last>> => FinalityType'
           /\ UNCHANGED <<segments, outbox, acks, ledger>> => DeliveryInOrder'
           /\ UNCHANGED <<freeze, freezeGen, last, segments, outbox>> => FreezeIsCurrent'
           /\ UNCHANGED <<freezeAck, freezeGen, acks, last, segments>> => AckIsSettled'
           /\ UNCHANGED request => RequestOrdered'
           /\ UNCHANGED <<close, request, finalized, freezeGen, acks, outbox, last, segments>>
                 => CloseIsSettled'
           /\ UNCHANGED <<closeRow, close, ledger>> => RowIsOfClose'
           /\ UNCHANGED <<exported, close>> => ExportIsOfClose'
<1>1. UNCHANGED <<channel, segments, outbox, acks, ledger, last>> => FinalityType'
  BY DEF FinalityInv, FinalityType
<1>2. UNCHANGED <<segments, outbox, acks, ledger>> => DeliveryInOrder'
  BY DEF FinalityInv, DeliveryInOrder
<1>3. UNCHANGED <<freeze, freezeGen, last, segments, outbox>> => FreezeIsCurrent'
  BY DEF FinalityInv, FreezeIsCurrent, AllPublished
<1>4. UNCHANGED <<freezeAck, freezeGen, acks, last, segments>> => AckIsSettled'
  BY DEF FinalityInv, AckIsSettled, NothingBehind
<1>5. UNCHANGED request => RequestOrdered'
  BY DEF FinalityInv, RequestOrdered
<1>6. UNCHANGED <<close, request, finalized, freezeGen, acks, outbox, last, segments>>
        => CloseIsSettled'
  BY DEF FinalityInv, CloseIsSettled, NothingBehind
<1>7. UNCHANGED <<closeRow, close, ledger>> => RowIsOfClose'
  BY DEF FinalityInv, RowIsOfClose
<1>8. UNCHANGED <<exported, close>> => ExportIsOfClose'
  BY DEF FinalityInv, ExportIsOfClose
<1> QED BY <1>1, <1>2, <1>3, <1>4, <1>5, <1>6, <1>7, <1>8

(* The producer never comes back to RecordIds it has passed. *)
LEMMA StillNothingBehind ==
    ASSUME FinalityType, NEW n \in Nat, NEW upper \in Nat, NothingBehind(n, upper),
           NEW new \in Batches, \A e \in new : e.rid > last,
           segments' = Append(segments, new), last' \in Nat, last' >= last
    PROVE  NothingBehind(n, upper)'
<1>1. last \in Nat /\ last >= upper
  BY DEF FinalityType, NothingBehind
<1>2. last' >= upper
  BY <1>1
<1>3. ASSUME NEW i \in (n + 1)..Len(segments'), NEW e \in segments'[i] PROVE e.rid > upper
  <2>1. segments \in Seq(Batches) /\ Len(segments') = Len(segments) + 1
    BY DEF FinalityType
  <2>2. CASE i = Len(segments) + 1
    <3>1. e \in new
      BY <2>1, <2>2
    <3>2. e.rid \in Nat /\ e.rid > last
      BY <3>1, FinalityAssumption DEF Batches, Event, RecordIds
    <3> QED BY <3>2, <1>1
  <2>3. CASE i \in (n + 1)..Len(segments)
    <3>1. segments'[i] = segments[i]
      BY <2>1, <2>3
    <3> QED BY <3>1, <2>3 DEF NothingBehind
  <2> QED BY <2>1, <2>2, <2>3
<1> QED BY <1>2, <1>3 DEF NothingBehind

-----------------------------------------------------------------------------
(***************************************************************************)
(* The channel                                                             *)
(***************************************************************************)
LEMMA ChannelStep ==
    ASSUME FinalityInv, ChannelNext
    PROVE  FinalityInv'
<1>1. /\ UNCHANGED <<deliveryVars, freezeVars, exportVars, closeVars>>
      /\ faults \subseteq faults'
  BY DEF ChannelNext, Write, RollOver, Clear, Disturb
<1>2. FinalityType'
  <2>1. channel' \in [gen : Nat, kinds : Seq({"target", "other"}), oldest : Nat]
    <3>1. ASSUME NEW kind \in {"target", "other"}, Write(kind)
          PROVE  channel' \in [gen : Nat, kinds : Seq({"target", "other"}), oldest : Nat]
      <4>1. channel' = [channel EXCEPT !.kinds = Append(@, kind)]
        BY <3>1 DEF Write
      <4>2. channel' = [gen |-> channel.gen, kinds |-> Append(channel.kinds, kind),
                        oldest |-> channel.oldest]
        BY <4>1 DEF FinalityInv, FinalityType
      <4>3. /\ channel.gen \in Nat /\ channel.oldest \in Nat
            /\ Append(channel.kinds, kind) \in Seq({"target", "other"})
        BY DEF FinalityInv, FinalityType
      <4> QED BY <4>2, <4>3
    <3>2. CASE RollOver
      <4>1. channel' = [channel EXCEPT !.oldest = @ + 1]
        BY <3>2 DEF RollOver
      <4>2. channel' = [gen |-> channel.gen, kinds |-> channel.kinds,
                        oldest |-> channel.oldest + 1]
        BY <4>1 DEF FinalityInv, FinalityType
      <4>3. /\ channel.gen \in Nat /\ channel.oldest + 1 \in Nat
            /\ channel.kinds \in Seq({"target", "other"})
        BY DEF FinalityInv, FinalityType
      <4> QED BY <4>2, <4>3
    <3>3. CASE Clear
      <4>1. channel' = [gen |-> channel.gen + 1, kinds |-> <<>>, oldest |-> 1]
        BY <3>3 DEF Clear
      <4>2. channel.gen + 1 \in Nat /\ <<>> \in Seq({"target", "other"})
        BY DEF FinalityInv, FinalityType
      <4> QED BY <4>1, <4>2
    <3> QED BY <3>1, <3>2, <3>3 DEF ChannelNext
  <2>2. Len(channel'.kinds) <= MaxRecord
    <3>1. ASSUME NEW kind \in {"target", "other"}, Write(kind)
          PROVE  Len(channel'.kinds) <= MaxRecord
      BY <3>1, FinalityAssumption DEF Write, Newest, FinalityInv, FinalityType
    <3>2. CASE RollOver
      BY <3>2 DEF RollOver, FinalityInv, FinalityType
    <3>3. CASE Clear
      BY <3>3, FinalityAssumption DEF Clear, FinalityInv, FinalityType
    <3> QED BY <3>1, <3>2, <3>3 DEF ChannelNext
  <2> QED BY <1>1, <2>1, <2>2 DEF FinalityInv, FinalityType, deliveryVars
<1> QED BY <1>1, <1>2, Undisturbed DEF FinalityInv, deliveryVars, freezeVars, exportVars, closeVars

-----------------------------------------------------------------------------
(***************************************************************************)
(* The producer and Role3's consume                                        *)
(***************************************************************************)
LEMMA PollStep ==
    ASSUME FinalityInv, Poll
    PROVE  FinalityInv'
<1> DEFINE new == {e \in Targets(channel) : e.rid > last}
<1>1. /\ new # {} /\ segments' = Append(segments, new) /\ last' = Max(Rids(new))
      /\ freeze = None
      /\ UNCHANGED <<channel, outbox, acks, ledger, freezeVars, exportVars, closeVars, faults>>
  BY DEF Poll, Polling, channelVars
<1>2. new \in Batches
  BY TargetsAreEvents DEF FinalityInv
<1>3. last' \in Nat /\ last' >= last
  <2>1. Rids(new) \in SUBSET (1..MaxRecord) /\ Rids(new) # {}
    BY <1>1, <1>2 DEF Rids, Batches, Event, RecordIds
  <2>2. Max(Rids(new)) \in Rids(new)
    BY <2>1, MaxIsLargest, FinalityAssumption
  <2>3. Max(Rids(new)) > last
    BY <2>2 DEF Rids
  <2>4. Max(Rids(new)) \in Nat /\ last \in Nat
    BY <2>1, <2>2 DEF FinalityInv, FinalityType
  <2> QED BY <1>1, <2>3, <2>4
<1>4. \A e \in new : e.rid > last
  OBVIOUS
<1> HIDE DEF new
<1>5. segments \in Seq(Batches) /\ Len(segments') = Len(segments) + 1
  BY <1>1 DEF FinalityInv, FinalityType
<1>6. FinalityType'
  BY <1>1, <1>2, <1>3 DEF FinalityInv, FinalityType
<1>7. DeliveryInOrder'
  <2>1. Len(outbox) \in Nat /\ Len(segments) \in Nat
    BY DEF FinalityInv, FinalityType
  <2> QED BY <1>1, <1>5, <2>1 DEF FinalityInv, DeliveryInOrder
<1>8. FreezeIsCurrent'
  BY <1>1 DEF FreezeIsCurrent, freezeVars
<1>9. AckIsSettled'
  <2>1. freezeAck # None => freezeAck.covered \in Nat /\ freezeAck.upper \in Nat
    BY DEF FinalityInv, AckIsSettled, AckShape
  <2>2. freezeAck # None => NothingBehind(freezeAck.covered, freezeAck.upper)'
    BY <1>1, <1>2, <1>3, <1>4, <2>1, StillNothingBehind DEF FinalityInv, AckIsSettled, freezeVars
  <2> QED BY <1>1, <2>2 DEF FinalityInv, AckIsSettled, freezeVars
<1>10. CloseIsSettled'
  <2>1. close # None => NothingBehind(close.covered, close.upper)'
    BY <1>1, <1>2, <1>3, <1>4, StillNothingBehind DEF FinalityInv, CloseIsSettled, closeVars
  <2> QED BY <1>1, <2>1 DEF FinalityInv, CloseIsSettled, freezeVars, exportVars, closeVars
<1> QED BY <1>1, <1>6, <1>7, <1>8, <1>9, <1>10, Undisturbed
        DEF FinalityInv, freezeVars, exportVars, closeVars

LEMMA PublishChunkStep ==
    ASSUME FinalityInv, PublishChunk
    PROVE  FinalityInv'
<1> DEFINE new == segments[Len(outbox) + 1]
<1>1. /\ Len(outbox) < Len(segments) /\ outbox' = Append(outbox, new)
      /\ UNCHANGED <<channel, segments, acks, ledger, last, freezeVars, exportVars, closeVars,
                     faults>>
  BY DEF PublishChunk, channelVars
<1>2. /\ segments \in Seq(Batches) /\ outbox \in Seq(Batches)
      /\ acks \in Seq(Batches) /\ ledger \in Seq(Batches)
  BY DEF FinalityInv, FinalityType
<1>3. new \in Batches /\ Len(outbox') = Len(outbox) + 1 /\ outbox' \in Seq(Batches)
  BY <1>1, <1>2
<1>4. \A i \in 1..Len(outbox) : outbox'[i] = outbox[i]
  BY <1>1, <1>2
<1>5. FinalityType'
  BY <1>1, <1>3 DEF FinalityInv, FinalityType
<1>6. DeliveryInOrder'
  BY <1>1, <1>2, <1>3, <1>4 DEF FinalityInv, DeliveryInOrder
<1>7. FreezeIsCurrent'
  <2>1. freeze # None => ~freeze.saved
    BY <1>1, <1>2 DEF FinalityInv, FreezeIsCurrent, AllPublished
  <2> QED BY <1>1, <2>1 DEF FinalityInv, FreezeIsCurrent, freezeVars
<1>8. CloseIsSettled'
  <2> SUFFICES ASSUME close # None PROVE CloseIsSettled'
    BY <1>1 DEF CloseIsSettled, closeVars
  <2>1. /\ close.covered \in Nat /\ close.covered <= Len(outbox)
        /\ NothingBehind(close.covered, close.upper)
        /\ \A i \in (close.covered + 1)..Len(outbox) : \A e \in outbox[i] : e.rid > close.upper
    BY <1>2 DEF FinalityInv, CloseIsSettled, DeliveryInOrder
  <2>2. Covered(outbox', close.covered) = Covered(outbox, close.covered)
    BY <1>1, <1>2, <1>3, <2>1, CoveredAppend
  <2>3. \A i \in (close.covered + 1)..Len(outbox') : \A e \in outbox'[i] : e.rid > close.upper
    <3> SUFFICES ASSUME NEW i \in (close.covered + 1)..Len(outbox')
                 PROVE  \A e \in outbox'[i] : e.rid > close.upper
      OBVIOUS
    <3>1. CASE i = Len(outbox) + 1
      <4>1. outbox'[i] = segments[i] /\ i \in (close.covered + 1)..Len(segments)
        BY <1>1, <1>2, <2>1, <3>1
      <4> QED BY <4>1, <2>1 DEF NothingBehind
    <3>2. CASE i \in (close.covered + 1)..Len(outbox)
      <4>1. outbox'[i] = outbox[i]
        BY <1>4, <2>1, <3>2
      <4> QED BY <4>1, <3>2, <2>1
    <3> QED BY <1>2, <1>3, <2>1, <3>1, <3>2
  <2> QED BY <1>1, <2>2, <2>3
          DEF FinalityInv, CloseIsSettled, NothingBehind, freezeVars, exportVars, closeVars
<1> QED BY <1>1, <1>5, <1>6, <1>7, <1>8, Undisturbed
        DEF FinalityInv, freezeVars, exportVars, closeVars

LEMMA CommitChunkStep ==
    ASSUME FinalityInv, CommitChunk
    PROVE  FinalityInv'
<1> DEFINE new == outbox[Len(acks) + 1]
<1>1. /\ Len(acks) < Len(outbox) /\ Len(ledger) = Len(acks) /\ ledger' = Append(ledger, new)
      /\ UNCHANGED <<channel, segments, outbox, acks, last, freezeVars, exportVars, closeVars,
                     faults>>
  BY DEF CommitChunk, channelVars
<1>2. outbox \in Seq(Batches) /\ acks \in Seq(Batches) /\ ledger \in Seq(Batches)
  BY DEF FinalityInv, FinalityType
<1>3. /\ new \in Batches /\ Len(ledger') = Len(ledger) + 1 /\ ledger' \in Seq(Batches)
      /\ \A i \in 1..Len(ledger) : ledger'[i] = ledger[i]
      /\ ledger'[Len(ledger) + 1] = outbox[Len(ledger) + 1]
  BY <1>1, <1>2
<1>4. FinalityType'
  BY <1>1, <1>3 DEF FinalityInv, FinalityType
<1>5. DeliveryInOrder'
  <2>1. \A i \in 1..Len(ledger') : ledger'[i] = outbox[i]
    <3>1. \A i \in 1..Len(ledger') : i \in 1..Len(ledger) \/ i = Len(ledger) + 1
      BY <1>2, <1>3
    <3>2. \A i \in 1..Len(ledger) : ledger[i] = outbox[i]
      BY DEF FinalityInv, DeliveryInOrder
    <3> QED BY <1>3, <3>1, <3>2
  <2> QED BY <1>1, <1>2, <1>3, <2>1 DEF FinalityInv, DeliveryInOrder
<1>6. RowIsOfClose'
  <2>1. close # None => close.covered \in Nat
    BY DEF FinalityInv, CloseIsSettled
  <2> QED BY <1>1, <1>2, <1>3, <2>1 DEF FinalityInv, RowIsOfClose, closeVars
<1> QED BY <1>1, <1>4, <1>5, <1>6, Undisturbed
        DEF FinalityInv, freezeVars, exportVars, closeVars

LEMMA AckChunkStep ==
    ASSUME FinalityInv, AckChunk
    PROVE  FinalityInv'
<1> DEFINE new == outbox[Len(acks) + 1]
<1>1. /\ Len(acks) < Len(ledger) /\ Len(acks) < Len(outbox) /\ acks' = Append(acks, new)
      /\ UNCHANGED <<channel, segments, outbox, ledger, last, freezeVars, exportVars, closeVars,
                     faults>>
  BY DEF AckChunk, channelVars
<1>2. outbox \in Seq(Batches) /\ acks \in Seq(Batches) /\ ledger \in Seq(Batches)
  BY DEF FinalityInv, FinalityType
<1>3. /\ new \in Batches /\ Len(acks') = Len(acks) + 1 /\ acks' \in Seq(Batches)
      /\ \A i \in 1..Len(acks) : acks'[i] = acks[i]
      /\ acks'[Len(acks) + 1] = outbox[Len(acks) + 1]
  BY <1>1, <1>2
<1>4. FinalityType'
  BY <1>1, <1>3 DEF FinalityInv, FinalityType
<1>5. DeliveryInOrder'
  <2>1. \A i \in 1..Len(acks') : acks'[i] = outbox[i]
    BY <1>2, <1>3 DEF FinalityInv, DeliveryInOrder
  <2> QED BY <1>1, <1>2, <1>3, <2>1 DEF FinalityInv, DeliveryInOrder
<1>6. AckIsSettled'
  <2> SUFFICES ASSUME freezeAck # None PROVE AckIsSettled'
    BY <1>1 DEF AckIsSettled, freezeVars
  <2>1. freezeAck.covered \in Nat /\ freezeAck.covered <= Len(acks)
    BY DEF FinalityInv, AckIsSettled, AckShape
  <2>2. Covered(acks', freezeAck.covered) = Covered(acks, freezeAck.covered)
    BY <1>1, <1>2, <1>3, <2>1, CoveredAppend
  <2>3. freezeAck.covered <= Len(acks')
    BY <1>2, <1>3, <2>1
  <2> QED BY <1>1, <2>2, <2>3 DEF FinalityInv, AckIsSettled, NothingBehind, freezeVars
<1>7. CloseIsSettled'
  <2>1. close # None => close.covered \in Nat /\ close.covered <= Len(acks')
    BY <1>2, <1>3 DEF FinalityInv, CloseIsSettled
  <2> QED BY <1>1, <2>1
          DEF FinalityInv, CloseIsSettled, NothingBehind, freezeVars, exportVars, closeVars
<1> QED BY <1>1, <1>4, <1>5, <1>6, <1>7, Undisturbed
        DEF FinalityInv, freezeVars, exportVars, closeVars

-----------------------------------------------------------------------------
(***************************************************************************)
(* The freeze                                                              *)
(***************************************************************************)
LEMMA WriteRequestStep ==
    ASSUME FinalityInv, WriteRequest
    PROVE  FinalityInv'
<1>1. /\ request = None
      /\ UNCHANGED <<channelVars, deliveryVars, freeze, failed, freezeGen, freezeAck, exportVars,
                     closeVars, faults>>
  BY DEF WriteRequest
<1>2. RequestOrdered'
  BY FinalityAssumption DEF WriteRequest, RequestOrdered
<1>3. CloseIsSettled'
  <2>1. close = None
    BY <1>1 DEF FinalityInv, CloseIsSettled
  <2> QED BY <1>1, <2>1 DEF CloseIsSettled, closeVars
<1> QED BY <1>1, <1>2, <1>3, Undisturbed
        DEF FinalityInv, channelVars, deliveryVars, exportVars, closeVars

(* The bound of a snapshot is not empty: it holds the first target. *)
LEMMA FreezeSnapshotStep ==
    ASSUME FinalityInv, FreezeSnapshot
    PROVE  FinalityInv'
<1> DEFINE new == {e \in Targets(channel) : e.rid > last}
           lower == Min(Rids(Targets(channel)))
           upper == Newest(channel)
           bound == Bound(channel, lower, upper)
<1>1. /\ freezeGen = None /\ Targets(channel) # {}
      /\ UNCHANGED <<channel, outbox, acks, ledger, last, failed, request, freezeGen, freezeAck,
                     exportVars, closeVars, faults>>
      /\ segments' = IF new = {} THEN segments ELSE Append(segments, new)
  BY DEF FreezeSnapshot, Freezing, SnapshotOK, channelVars
<1>2. PICK t \in Instants :
        freeze' = [lower |-> lower, upper |-> upper, gen |-> channel.gen, bound |-> bound,
                   oldest |-> channel.oldest, at |-> t, saved |-> FALSE]
  BY DEF FreezeSnapshot
<1>3. new \in Batches /\ bound \in Batches /\ UniqueRids(bound)
  <2>1. bound \in SUBSET Targets(channel) /\ new \in SUBSET Targets(channel)
    BY DEF Bound
  <2> QED BY <2>1, TargetsAreEvents DEF FinalityInv
<1>4. lower \in Nat /\ upper \in Nat /\ bound # {}
  <2>1. /\ Rids(Targets(channel)) \in SUBSET (1..MaxRecord) /\ Rids(Targets(channel)) # {}
        /\ \A e \in Targets(channel) : e.rid <= Newest(channel) /\ e.rid \in Nat
    <3>1. Targets(channel) \in Batches
      BY TargetsAreEvents DEF FinalityInv
    <3>2. Rids(Targets(channel)) \in SUBSET (1..MaxRecord) /\ Rids(Targets(channel)) # {}
      BY <1>1, <3>1 DEF Rids, Batches, Event, RecordIds
    <3>3. \A e \in Targets(channel) : e.rid \in DOMAIN channel.kinds
      BY DEF Targets, Retained
    <3>4. DOMAIN channel.kinds = 1..Newest(channel)
      BY DEF FinalityInv, FinalityType, Newest
    <3> QED BY <3>2, <3>3, <3>4 DEF FinalityInv, FinalityType, Newest
  <2>2. lower \in Rids(Targets(channel)) /\ \A y \in Rids(Targets(channel)) : lower <= y
    BY <2>1, MinIsSmallest, FinalityAssumption
  <2>3. lower \in Nat
    BY <2>1, <2>2
  <2>4. upper \in Nat
    BY DEF FinalityInv, FinalityType, Newest
  <2>5. PICK e \in Targets(channel) : e.rid = lower
    BY <2>2 DEF Rids
  <2>6. e \in bound
    <3>1. lower <= e.rid /\ e.rid <= upper
      BY <2>1, <2>3, <2>5
    <3> QED BY <3>1, <2>5 DEF Bound
  <2> QED BY <2>3, <2>4, <2>6
<1>5. channel.gen \in Nat /\ channel.oldest \in Nat /\ segments \in Seq(Batches)
  BY DEF FinalityInv, FinalityType
<1> HIDE DEF new, lower, upper, bound
<1>6. segments' \in Seq(Batches) /\ Len(segments') >= Len(segments)
  BY <1>1, <1>3, <1>5
<1>7. FinalityType'
  BY <1>1, <1>6 DEF FinalityInv, FinalityType
<1>8. DeliveryInOrder'
  <2>1. Len(outbox) \in Nat /\ Len(segments) \in Nat /\ Len(segments') \in Nat
    BY <1>5, <1>6 DEF FinalityInv, FinalityType
  <2> QED BY <1>1, <1>6, <2>1 DEF FinalityInv, DeliveryInOrder
<1>9. FreezeIsCurrent'
  <2>1. freeze' \in FreezeShape /\ ~freeze'.saved /\ freeze'.bound = bound
    BY <1>2, <1>3, <1>4, <1>5 DEF FreezeShape
  <2> QED BY <1>1, <1>3, <1>4, <2>1 DEF FreezeIsCurrent
<1>10. AckIsSettled'
  <2>1. freezeAck = None
    BY <1>1 DEF FinalityInv, AckIsSettled
  <2> QED BY <1>1, <2>1 DEF AckIsSettled
<1>11. CloseIsSettled'
  <2>1. close = None
    BY <1>1 DEF FinalityInv, CloseIsSettled
  <2> QED BY <1>1, <2>1 DEF CloseIsSettled, closeVars
<1> QED BY <1>1, <1>7, <1>8, <1>9, <1>10, <1>11, Undisturbed DEF FinalityInv, exportVars, closeVars

LEMMA SaveFreezeStateStep ==
    ASSUME FinalityInv, SaveFreezeState
    PROVE  FinalityInv'
<1>1. /\ freeze # None /\ ~freeze.saved /\ AllPublished
      /\ last' = freeze.upper /\ freeze' = [freeze EXCEPT !.saved = TRUE]
      /\ UNCHANGED <<channel, segments, outbox, acks, ledger, failed, request, freezeGen,
                     freezeAck, exportVars, closeVars, faults>>
  BY DEF SaveFreezeState, channelVars
<1>2. /\ freeze \in FreezeShape /\ freezeGen = None
      /\ freeze.bound # {} /\ UniqueRids(freeze.bound)
  BY <1>1 DEF FinalityInv, FreezeIsCurrent
<1>3. FinalityType'
  <2>1. last' \in Nat
    BY <1>1, <1>2 DEF FreezeShape
  <2> QED BY <1>1, <2>1 DEF FinalityInv, FinalityType
<1>4. FreezeIsCurrent'
  <2>1. /\ freeze' \in FreezeShape
        /\ freeze'.bound = freeze.bound /\ freeze'.upper = freeze.upper
    BY <1>1, <1>2 DEF FreezeShape
  <2> QED BY <1>1, <1>2, <2>1 DEF FreezeIsCurrent, AllPublished
<1>5. AckIsSettled'
  <2>1. freezeAck = None
    BY <1>2 DEF FinalityInv, AckIsSettled
  <2> QED BY <1>1, <2>1 DEF AckIsSettled
<1>6. CloseIsSettled'
  <2>1. close = None
    BY <1>2 DEF FinalityInv, CloseIsSettled
  <2> QED BY <1>1, <2>1 DEF CloseIsSettled, closeVars
<1> QED BY <1>1, <1>3, <1>4, <1>5, <1>6, Undisturbed DEF FinalityInv, exportVars, closeVars

(* A freeze that fails leaves no snapshot. *)
LEMMA FreezeFailsStep ==
    ASSUME FinalityInv, FreezeFails
    PROVE  FinalityInv'
<1>1. /\ freeze' = None
      /\ UNCHANGED <<channelVars, deliveryVars, request, freezeGen, freezeAck, exportVars,
                     closeVars, faults>>
  BY DEF FreezeFails
<1>2. FreezeIsCurrent'
  BY <1>1 DEF FreezeIsCurrent
<1> QED BY <1>1, <1>2, Undisturbed
        DEF FinalityInv, channelVars, deliveryVars, exportVars, closeVars

(* Nor does a sidecar that dies; what it recovers is not behind its state. *)
LEMMA SidecarCrashStep ==
    ASSUME FinalityInv, SidecarCrash
    PROVE  FinalityInv'
<1> DEFINE all == AllOf(segments)
<1>1. /\ freeze' = None
      /\ last' = IF \E e \in all : e.rid > last THEN Max(Rids(all)) ELSE last
      /\ UNCHANGED <<channel, segments, outbox, acks, ledger, request, freezeGen, freezeAck,
                     exportVars, closeVars, faults>>
  BY DEF SidecarCrash, channelVars
<1>2. last \in Nat /\ segments \in Seq(Batches)
  BY DEF FinalityInv, FinalityType
<1>3. last' \in Nat /\ last' >= last
  <2>1. CASE ~\E e \in all : e.rid > last
    BY <1>1, <1>2, <2>1
  <2>2. ASSUME NEW e \in all, e.rid > last
        PROVE  last' \in Nat /\ last' >= last
    <3>1. \A i \in DOMAIN segments : segments[i] \in Batches
      BY <1>2
    <3>2. \A d \in all : d.rid \in 1..MaxRecord
      BY <3>1 DEF AllOf, Batches, Event, RecordIds
    <3> HIDE DEF all
    <3>3. Rids(all) \in SUBSET (1..MaxRecord) /\ e.rid \in Rids(all)
      BY <3>2 DEF Rids
    <3>4. Max(Rids(all)) \in Rids(all) /\ Max(Rids(all)) >= e.rid
      BY <3>3, MaxIsLargest, FinalityAssumption
    <3>5. Max(Rids(all)) \in Nat /\ e.rid \in Nat
      BY <3>3, <3>4
    <3> QED BY <1>1, <1>2, <2>2, <3>4, <3>5
  <2> QED BY <2>1, <2>2
<1> HIDE DEF all
<1>4. \A n, upper : NothingBehind(n, upper) /\ upper \in Nat => NothingBehind(n, upper)'
  BY <1>1, <1>2, <1>3 DEF NothingBehind
<1>5. FinalityType'
  BY <1>1, <1>3 DEF FinalityInv, FinalityType
<1>6. FreezeIsCurrent'
  BY <1>1 DEF FreezeIsCurrent
<1>7. AckIsSettled'
  <2>1. freezeAck # None => freezeAck.upper \in Nat
    BY DEF FinalityInv, AckIsSettled, AckShape
  <2> QED BY <1>1, <1>4, <2>1 DEF FinalityInv, AckIsSettled
<1>8. CloseIsSettled'
  <2>1. close # None => close.upper \in Nat
    BY DEF FinalityInv, CloseIsSettled
  <2> QED BY <1>1, <1>4, <2>1 DEF FinalityInv, CloseIsSettled, exportVars, closeVars
<1> QED BY <1>1, <1>5, <1>6, <1>7, <1>8, Undisturbed
        DEF FinalityInv, exportVars, closeVars

LEMMA WriteFreezeGenerationStep ==
    ASSUME FinalityInv, WriteFreezeGeneration
    PROVE  FinalityInv'
<1>1. /\ freeze # None /\ freeze.saved /\ freezeGen = None
      /\ Rids(AllOf(segments)) = Rids(freeze.bound)
      /\ UNCHANGED <<channelVars, deliveryVars, freeze, failed, request, freezeAck, exportVars,
                     closeVars, faults>>
  BY DEF WriteFreezeGeneration, LiveIsBound
<1>2. FreezeIsCurrent'
  BY <1>1 DEF FinalityInv, FreezeIsCurrent, AllPublished, deliveryVars
<1>3. AckIsSettled'
  <2>1. freezeAck = None
    BY <1>1 DEF FinalityInv, AckIsSettled
  <2> QED BY <1>1, <2>1 DEF AckIsSettled
<1>4. CloseIsSettled'
  <2>1. close = None
    BY <1>1 DEF FinalityInv, CloseIsSettled
  <2> QED BY <1>1, <2>1 DEF CloseIsSettled, closeVars
<1> QED BY <1>1, <1>2, <1>3, <1>4, Undisturbed
        DEF FinalityInv, channelVars, deliveryVars, exportVars, closeVars

(* The ack is issued when the chunks carry as many RecordIds as the bound: *)
(* as none of them is from outside, they carry all of them, although the   *)
(* segments may have been edited since they were compared.                 *)
LEMMA WriteFreezeAckStep ==
    ASSUME FinalityInv, WriteFreezeAck
    PROVE  FinalityInv'
<1> DEFINE n == Len(outbox)
<1>1. /\ freeze # None /\ freezeGen # None
      /\ LiveDelivery(freeze.lower, freeze.upper, n)
      /\ Cardinality(Live(n)) = Cardinality(freeze.bound)
      /\ freeze' = None
      /\ UNCHANGED <<channelVars, deliveryVars, failed, request, freezeGen, exportVars, closeVars,
                     faults>>
  BY DEF WriteFreezeAck
<1>2. PICK t \in Instants :
        freezeAck' = [lower |-> freeze.lower, upper |-> freeze.upper,
                      count |-> Cardinality(freeze.bound), identity |-> freeze.bound,
                      covered |-> n, inventory |-> Covered(segments, n), at |-> t]
  BY DEF WriteFreezeAck
<1>3. /\ segments \in Seq(Batches) /\ outbox \in Seq(Batches) /\ acks \in Seq(Batches)
      /\ n \in Nat
  BY DEF FinalityInv, FinalityType
<1>4. /\ freeze \in FreezeShape /\ freeze.bound # {} /\ UniqueRids(freeze.bound)
      /\ Rids(AllOf(segments)) \subseteq Rids(freeze.bound)
      /\ last = freeze.upper /\ Len(outbox) = Len(segments)
  BY <1>1 DEF FinalityInv, FreezeIsCurrent, AllPublished
<1>5. /\ n <= Len(segments) /\ n <= Len(acks) /\ UniqueRids(Live(n))
      /\ \A i \in 1..n : acks[i] = outbox[i]
      /\ Rids(AllOf(Covered(outbox, n))) = Rids(Live(n))
  BY <1>1 DEF LiveDelivery, LiveIdentities, ChunksVerified
<1>6. Cardinality(freeze.bound) \in Nat \ {0}
  <2>1. IsFiniteSet(freeze.bound)
    BY <1>4, CountRids DEF FreezeShape
  <2> QED BY <1>4, <2>1, FS_EmptySet, FS_CardinalityType
<1>7. Rids(Live(n)) = Rids(freeze.bound)
  <2>1. Live(n) \in Batches /\ Rids(Live(n)) \subseteq Rids(AllOf(segments))
    BY <1>3, <1>5, RidsOfCovered DEF Live
  <2>2. Cardinality(Live(n)) = Cardinality(Rids(Live(n)))
    BY <1>5, <2>1, CountRids
  <2>3. /\ Cardinality(freeze.bound) = Cardinality(Rids(freeze.bound))
        /\ IsFiniteSet(Rids(freeze.bound))
    BY <1>4, CountRids DEF FreezeShape
  <2>4. Rids(Live(n)) \in SUBSET Rids(freeze.bound)
    BY <1>4, <2>1
  <2> QED BY <1>1, <2>2, <2>3, <2>4, FS_Subset
<1>8. Covered(acks, n) = Covered(outbox, n)
  <2>1. /\ acks \in Seq(Batches) /\ outbox \in Seq(Batches) /\ n \in Nat
        /\ n <= Len(acks) /\ n <= Len(outbox)
    BY <1>3, <1>5
  <2> QED BY <1>5, <2>1, CoveredSame
<1>9. FreezeIsCurrent'
  BY <1>1 DEF FreezeIsCurrent
<1>10. AckIsSettled'
  <2>1. Covered(segments, n) \in Seq(Batches)
    BY <1>3, <1>5, CoveredIs
  <2>2. freezeAck' \in AckShape
    BY <1>2, <1>3, <1>4, <1>6, <2>1 DEF FreezeShape, AckShape
  <2>3. freezeAck'.covered = n /\ freezeAck'.identity = freeze.bound /\ freezeAck'.upper = last
    BY <1>2, <1>4
  <2>4. UNCHANGED <<segments, acks, last, freezeGen>>
    BY <1>1 DEF deliveryVars
  <2>5. last' >= freezeAck'.upper /\ (freezeAck'.covered + 1)..Len(segments') = {}
    <3>1. last \in Nat /\ (n + 1)..Len(segments) = {}
      BY <1>3, <1>4 DEF FinalityInv, FinalityType
    <3> QED BY <2>3, <2>4, <3>1
  <2>6. NothingBehind(freezeAck.covered, freezeAck.upper)'
    BY <2>5 DEF NothingBehind
  <2> QED BY <1>1, <1>5, <1>7, <1>8, <2>2, <2>3, <2>4, <2>6 DEF AckIsSettled
<1> QED BY <1>1, <1>9, <1>10, Undisturbed
        DEF FinalityInv, channelVars, deliveryVars, exportVars, closeVars

-----------------------------------------------------------------------------
(***************************************************************************)
(* Export, reconciliation, close and faults                                *)
(***************************************************************************)

(* Steps that write nothing the invariant is about. *)
LEMMA QuietStep ==
    ASSUME FinalityInv,
           ExportEvtx \/ CompleteSnapshot \/ Reconcile \/ AckClose \/ EditJsonl
    PROVE  FinalityInv'
<1>1. /\ UNCHANGED <<channelVars, deliveryVars, freezeVars, finalized, close, exported, closeRow>>
      /\ faults \subseteq faults'
  <2>1. CASE ExportEvtx
    BY <2>1 DEF ExportEvtx, closeVars
  <2>2. CASE CompleteSnapshot
    BY <2>2 DEF CompleteSnapshot, closeVars
  <2>3. CASE Reconcile
    BY <2>3 DEF Reconcile, exportVars
  <2>4. CASE AckClose
    BY <2>4 DEF AckClose, exportVars
  <2>5. CASE EditJsonl
    BY <2>5 DEF EditJsonl, Disturb, closeVars
  <2> QED BY <2>1, <2>2, <2>3, <2>4, <2>5
<1> QED BY <1>1, Undisturbed DEF FinalityInv, channelVars, deliveryVars, freezeVars

LEMMA WriteRunFinalizedStep ==
    ASSUME FinalityInv, WriteRunFinalized
    PROVE  FinalityInv'
<1>1. /\ finalized = None
      /\ UNCHANGED <<channelVars, deliveryVars, freezeVars, closeVars, faults>>
  BY DEF WriteRunFinalized
<1>2. CloseIsSettled'
  <2>1. close = None
    BY <1>1 DEF FinalityInv, CloseIsSettled
  <2> QED BY <1>1, <2>1 DEF CloseIsSettled, closeVars
<1> QED BY <1>1, <1>2, Undisturbed
        DEF FinalityInv, channelVars, deliveryVars, freezeVars, closeVars

(* The finalizer has verified every file again: the covered chunks carry   *)
(* the RecordIds of the canonical snapshot, and no chunk behind them does. *)
LEMMA IssueCloseStep ==
    ASSUME FinalityInv, IssueClose
    PROVE  FinalityInv'
<1> DEFINE n == freezeAck.covered
<1>1. /\ close = None
      /\ ReconciliationVerified /\ ChannelGenerationVerified
      /\ UNCHANGED <<channelVars, deliveryVars, freezeVars, exportVars, recon, closeAck, exported,
                     closeRow, faults>>
  BY DEF IssueClose
<1>2. PICK t \in Instants :
        /\ EmittedAfter(t)
        /\ close' = [lower |-> freezeAck.lower, upper |-> freezeAck.upper, gen |-> freezeGen.gen,
                     covered |-> freezeAck.covered, chunks |-> Covered(outbox, freezeAck.covered),
                     count |-> Cardinality(jsonl), ids |-> Rids(jsonl),
                     identity |-> finalized.identity,
                     source |-> [request |-> request, ack |-> freezeAck, finalized |-> finalized,
                                 recon |-> recon, freezeGen |-> freezeGen, exportGen |-> exportGen],
                     boundary |-> request.boundary, observation |-> request.observation, at |-> t]
  BY DEF IssueClose
<1>3. /\ request # None /\ freezeAck # None /\ finalized # None /\ freezeGen # None
      /\ jsonl = finalized.jsonl /\ Cardinality(jsonl) = finalized.count
      /\ freezeAck.count = finalized.count
      /\ LiveDelivery(freezeAck.lower, freezeAck.upper, n)
      /\ Rids(jsonl) = Rids(Live(n))
  BY <1>1 DEF ReconciliationVerified, ChannelGenerationVerified, SnapshotVerified, CanonicalFiles,
              CanonicalIdentities, ArtifactBindings
<1>4. /\ freezeAck \in AckShape /\ freezeAck.covered <= Len(acks)
      /\ NothingBehind(freezeAck.covered, freezeAck.upper)
  BY <1>3 DEF FinalityInv, AckIsSettled
<1>5. /\ Rids(AllOf(Covered(outbox, n))) = Rids(jsonl)
      /\ \A i \in (n + 1)..Len(outbox) : \A e \in outbox[i] : e.rid > freezeAck.upper
  BY <1>3 DEF LiveDelivery, ChunksVerified
<1>6. Rids(jsonl) # {}
  <2>1. Cardinality(jsonl) # 0
    BY <1>3, <1>4 DEF AckShape
  <2>2. jsonl # {}
    BY <2>1, FS_EmptySet
  <2> QED BY <2>2 DEF Rids
<1>7. CloseStamps(close')
  <2>1. /\ close'.source.request = request /\ close'.source.ack = freezeAck
        /\ close'.source.finalized = finalized /\ close'.source.recon = recon
        /\ close'.source.freezeGen = freezeGen /\ close'.source.exportGen = exportGen
        /\ close'.boundary = request.boundary /\ close'.at = t
    BY <1>2
  <2>2. request.boundary <= request.at
    BY <1>3 DEF FinalityInv, RequestOrdered
  <2>3. /\ request.at <= freezeGen.at /\ freezeGen.at <= freezeAck.at
        /\ freezeAck.at <= exportGen.at /\ exportGen.at <= finalized.at
    BY <1>1 DEF ChannelGenerationVerified
  <2>4. finalized.at <= recon.at
    BY <1>1 DEF ReconciliationVerified
  <2>5. recon.at <= t
    BY <1>2 DEF EmittedAfter
  <2> QED BY <2>1, <2>2, <2>3, <2>4, <2>5 DEF CloseStamps
<1>8. CloseIsSettled'
  <2>1. /\ close'.covered = n /\ close'.upper = freezeAck.upper
        /\ close'.chunks = Covered(outbox, n) /\ close'.ids = Rids(jsonl)
        /\ close'.boundary = request.boundary
    BY <1>2
  <2>2. n \in Nat /\ freezeAck.upper \in Nat
    BY <1>4 DEF AckShape
  <2>3. UNCHANGED <<segments, outbox, acks, last, request, freezeGen, finalized>>
    BY <1>1 DEF deliveryVars, freezeVars, exportVars
  <2>4. NothingBehind(close.covered, close.upper)'
    BY <1>4, <2>1, <2>3 DEF NothingBehind
  <2> HIDE DEF n
  <2>5. CloseStamps(close)'
    BY <1>7
  <2> QED BY <1>3, <1>4, <1>5, <1>6, <2>1, <2>2, <2>3, <2>4, <2>5 DEF CloseIsSettled, n
<1>9. RowIsOfClose' /\ ExportIsOfClose'
  BY <1>1 DEF FinalityInv, RowIsOfClose, ExportIsOfClose
<1> QED BY <1>1, <1>8, <1>9, Undisturbed
        DEF FinalityInv, channelVars, deliveryVars, freezeVars

LEMMA CommitCloseStep ==
    ASSUME FinalityInv, CommitClose
    PROVE  FinalityInv'
<1>1. /\ close # None /\ CoveredCommitted(close)
      /\ \E t \in Instants : closeRow' = [close |-> close, at |-> t]
      /\ UNCHANGED <<channelVars, deliveryVars, freezeVars, exportVars, recon, close, closeAck,
                     exported, faults>>
  BY DEF CommitClose
<1>2. RowIsOfClose'
  BY <1>1 DEF RowIsOfClose, CoveredCommitted, deliveryVars
<1> QED BY <1>1, <1>2, Undisturbed
        DEF FinalityInv, channelVars, deliveryVars, freezeVars, exportVars

LEMMA ExportCloseStep ==
    ASSUME FinalityInv, ExportClose
    PROVE  FinalityInv'
<1>1. /\ close # None /\ ReceiptBinds(closeRow, close)
      /\ exported' = [close |-> close, receipt |-> closeRow]
      /\ UNCHANGED <<channelVars, deliveryVars, freezeVars, exportVars, recon, close, closeAck,
                     closeRow, faults>>
  BY DEF ExportClose
<1>2. ExportIsOfClose'
  BY <1>1 DEF ExportIsOfClose, ReceiptBinds
<1> QED BY <1>1, <1>2, Undisturbed
        DEF FinalityInv, channelVars, deliveryVars, freezeVars, exportVars

(* An edited segment only loses events. *)
LEMMA EditSegmentStep ==
    ASSUME FinalityInv, EditSegment
    PROVE  FinalityInv'
<1>1. /\ UNCHANGED <<channel, outbox, acks, ledger, last, freezeVars, exportVars, closeVars>>
      /\ faults \subseteq faults'
  BY DEF EditSegment, Disturb, channelVars
<1>2. PICK j \in DOMAIN segments : \E S \in Lossy(segments[j]) :
        segments' = [segments EXCEPT ![j] = S]
  BY DEF EditSegment
<1>3. PICK S : S \subseteq segments[j] /\ segments' = [segments EXCEPT ![j] = S]
  BY <1>2 DEF Lossy
<1>4. segments \in Seq(Batches) /\ segments[j] \in Batches
  BY <1>2 DEF FinalityInv, FinalityType
<1>5. S \in Batches
  BY <1>3, <1>4 DEF Batches
<1>6. /\ segments' \in Seq(Batches) /\ Len(segments') = Len(segments)
      /\ \A i \in 1..Len(segments) : segments'[i] \subseteq segments[i]
  BY <1>3, <1>4, <1>5
<1>7. Rids(AllOf(segments')) \subseteq Rids(AllOf(segments))
  <2>1. DOMAIN segments = 1..Len(segments) /\ DOMAIN segments' = 1..Len(segments)
    BY <1>4, <1>6
  <2>2. AllOf(segments') \subseteq AllOf(segments)
    BY <1>6, <2>1 DEF AllOf
  <2> QED BY <2>2 DEF Rids
<1>8. ASSUME NEW n \in Nat, NEW upper, NothingBehind(n, upper)
      PROVE  last' >= upper /\ \A i \in (n + 1)..Len(segments') : \A e \in segments'[i] : e.rid > upper
  <2>1. \A i \in (n + 1)..Len(segments') : i \in 1..Len(segments) /\ i \in (n + 1)..Len(segments)
    BY <1>4, <1>6
  <2> QED BY <1>1, <1>6, <1>8, <2>1 DEF NothingBehind
<1>9. FinalityType'
  BY <1>1, <1>6 DEF FinalityInv, FinalityType
<1>10. DeliveryInOrder'
  BY <1>1, <1>6 DEF FinalityInv, DeliveryInOrder
<1>11. FreezeIsCurrent'
  BY <1>1, <1>6, <1>7 DEF FinalityInv, FreezeIsCurrent, AllPublished, freezeVars
<1>12. AckIsSettled'
  <2> SUFFICES ASSUME freezeAck # None PROVE AckIsSettled'
    BY <1>1 DEF AckIsSettled, freezeVars
  <2>1. freezeAck.covered \in Nat /\ NothingBehind(freezeAck.covered, freezeAck.upper)
    BY DEF FinalityInv, AckIsSettled, AckShape
  <2>2. NothingBehind(freezeAck.covered, freezeAck.upper)'
    BY <1>1, <1>8, <2>1 DEF NothingBehind, freezeVars
  <2> QED BY <1>1, <2>2 DEF FinalityInv, AckIsSettled, freezeVars
<1>13. CloseIsSettled'
  <2> SUFFICES ASSUME close # None PROVE CloseIsSettled'
    BY <1>1 DEF CloseIsSettled, closeVars
  <2>1. close.covered \in Nat /\ NothingBehind(close.covered, close.upper)
    BY DEF FinalityInv, CloseIsSettled
  <2>2. NothingBehind(close.covered, close.upper)'
    BY <1>1, <1>8, <2>1 DEF NothingBehind, closeVars
  <2> QED BY <1>1, <2>2 DEF FinalityInv, CloseIsSettled, freezeVars, exportVars, closeVars
<1> QED BY <1>1, <1>9, <1>10, <1>11, <1>12, <1>13, Undisturbed
        DEF FinalityInv, freezeVars, exportVars, closeVars

LEMMA RewriteAckStep ==
    ASSUME FinalityInv, RewriteAck
    PROVE  FinalityInv'
<1>1. /\ freezeAck # None
      /\ UNCHANGED <<channelVars, deliveryVars, freeze, failed, request, freezeGen, exportVars,
                     closeVars>>
      /\ faults \subseteq faults'
  BY DEF RewriteAck, Disturb
<1>2. PICK t \in Instants : freezeAck' = [freezeAck EXCEPT !.at = t]
  BY DEF RewriteAck
<1>3. AckIsSettled'
  <2>1. freezeAck \in AckShape
    BY <1>1 DEF FinalityInv, AckIsSettled
  <2>2. /\ freezeAck' \in AckShape
        /\ freezeAck'.covered = freezeAck.covered /\ freezeAck'.upper = freezeAck.upper
        /\ freezeAck'.identity = freezeAck.identity
    BY <1>2, <2>1 DEF AckShape
  <2> QED BY <1>1, <2>2 DEF FinalityInv, AckIsSettled, NothingBehind, deliveryVars
<1> QED BY <1>1, <1>3, Undisturbed
        DEF FinalityInv, channelVars, deliveryVars, exportVars, closeVars

LEMMA RestoreLedgerStep ==
    ASSUME FinalityInv, RestoreLedger
    PROVE  FinalityInv'
<1>1. /\ "restore" \in faults' /\ faults \subseteq faults' /\ closeRow' = None
      /\ UNCHANGED <<channel, segments, outbox, acks, last, freezeVars, exportVars, close, exported>>
  BY DEF RestoreLedger, Disturb, channelVars
<1>2. PICK n \in 0..Len(ledger) : ledger' = Covered(ledger, n)
  BY DEF RestoreLedger
<1>3. ledger \in Seq(Batches) /\ outbox \in Seq(Batches)
  BY DEF FinalityInv, FinalityType
<1>4. /\ ledger' \in Seq(Batches) /\ Len(ledger') = n
      /\ \A i \in 1..n : ledger'[i] = ledger[i]
  <2>1. /\ Covered(ledger, n) \in Seq(Batches) /\ DOMAIN Covered(ledger, n) = 1..n
        /\ \A i \in 1..n : Covered(ledger, n)[i] = ledger[i]
    BY <1>3, CoveredIs
  <2> QED BY <1>2, <1>3, <2>1
<1>5. FinalityType'
  BY <1>1, <1>4 DEF FinalityInv, FinalityType
<1>6. DeliveryInOrder'
  <2>1. /\ n \in Nat /\ Len(ledger) \in Nat /\ n <= Len(ledger)
        /\ Len(ledger) <= Len(outbox) /\ Len(outbox) \in Nat
        /\ \A i \in 1..Len(ledger) : ledger[i] = outbox[i]
    BY <1>2, <1>3 DEF FinalityInv, DeliveryInOrder
  <2>2. n <= Len(outbox) /\ \A i \in 1..n : ledger'[i] = outbox[i]
    BY <1>4, <2>1
  <2>3. /\ Len(outbox) <= Len(segments)
        /\ Len(acks) <= Len(outbox) /\ \A i \in 1..Len(acks) : acks[i] = outbox[i]
    BY DEF FinalityInv, DeliveryInOrder
  <2> QED BY <1>1, <1>4, <2>2, <2>3 DEF DeliveryInOrder
<1>7. RowIsOfClose'
  BY <1>1 DEF RowIsOfClose
<1> QED BY <1>1, <1>5, <1>6, <1>7, Undisturbed DEF FinalityInv, freezeVars, exportVars

LEMMA FinalityInvStep ==
    ASSUME FinalityInv, [FinalityNext]_finalityVars
    PROVE  FinalityInv'
<1>1. CASE ChannelNext
  BY <1>1, ChannelStep
<1>2. CASE SidecarNext
  BY <1>2, PollStep, PublishChunkStep, FreezeSnapshotStep, SaveFreezeStateStep, FreezeFailsStep, SidecarCrashStep,
     WriteFreezeGenerationStep, WriteFreezeAckStep DEF SidecarNext
<1>3. CASE RunnerNext
  BY <1>3, WriteRequestStep, QuietStep, WriteRunFinalizedStep DEF RunnerNext
<1>4. CASE FinalizerNext
  BY <1>4, QuietStep, IssueCloseStep DEF FinalizerNext
<1>5. CASE LedgerNext
  BY <1>5, CommitChunkStep, AckChunkStep, CommitCloseStep, QuietStep, ExportCloseStep DEF LedgerNext
<1>6. CASE FaultNext
  BY <1>6, EditSegmentStep, QuietStep, RewriteAckStep, RestoreLedgerStep DEF FaultNext
<1>7. CASE UNCHANGED finalityVars
  BY <1>7, Undisturbed DEF FinalityInv, finalityVars, channelVars, deliveryVars, freezeVars,
                           exportVars, closeVars
<1> QED BY <1>1, <1>2, <1>3, <1>4, <1>5, <1>6, <1>7 DEF FinalityNext

-----------------------------------------------------------------------------
(***************************************************************************)
(* What the freeze ack and the accepted close say                          *)
(***************************************************************************)

(* The invariant of sidecar, runner, finalizer and ledger holds for every  *)
(* log, any number of chunks and any disturbances of MaxFaults kinds.      *)
THEOREM FinalityIsSettled == FinalitySpec => []FinalityInv
<1>1. FinalityInit => FinalityInv
  BY FinalityInvInit
<1>2. FinalityInv /\ [FinalityNext]_finalityVars => FinalityInv'
  BY FinalityInvStep
<1> QED BY <1>1, <1>2, PTL DEF FinalitySpec

LEMMA LedgerFollowsAcks ==
    ASSUME FinalityInv, NEW n \in Nat, n <= Len(ledger), n <= Len(acks)
    PROVE  Covered(ledger, n) = Covered(acks, n) /\ Covered(ledger, n) = Covered(outbox, n)
<1>1. /\ ledger \in Seq(Batches) /\ acks \in Seq(Batches) /\ outbox \in Seq(Batches)
      /\ n <= Len(outbox)
      /\ \A i \in 1..n : ledger[i] = outbox[i] /\ acks[i] = outbox[i]
  BY DEF FinalityInv, FinalityType, DeliveryInOrder
<1> QED BY <1>1, CoveredSame

(* The freeze ack of issue_r1_collection_freeze_ack: the chunks it covers  *)
(* were acknowledged after their commit, carry exactly the RecordIds of    *)
(* the frozen bound and stay in the ledger unless it is restored.          *)
THEOREM FreezeAckMeansDelivered == FinalitySpec => []AckMeansDelivered
<1>1. FinalityInv => AckMeansDelivered
  <2> SUFFICES ASSUME FinalityInv, freezeAck # None
               PROVE  /\ freezeAck.covered <= Len(acks)
                      /\ Rids(AllOf(Covered(acks, freezeAck.covered))) = Rids(freezeAck.identity)
                      /\ "restore" \notin faults =>
                            /\ freezeAck.covered <= Len(ledger)
                            /\ Covered(ledger, freezeAck.covered) = Covered(acks, freezeAck.covered)
    BY DEF AckMeansDelivered
  <2>1. /\ freezeAck.covered \in Nat /\ freezeAck.covered <= Len(acks)
        /\ Rids(AllOf(Covered(acks, freezeAck.covered))) = Rids(freezeAck.identity)
    BY DEF FinalityInv, AckIsSettled, AckShape
  <2>2. ASSUME "restore" \notin faults
        PROVE  freezeAck.covered <= Len(ledger)
    <3>1. Len(acks) <= Len(ledger) /\ Len(acks) \in Nat /\ Len(ledger) \in Nat
      BY <2>2 DEF FinalityInv, FinalityType, DeliveryInOrder
    <3> QED BY <2>1, <3>1
  <2> QED BY <2>1, <2>2, LedgerFollowsAcks
<1> QED BY <1>1, FinalityIsSettled, PTL

(* The row that consume_r1_record_position_close commits: the covered      *)
(* chunks are in the same ledger and carry exactly the RecordIds of the    *)
(* snapshot run-finalized sealed, and no other chunk of the ledger carries *)
(* a RecordId of the closed range, whatever is published afterwards.       *)
THEOREM AcceptedCloseMeansCommitted == FinalitySpec => []CloseMeansCommitted
<1>1. FinalityInv => CloseMeansCommitted
  <2> SUFFICES ASSUME FinalityInv, closeRow # None
               PROVE  /\ close.covered <= Len(ledger)
                      /\ Rids(AllOf(Covered(ledger, close.covered))) = close.ids
                      /\ close.ids = Rids(finalized.jsonl) /\ close.ids # {}
                      /\ \A i \in DOMAIN ledger : \A e \in ledger[i] :
                            close.lower <= e.rid /\ e.rid <= close.upper => i <= close.covered
    BY DEF CloseMeansCommitted, FinalityInv, RowIsOfClose
  <2>1. /\ close # None /\ close.covered <= Len(ledger)
    BY DEF FinalityInv, RowIsOfClose
  <2>2. /\ close.covered \in Nat /\ close.upper \in Nat /\ close.covered <= Len(acks)
        /\ close.chunks = Covered(outbox, close.covered)
        /\ Rids(AllOf(close.chunks)) = close.ids
        /\ close.ids = Rids(finalized.jsonl) /\ close.ids # {}
        /\ \A i \in (close.covered + 1)..Len(outbox) : \A e \in outbox[i] : e.rid > close.upper
    BY <2>1 DEF FinalityInv, CloseIsSettled
  <2>3. Covered(ledger, close.covered) = close.chunks
    BY <2>1, <2>2, LedgerFollowsAcks
  <2>4. ASSUME NEW i \in DOMAIN ledger, NEW e \in ledger[i], e.rid <= close.upper
        PROVE  i <= close.covered
    <3>1. /\ i \in 1..Len(ledger) /\ Len(ledger) \in Nat /\ Len(outbox) \in Nat
          /\ Len(ledger) <= Len(outbox) /\ ledger[i] = outbox[i]
          /\ e \in Event
      BY DEF FinalityInv, FinalityType, DeliveryInOrder, Batches
    <3>2. e.rid \in Nat
      BY <3>1, FinalityAssumption DEF Event, RecordIds
    <3> QED BY <2>2, <2>4, <3>1, <3>2
  <2> QED BY <2>1, <2>2, <2>3, <2>4
<1> QED BY <1>1, FinalityIsSettled, PTL
-----------------------------------------------------------------------------
(***************************************************************************)
(* The handoff                                                             *)
(***************************************************************************)
Steps == {"look", "create", "fill"}

(* A missing file is not a torn one, a message is a record and so neither, *)
(* and None is no set of RecordIds.                                        *)
MarksAreDistinct ==
    /\ None # Torn
    /\ \A m, t : Seal(m, t) \notin {None, Torn}
    /\ \A s, t : Record(s, t) \notin {None, Torn}
    /\ \A s, r, t : Proof(s, r, t) \notin {None, Torn}
    /\ \A c, r : [close |-> c, receipt |-> r] \notin {None, Torn}
    /\ None \notin SUBSET RecordIds

HandoffType ==
    /\ DOMAIN out = Files /\ DOMAIN stage = Commands /\ DOMAIN mem = Commands
    /\ \A p \in Commands : stage[p] = Idle \/ \E f \in Files, k \in Steps : stage[p] = At(f, k)

Busy(p) == stage[p] # Idle

(* A command works on the export, which binds its close. *)
HoldsExport(m) ==
    /\ m = [inputs |-> m.inputs, close |-> m.close, receipt |-> m.receipt,
            seal |-> m.seal, record |-> m.record, proof |-> m.proof]
    /\ exported # None /\ m.close = exported.close /\ m.receipt = exported.receipt
    /\ m.inputs \in HandoffInputs /\ SealInputsOK(m.inputs, Expected, m.close.boundary)

(* The outputs a command at file f has gone past. *)
HoldsOutputs(f, m) ==
    /\ f \in {"record", "proof"} => Intact("seal") /\ m.seal = out["seal"]
    /\ f = "proof" => Intact("record") /\ m.record = out["record"]

(* A message that was issued and is not on disk yet. *)
HoldsMessage(f, m) == m[f] \notin {None, Torn} /\ Verified(f, m[f], m)

CommandsHold ==
    \A p \in Commands : Busy(p) => HoldsExport(mem[p])

CommandsFollow ==
    \A p \in Commands, f \in Files, k \in Steps : stage[p] = At(f, k) =>
        /\ HoldsOutputs(f, mem[p])
        /\ k \in {"create", "fill"} => HoldsMessage(f, mem[p])

FillsAlone ==
    \A p \in Commands, f \in Files : stage[p] = At(f, "fill") =>
        out[f] = Torn /\ \A q \in Commands : stage[q] = At(f, "fill") => q = p

(* What is on disk. *)
SealSound(s) ==
    /\ exported # None /\ s.boundary.at = exported.close.boundary
    /\ DOMAIN s.boundary.processes = OwnedRoles
    /\ \A r \in OwnedRoles : s.boundary.processes[r].state \in TerminalStates
    /\ s.boundary.action = LastActionOf[s.type]

ProofSound(q) ==
    /\ exported # None /\ q.close = exported.close /\ q.receipt = exported.receipt
    /\ q.boundary = q.close.boundary
    /\ ProofWellFormed(q)
    /\ q.record = out["record"]
    /\ ProofProjection(q) = out["record"].projection

OutputsSound ==
    /\ Intact("seal") => SealSound(out["seal"])
    /\ Intact("record") => Intact("seal") /\ RecordVerified(out["record"], out["seal"])
    /\ Intact("proof") => Intact("record") /\ ProofSound(out["proof"])

HandoffInv == HandoffType /\ CommandsHold /\ CommandsFollow /\ FillsAlone /\ OutputsSound

-----------------------------------------------------------------------------
(* The handoff writes none of the files it was given. *)
LEMMA HandoffLeavesFinality ==
    HandoffNext => UNCHANGED finalityVars
BY DEF HandoffNext, Start, Stop, Reuse, Issue, Create, Fill

LEMMA HandoffHasFinality == Spec => FinalitySpec
<1>1. Init => FinalityInit
  BY DEF Init
<1>2. [Next]_vars => [FinalityNext]_finalityVars
  BY HandoffLeavesFinality DEF Next, vars
<1> QED BY <1>1, <1>2, PTL DEF Spec, FinalitySpec

(* An export is created once and never replaced. *)
LEMMA ExportStays ==
    ASSUME FinalityNext, exported # None
    PROVE  exported' = exported
<1>1. CASE ChannelNext
  BY <1>1 DEF ChannelNext, Write, RollOver, Clear, closeVars
<1>2. CASE SidecarNext
  BY <1>2 DEF SidecarNext, Poll, PublishChunk, FreezeSnapshot, SaveFreezeState, FreezeFails,
              SidecarCrash, WriteFreezeGeneration, WriteFreezeAck, closeVars
<1>3. CASE RunnerNext
  BY <1>3 DEF RunnerNext, WriteRequest, ExportEvtx, CompleteSnapshot, WriteRunFinalized, closeVars
<1>4. CASE FinalizerNext
  BY <1>4 DEF FinalizerNext, Reconcile, IssueClose
<1>5. CASE LedgerNext
  BY <1>5 DEF LedgerNext, CommitChunk, AckChunk, CommitClose, AckClose, ExportClose, closeVars
<1>6. CASE FaultNext
  BY <1>6 DEF FaultNext, EditSegment, EditJsonl, RewriteAck, RestoreLedger, closeVars
<1> QED BY <1>1, <1>2, <1>3, <1>4, <1>5, <1>6 DEF FinalityNext

(* The stages are what they are called. *)
LEMMA StagesDiffer ==
    /\ \A f \in Files, k \in Steps : At(f, k) # Idle
    /\ \A f, g \in Files, k, l \in Steps : At(f, k) = At(g, l) => f = g /\ k = l
    /\ After("seal") = At("record", "look") /\ After("record") = At("proof", "look")
    /\ After("proof") = Idle
BY DEF At, Idle, After, Files, Steps

LEMMA HandoffInvInit == Init => HandoffInv
BY DEF Init, HandoffInv, HandoffType, CommandsHold, CommandsFollow, FillsAlone, OutputsSound, Busy,
       Intact, Idle, At, Files, Steps

LEMMA HandoffUndisturbed ==
    ASSUME HandoffInv, UNCHANGED handoffVars, exported # None => exported' = exported
    PROVE  HandoffInv'
<1>1. out' = out /\ stage' = stage /\ mem' = mem
  BY DEF handoffVars
<1>2. HandoffType' /\ FillsAlone'
  BY <1>1 DEF HandoffInv, HandoffType, FillsAlone
<1>3. CommandsHold'
  BY <1>1 DEF HandoffInv, CommandsHold, HoldsExport, Busy
<1>4. CommandsFollow'
  BY <1>1 DEF HandoffInv, CommandsFollow, HoldsOutputs, HoldsMessage, Intact
<1>5. OutputsSound'
  BY <1>1 DEF HandoffInv, OutputsSound, SealSound, ProofSound, Intact
<1> QED BY <1>2, <1>3, <1>4, <1>5 DEF HandoffInv

(* A command that writes nothing disturbs no other. *)
LEMMA CommandMoves ==
    ASSUME HandoffInv, NEW p \in Commands, UNCHANGED <<exported, out>>, NEW s, NEW m,
           stage' = [stage EXCEPT ![p] = s], mem' = [mem EXCEPT ![p] = m],
           \/ s = Idle
           \/ \E f \in Files, k \in {"look", "create"} :
                /\ s = At(f, k) /\ HoldsExport(m) /\ HoldsOutputs(f, m)
                /\ k = "create" => HoldsMessage(f, m)
    PROVE  HandoffInv'
<1>1. /\ stage'[p] = s /\ mem'[p] = m
      /\ \A q \in Commands : q # p => stage'[q] = stage[q] /\ mem'[q] = mem[q]
      /\ DOMAIN stage' = Commands /\ DOMAIN mem' = Commands
  BY DEF HandoffInv, HandoffType
<1>2. HandoffType'
  <2>1. s = Idle \/ \E f \in Files, k \in Steps : s = At(f, k)
    BY DEF Steps
  <2> QED BY <1>1, <2>1 DEF HandoffInv, HandoffType
<1>3. CommandsHold'
  <2> SUFFICES ASSUME NEW q \in Commands, stage'[q] # Idle
               PROVE  HoldsExport(mem'[q])
    BY DEF CommandsHold, Busy, HoldsExport
  <2> QED BY <1>1 DEF HandoffInv, CommandsHold, Busy
<1>4. CommandsFollow'
  <2> SUFFICES ASSUME NEW q \in Commands, NEW f \in Files, NEW k \in Steps, stage'[q] = At(f, k)
               PROVE  /\ HoldsOutputs(f, mem'[q])
                      /\ k \in {"create", "fill"} => HoldsMessage(f, mem'[q])
    BY DEF CommandsFollow, HoldsOutputs, HoldsMessage, Intact
  <2>1. CASE q # p
    BY <1>1, <2>1 DEF HandoffInv, CommandsFollow
  <2>2. CASE q = p
    BY <1>1, <2>2, StagesDiffer DEF Steps
  <2> QED BY <2>1, <2>2
<1>5. FillsAlone'
  <2>1. \A f \in Files : s # At(f, "fill")
    BY StagesDiffer DEF Steps
  <2> QED BY <1>1, <2>1 DEF HandoffInv, FillsAlone
<1>6. OutputsSound'
  BY DEF HandoffInv, OutputsSound, SealSound, ProofSound, Intact
<1> QED BY <1>2, <1>3, <1>4, <1>5, <1>6 DEF HandoffInv

LEMMA StartStep ==
    ASSUME HandoffInv, NEW p \in Commands, Start(p)
    PROVE  HandoffInv'
<1>1. exported # None /\ UNCHANGED <<exported, out>>
  BY DEF Start, finalityVars, closeVars
<1>2. PICK x \in HandoffInputs :
        /\ SealInputsOK(x, Expected, exported.close.boundary)
        /\ mem' = [mem EXCEPT ![p] = Loaded(x, exported.close, exported.receipt)]
  BY DEF Start
<1>3. stage' = [stage EXCEPT ![p] = At("seal", "look")]
  BY DEF Start
<1>4. HoldsExport(Loaded(x, exported.close, exported.receipt))
  BY <1>1, <1>2 DEF HoldsExport, Loaded
<1>5. HoldsOutputs("seal", Loaded(x, exported.close, exported.receipt))
  BY DEF HoldsOutputs
<1> QED BY <1>1, <1>2, <1>3, <1>4, <1>5, CommandMoves DEF Files

LEMMA StopStep ==
    ASSUME HandoffInv, NEW p \in Commands, Stop(p)
    PROVE  HandoffInv'
<1>1. UNCHANGED <<exported, out>>
  BY DEF Stop, finalityVars, closeVars
<1> QED BY <1>1, CommandMoves DEF Stop

(* What a command knows of its own stage. *)
LEMMA HeldAt ==
    ASSUME HandoffInv, NEW p \in Commands, NEW f \in Files, NEW k \in Steps, stage[p] = At(f, k)
    PROVE  /\ HoldsExport(mem[p]) /\ HoldsOutputs(f, mem[p])
           /\ k \in {"create", "fill"} => HoldsMessage(f, mem[p])
BY StagesDiffer DEF HandoffInv, CommandsHold, CommandsFollow, Busy

(* The fields of a command's memory once it keeps a message. *)
LEMMA Kept ==
    ASSUME NEW m, HoldsExport(m), NEW f \in {"seal", "record"}, NEW message
    PROVE  /\ HoldsExport(Keep(m, f, message))
           /\ Keep(m, f, message)[f] = message
           /\ \A g \in Files : g # f => Keep(m, f, message)[g] = m[g]
<1>1. CASE f = "seal"
  <2>1. Keep(m, f, message) =
            [inputs |-> m.inputs, close |-> m.close, receipt |-> m.receipt,
             seal |-> message, record |-> m.record, proof |-> m.proof]
    BY <1>1 DEF Keep, HoldsExport
  <2> QED BY <1>1, <2>1 DEF HoldsExport, Files
<1>2. CASE f = "record"
  <2>1. Keep(m, f, message) =
            [inputs |-> m.inputs, close |-> m.close, receipt |-> m.receipt,
             seal |-> m.seal, record |-> message, proof |-> m.proof]
    BY <1>2 DEF Keep, HoldsExport
  <2> QED BY <1>2, <2>1 DEF HoldsExport, Files
<1> QED BY <1>1, <1>2

LEMMA ReuseStep ==
    ASSUME HandoffInv, NEW p \in Commands, NEW f \in Files, Reuse(p, f)
    PROVE  HandoffInv'
<1> DEFINE m == Keep(mem[p], f, out[f])
<1>1. /\ stage[p] = At(f, "look") /\ out[f] \notin {None, Torn}
      /\ stage' = [stage EXCEPT ![p] = After(f)]
      /\ mem' = [mem EXCEPT ![p] = m]
      /\ UNCHANGED <<exported, out>>
  BY DEF Reuse, finalityVars, closeVars, HandoffInv, HandoffType
<1>2. HoldsExport(mem[p]) /\ HoldsOutputs(f, mem[p])
  BY <1>1, HeldAt DEF Steps
<1>3. CASE f = "proof"
  <2>1. stage' = [stage EXCEPT ![p] = Idle]
    BY <1>1, <1>3, StagesDiffer
  <2> QED BY <1>1, <2>1, CommandMoves
<1>4. CASE f = "seal"
  <2>1. HoldsExport(m) /\ m.seal = out["seal"]
    BY <1>2, <1>4, Kept
  <2>2. HoldsOutputs("record", m)
    BY <1>1, <1>4, <2>1 DEF HoldsOutputs, Intact
  <2> QED BY <1>1, <1>4, <2>1, <2>2, StagesDiffer, CommandMoves DEF Files
<1>5. CASE f = "record"
  <2>1. HoldsExport(m) /\ m.record = out["record"] /\ m.seal = mem[p].seal
    BY <1>2, <1>5, Kept DEF Files
  <2>2. HoldsOutputs("proof", m)
    BY <1>1, <1>2, <1>5, <2>1 DEF HoldsOutputs, Intact
  <2> QED BY <1>1, <1>5, <2>1, <2>2, StagesDiffer, CommandMoves DEF Files
<1> QED BY <1>3, <1>4, <1>5 DEF Files

(* A message is verified against what the command read before. *)
LEMMA IssueStep ==
    ASSUME MarksAreDistinct, HandoffInv, NEW p \in Commands, NEW f \in Files, Issue(p, f)
    PROVE  HandoffInv'
<1>1. /\ stage[p] = At(f, "look")
      /\ stage' = [stage EXCEPT ![p] = At(f, "create")]
      /\ UNCHANGED <<exported, out>>
  BY DEF Issue, finalityVars, closeVars
<1>2. PICK t \in Instants : /\ Verified(f, Issued(f, mem[p], t), mem[p])
                            /\ mem' = [mem EXCEPT ![p][f] = Issued(f, mem[p], t)]
  BY DEF Issue
<1> DEFINE old == mem[p]
           message == Issued(f, mem[p], t)
           m == [mem[p] EXCEPT ![f] = message]
<1>3. mem' = [mem EXCEPT ![p] = m]
  BY <1>2 DEF HandoffInv, HandoffType
<1>4. HoldsExport(old) /\ HoldsOutputs(f, old)
  BY <1>1, HeldAt DEF Steps
<1>5. /\ m.inputs = old.inputs /\ m.close = old.close /\ m.receipt = old.receipt
      /\ m[f] = message /\ \A g \in Files : g # f => m[g] = old[g]
      /\ m = [inputs |-> m.inputs, close |-> m.close, receipt |-> m.receipt,
              seal |-> m.seal, record |-> m.record, proof |-> m.proof]
  <2>1. old = [inputs |-> old.inputs, close |-> old.close, receipt |-> old.receipt,
               seal |-> old.seal, record |-> old.record, proof |-> old.proof]
    BY <1>4 DEF HoldsExport
  <2>2. CASE f = "seal"
    <3>1. m = [inputs |-> old.inputs, close |-> old.close, receipt |-> old.receipt,
               seal |-> message, record |-> old.record, proof |-> old.proof]
      BY <2>1, <2>2
    <3> QED BY <3>1, <2>2 DEF Files
  <2>3. CASE f = "record"
    <3>1. m = [inputs |-> old.inputs, close |-> old.close, receipt |-> old.receipt,
               seal |-> old.seal, record |-> message, proof |-> old.proof]
      BY <2>1, <2>3
    <3> QED BY <3>1, <2>3 DEF Files
  <2>4. CASE f = "proof"
    <3>1. m = [inputs |-> old.inputs, close |-> old.close, receipt |-> old.receipt,
               seal |-> old.seal, record |-> old.record, proof |-> message]
      BY <2>1, <2>4
    <3> QED BY <3>1, <2>4 DEF Files
  <2> QED BY <2>2, <2>3, <2>4 DEF Files
<1>6. HoldsExport(m)
  BY <1>4, <1>5 DEF HoldsExport
<1>7. HoldsOutputs(f, m)
  BY <1>4, <1>5 DEF HoldsOutputs, Files
<1>8. message \notin {None, Torn}
  BY DEF Issued, MarksAreDistinct, Files
<1>9. Verified(f, message, m)
  <2>1. CASE f = "seal"
    BY <1>2, <1>5, <2>1 DEF Verified, SealVerified
  <2>2. CASE f = "record"
    BY <1>2, <1>5, <2>2 DEF Verified, Files
  <2>3. CASE f = "proof"
    BY <1>2, <1>5, <2>3 DEF Verified, ProofValidated, Files
  <2> QED BY <2>1, <2>2, <2>3 DEF Files
<1>10. HoldsMessage(f, m)
  BY <1>5, <1>8, <1>9 DEF HoldsMessage
<1> QED BY <1>1, <1>3, <1>6, <1>7, <1>10, CommandMoves

(* Only one command creates a file, and nobody has gone past it yet. *)
LEMMA CreateStep ==
    ASSUME MarksAreDistinct, HandoffInv, NEW p \in Commands, NEW f \in Files, Create(p, f)
    PROVE  HandoffInv'
<1>1. /\ stage[p] = At(f, "create") /\ out[f] = None /\ None # Torn
      /\ UNCHANGED <<exported, mem>>
  BY DEF Create, finalityVars, closeVars, MarksAreDistinct
<1>2. /\ out'[f] = Torn /\ DOMAIN out' = Files
      /\ \A g \in Files : g # f => out'[g] = out[g]
      /\ stage'[p] = At(f, "fill") /\ DOMAIN stage' = Commands
      /\ \A q \in Commands : q # p => stage'[q] = stage[q]
  BY DEF Create, HandoffInv, HandoffType
<1>3. \A g \in Files : Intact(g)' <=> Intact(g)
  BY <1>1, <1>2 DEF Intact
<1>4. \A g \in Files : Intact(g) => out'[g] = out[g]
  BY <1>1, <1>2 DEF Intact
<1>5. HandoffType'
  BY <1>1, <1>2 DEF HandoffInv, HandoffType, Steps
<1>6. CommandsHold'
  BY <1>1, <1>2, StagesDiffer DEF HandoffInv, CommandsHold, Busy, HoldsExport, Steps
<1>7. CommandsFollow'
  <2> SUFFICES ASSUME NEW q \in Commands, NEW g \in Files, NEW k \in Steps, stage'[q] = At(g, k)
               PROVE  /\ HoldsOutputs(g, mem[q])'
                      /\ k \in {"create", "fill"} => HoldsMessage(g, mem[q])
    BY <1>1 DEF CommandsFollow, HoldsOutputs, HoldsMessage
  <2>1. HoldsOutputs(g, mem[q]) /\ (k \in {"create", "fill"} => HoldsMessage(g, mem[q]))
    <3>1. CASE q = p
      <4>1. g = f /\ k = "fill"
        <5>1. At(g, k) = At(f, "fill") /\ "fill" \in Steps
          BY <1>2, <3>1 DEF Steps
        <5> QED BY <5>1, StagesDiffer
      <4> QED BY <1>1, <3>1, <4>1, HeldAt DEF Steps
    <3>2. CASE q # p
      BY <1>2, <3>2, HeldAt
    <3> QED BY <3>1, <3>2
  <2>2. Files = {"seal", "record", "proof"}
    BY DEF Files
  <2> QED BY <1>1, <1>3, <1>4, <2>1, <2>2 DEF HoldsOutputs
<1>8. FillsAlone'
  <2>1. \A q \in Commands : stage[q] # At(f, "fill")
    BY <1>1 DEF HandoffInv, FillsAlone
  <2> SUFFICES ASSUME NEW q \in Commands, NEW g \in Files, stage'[q] = At(g, "fill")
               PROVE  /\ out'[g] = Torn
                      /\ \A r \in Commands : stage'[r] = At(g, "fill") => r = q
    BY DEF FillsAlone
  <2>2. CASE q = p
    <3>1. g = f
      BY <1>2, <2>2, StagesDiffer DEF Steps
    <3> QED BY <1>2, <2>1, <2>2, <3>1
  <2>3. CASE q # p
    <3>1. stage[q] = At(g, "fill") /\ g # f
      BY <1>2, <2>1, <2>3
    <3>2. stage'[p] # At(g, "fill")
      BY <1>2, <3>1, StagesDiffer DEF Steps
    <3> QED BY <1>2, <3>1, <3>2 DEF HandoffInv, FillsAlone
  <2> QED BY <2>2, <2>3
<1>9. OutputsSound'
  BY <1>1, <1>3, <1>4 DEF HandoffInv, OutputsSound, SealSound, ProofSound, Files
<1> QED BY <1>5, <1>6, <1>7, <1>8, <1>9 DEF HandoffInv

(* A seal that passed its checks rests on the Run's Ground Truth. *)
LEMMA VerifiedSealIsSound ==
    ASSUME NEW m, HoldsExport(m), NEW s, SealVerified(s, m)
    PROVE  SealSound(s)
<1>1. /\ exported # None /\ m.close = exported.close
      /\ m.inputs \in HandoffInputs /\ SealInputsOK(m.inputs, Expected, m.close.boundary)
  BY DEF HoldsExport
<1>2. /\ m.inputs.policy.boundary = LastActionOf
      /\ m.inputs.policy.terminal \subseteq TerminalStates
  BY <1>1, PolicyAssumption DEF SealInputsOK
<1>3. DOMAIN m.inputs.boundary.processes = OwnedRoles
  BY <1>1 DEF SealInputsOK, LineageOK
<1>4. /\ s.boundary = m.inputs.boundary /\ s.type = m.inputs.meta.type
      /\ s.boundary.at = m.close.boundary
      /\ AttestationOK(s.boundary, m.inputs.policy.boundary[m.inputs.meta.type],
                       m.inputs.policy.owned[m.inputs.meta.type], m.inputs.policy)
  BY DEF SealVerified, GroundTruthOK, ExpectedBoundary, ExpectedProcesses
<1> QED BY <1>1, <1>2, <1>3, <1>4 DEF SealSound, AttestationOK

(* The message becomes the file; the one command that fills it goes on. *)
LEMMA FillStep ==
    ASSUME MarksAreDistinct, HandoffInv, NEW p \in Commands, NEW f \in Files, Fill(p, f)
    PROVE  HandoffInv'
<1> DEFINE message == mem[p][f]
           m == Keep(mem[p], f, message)
<1>1. /\ stage[p] = At(f, "fill") /\ out[f] = Torn
      /\ exported' = exported
      /\ \A q \in Commands : stage[q] = At(f, "fill") => q = p
  BY DEF Fill, finalityVars, closeVars, HandoffInv, FillsAlone
<1>2. /\ out'[f] = message /\ DOMAIN out' = Files
      /\ \A g \in Files : g # f => out'[g] = out[g]
      /\ stage'[p] = After(f) /\ DOMAIN stage' = Commands
      /\ mem'[p] = m /\ DOMAIN mem' = Commands
      /\ \A q \in Commands : q # p => stage'[q] = stage[q] /\ mem'[q] = mem[q]
  BY DEF Fill, HandoffInv, HandoffType
<1>3. /\ HoldsExport(mem[p]) /\ HoldsOutputs(f, mem[p])
      /\ message \notin {None, Torn} /\ Verified(f, message, mem[p])
  BY <1>1, HeldAt DEF Steps, HoldsMessage
<1>4. /\ ~Intact(f) /\ Intact(f)'
      /\ \A g \in Files : g # f => (Intact(g)' <=> Intact(g))
      /\ \A g \in Files : Intact(g) => out'[g] = out[g]
  BY <1>1, <1>2, <1>3 DEF Intact
<1>5. After(f) = Idle \/ \E g \in Files : After(f) = At(g, "look")
  BY StagesDiffer DEF Files
<1>6. HandoffType'
  BY <1>2, <1>5 DEF HandoffInv, HandoffType, Steps
<1>7. f # "proof" => HoldsExport(m)
  BY <1>3, Kept DEF Files
<1>8. CommandsHold'
  <2> SUFFICES ASSUME NEW q \in Commands, stage'[q] # Idle
               PROVE  HoldsExport(mem'[q])
    BY <1>1 DEF CommandsHold, Busy, HoldsExport
  <2>1. CASE q = p
    BY <1>2, <1>7, <2>1, StagesDiffer
  <2>2. CASE q # p
    BY <1>2, <2>2 DEF HandoffInv, CommandsHold, Busy
  <2> QED BY <2>1, <2>2
<1>9. CommandsFollow'
  <2> SUFFICES ASSUME NEW q \in Commands, NEW g \in Files, NEW k \in Steps, stage'[q] = At(g, k)
               PROVE  /\ HoldsOutputs(g, mem[q])'
                      /\ k \in {"create", "fill"} => HoldsMessage(g, mem'[q])
    BY DEF CommandsFollow, HoldsOutputs, HoldsMessage, Intact
  <2>1. CASE q # p
    <3>1. HoldsOutputs(g, mem[q]) /\ (k \in {"create", "fill"} => HoldsMessage(g, mem[q]))
      BY <1>2, <2>1, HeldAt
    <3>2. mem'[q] = mem[q]
      BY <1>2, <2>1
    <3>3. HoldsOutputs(g, mem[q])'
      BY <1>4, <3>1, <3>2 DEF HoldsOutputs, Files
    <3> QED BY <3>1, <3>2, <3>3
  <2>2. CASE q = p
    <3>1. k = "look"
      <4>1. At(g, k) = After(f) /\ At(g, k) # Idle
        BY <1>2, <2>2, StagesDiffer
      <4>2. PICK h \in Files : After(f) = At(h, "look")
        BY <1>5, <4>1
      <4> QED BY <4>1, <4>2, StagesDiffer DEF Steps
    <3>2. CASE f = "seal"
      <4>1. g = "record"
        BY <1>2, <2>2, <3>2, StagesDiffer DEF Files, Steps
      <4>2. m.seal = message
        BY <1>3, <3>2, Kept
      <4> QED BY <1>2, <1>4, <2>2, <3>1, <3>2, <4>1, <4>2 DEF HoldsOutputs
    <3>3. CASE f = "record"
      <4>1. g = "proof"
        BY <1>2, <2>2, <3>3, StagesDiffer DEF Files, Steps
      <4>2. m.record = message /\ m.seal = mem[p].seal
        BY <1>3, <3>3, Kept DEF Files
      <4>3. Intact("seal") /\ mem[p].seal = out["seal"]
        BY <1>3, <3>3 DEF HoldsOutputs
      <4> QED BY <1>2, <1>4, <2>2, <3>1, <3>3, <4>1, <4>2, <4>3 DEF HoldsOutputs, Files
    <3>4. CASE f = "proof"
      <4>1. stage'[q] = Idle
        BY <1>2, <2>2, <3>4, StagesDiffer
      <4>2. At(g, k) # Idle
        BY StagesDiffer
      <4> QED BY <4>1, <4>2
    <3> QED BY <3>2, <3>3, <3>4 DEF Files
  <2> QED BY <2>1, <2>2
<1>10. FillsAlone'
  <2> SUFFICES ASSUME NEW q \in Commands, NEW g \in Files, stage'[q] = At(g, "fill")
               PROVE  /\ out'[g] = Torn
                      /\ \A r \in Commands : stage'[r] = At(g, "fill") => r = q
    BY DEF FillsAlone
  <2>1. stage'[p] # At(g, "fill")
    BY <1>2, <1>5, StagesDiffer DEF Steps
  <2>2. q # p /\ stage[q] = At(g, "fill") /\ g # f
    BY <1>1, <1>2, <2>1
  <2> QED BY <1>2, <2>1, <2>2 DEF HandoffInv, FillsAlone
<1>11. OutputsSound'
  <2>1. CASE f = "seal"
    <3>1. SealSound(message)
      BY <1>3, <2>1, VerifiedSealIsSound DEF Verified
    <3>2. SealSound(out["seal"])'
      BY <1>1, <1>2, <2>1, <3>1 DEF SealSound
    <3>3. ~Intact("record") /\ ~Intact("proof")
      BY <1>4, <2>1 DEF HandoffInv, OutputsSound
    <3> QED BY <1>4, <2>1, <3>2, <3>3 DEF OutputsSound, Files
  <2>2. CASE f = "record"
    <3>1. Intact("seal") /\ RecordVerified(message, out["seal"])
      BY <1>3, <2>2 DEF Verified, HoldsOutputs
    <3>2. ~Intact("proof")
      BY <1>4, <2>2 DEF HandoffInv, OutputsSound
    <3>3. SealSound(out["seal"])'
      BY <1>1, <1>2, <2>2, <3>1 DEF HandoffInv, OutputsSound, SealSound, Files
    <3> QED BY <1>2, <1>4, <2>2, <3>1, <3>2, <3>3 DEF OutputsSound, Files
  <2>3. CASE f = "proof"
    <3>1. Intact("seal") /\ Intact("record") /\ mem[p].record = out["record"]
      BY <1>3, <2>3 DEF HoldsOutputs
    <3>2. ProofValidated(message, mem[p], out["record"])
      BY <1>3, <2>3, <3>1 DEF Verified
    <3>3. /\ exported # None /\ mem[p].close = exported.close
          /\ mem[p].receipt = exported.receipt
      BY <1>3 DEF HoldsExport
    <3>4. ProofSound(message)
      BY <3>2, <3>3 DEF ProofSound, ProofValidated
    <3>5. /\ SealSound(out["seal"]) /\ RecordVerified(out["record"], out["seal"])
      BY <3>1 DEF HandoffInv, OutputsSound
    <3>6. /\ out'["proof"] = message /\ out'["seal"] = out["seal"]
          /\ out'["record"] = out["record"]
      BY <1>2, <2>3 DEF Files
    <3>7. SealSound(out["seal"])' /\ ProofSound(out["proof"])'
      BY <1>1, <3>4, <3>5, <3>6 DEF SealSound, ProofSound
    <3> QED BY <1>4, <2>3, <3>1, <3>5, <3>6, <3>7 DEF OutputsSound, Files
  <2> QED BY <2>1, <2>2, <2>3 DEF Files
<1> QED BY <1>6, <1>8, <1>9, <1>10, <1>11 DEF HandoffInv

LEMMA HandoffInvStep ==
    ASSUME MarksAreDistinct, HandoffInv, [Next]_vars
    PROVE  HandoffInv'
<1>1. CASE FinalityNext /\ UNCHANGED handoffVars
  BY <1>1, ExportStays, HandoffUndisturbed
<1>2. CASE HandoffNext
  BY <1>2, StartStep, StopStep, ReuseStep, IssueStep, CreateStep, FillStep DEF HandoffNext
<1>3. CASE UNCHANGED vars
  BY <1>3, HandoffUndisturbed DEF vars, finalityVars, closeVars
<1> QED BY <1>1, <1>2, <1>3 DEF Next

-----------------------------------------------------------------------------
(***************************************************************************)
(* What the outputs of the handoff say                                     *)
(***************************************************************************)

(* However many handoffs run, die and run again, what each holds and what  *)
(* is on disk fit the export (issue_r1_position_handoff).                  *)
THEOREM HandoffIsSound ==
    ASSUME MarksAreDistinct
    PROVE  Spec => [](FinalityInv /\ HandoffInv)
<1>1. Init => HandoffInv
  BY HandoffInvInit
<1>2. HandoffInv /\ [Next]_vars => HandoffInv'
  BY HandoffInvStep
<1>3. Spec => []HandoffInv
  BY <1>1, <1>2, PTL DEF Spec
<1> QED BY <1>3, HandoffHasFinality, FinalityIsSettled, PTL

(* No handoff, crash or race leaves a record of another seal or a proof of *)
(* another record on disk: an output is created exclusively and reused     *)
(* only after it was verified against the ones before it.                  *)
THEOREM HandoffOutputsAgree ==
    ASSUME MarksAreDistinct
    PROVE  Spec => []OutputsAgree
<1>1. HandoffInv => OutputsAgree
  BY DEF HandoffInv, OutputsSound, ProofSound, RecordVerified, OutputsAgree
<1> QED BY <1>1, HandoffIsSound, PTL

(* The stamps behind a proof never run backwards, whatever the clocks of   *)
(* runner, sidecar, ledger host and Role4 show.                            *)
THEOREM HandoffStampsOrdered ==
    ASSUME MarksAreDistinct
    PROVE  Spec => []StampsOrdered
<1>1. FinalityInv /\ HandoffInv => StampsOrdered
  <2> SUFFICES ASSUME FinalityInv, HandoffInv, Intact("proof")
               PROVE  StampsOrdered
    BY DEF StampsOrdered
  <2> DEFINE q == out["proof"]
  <2>1. /\ Intact("seal") /\ Intact("record") /\ ProofSound(q)
        /\ RecordVerified(out["record"], out["seal"])
    BY DEF HandoffInv, OutputsSound
  <2>2. /\ close # None /\ q.close = close /\ ReceiptBinds(q.receipt, close)
        /\ q.boundary = close.boundary
    BY <2>1 DEF FinalityInv, ExportIsOfClose, ProofSound
  <2>3. CloseStamps(q.close)
    BY <2>2 DEF FinalityInv, CloseIsSettled
  <2>4. q.receipt.at >= q.close.at /\ q.sealAt >= q.receipt.at /\ q.at >= q.sealAt
    BY <2>1, <2>2 DEF ReceiptBinds, ProofSound, ProofWellFormed
  <2>5. q.record.at >= q.sealAt
    <3>1. /\ q.record = out["record"] /\ ProofProjection(q) = Projection(out["seal"])
          /\ out["record"].at >= out["seal"].at
      BY <2>1 DEF ProofSound, RecordVerified
    <3>2. q.sealAt = out["seal"].at
      BY <3>1 DEF ProofProjection, Projection
    <3> QED BY <3>1, <3>2
  <2> QED BY <2>2, <2>3, <2>4, <2>5 DEF StampsOrdered, CloseStamps
<1> QED BY <1>1, HandoffIsSound, PTL

(* A proof rests on the end of the Run's last action with every owned      *)
(* process ended, at the instant the freeze request named: build_seal_     *)
(* inputs and the seal's binding let nothing else through.                 *)
THEOREM HandoffBoundaryIsGroundTruth ==
    ASSUME MarksAreDistinct
    PROVE  Spec => []BoundaryIsGroundTruth
<1>1. FinalityInv /\ HandoffInv => BoundaryIsGroundTruth
  <2> SUFFICES ASSUME FinalityInv, HandoffInv, Intact("proof")
               PROVE  BoundaryIsGroundTruth
    BY DEF BoundaryIsGroundTruth
  <2>1. SealSound(out["seal"])
    BY DEF HandoffInv, OutputsSound
  <2>2. exported.close.boundary = request.boundary
    BY <2>1 DEF SealSound, FinalityInv, ExportIsOfClose, CloseIsSettled
  <2> QED BY <2>1, <2>2 DEF SealSound, BoundaryIsGroundTruth
<1> QED BY <1>1, HandoffIsSound, PTL

-----------------------------------------------------------------------------
(***************************************************************************)
(* The files implement the promise                                         *)
(***************************************************************************)

(* What readers see changes by an ack of a chunk and by the export alone. *)
LEMMA WhatReadersSee ==
    ASSUME FinalityNext
    PROVE  AckChunk \/ ExportClose \/ UNCHANGED <<acks, exported>>
<1>1. CASE ChannelNext
  BY <1>1 DEF ChannelNext, Write, RollOver, Clear, closeVars, deliveryVars
<1>2. CASE SidecarNext
  BY <1>2 DEF SidecarNext, Poll, PublishChunk, FreezeSnapshot, SaveFreezeState, FreezeFails,
              SidecarCrash, WriteFreezeGeneration, WriteFreezeAck, closeVars, deliveryVars
<1>3. CASE RunnerNext
  BY <1>3 DEF RunnerNext, WriteRequest, ExportEvtx, CompleteSnapshot, WriteRunFinalized, closeVars,
              deliveryVars
<1>4. CASE FinalizerNext
  BY <1>4 DEF FinalizerNext, Reconcile, IssueClose, deliveryVars
<1>5. CASE LedgerNext
  BY <1>5 DEF LedgerNext, CommitChunk, CommitClose, AckClose, closeVars, deliveryVars
<1>6. CASE FaultNext
  BY <1>6 DEF FaultNext, EditSegment, EditJsonl, RewriteAck, RestoreLedger, closeVars, deliveryVars
<1> QED BY <1>1, <1>2, <1>3, <1>4, <1>5, <1>6 DEF FinalityNext

ExportIsWhole == exported # Torn

LEMMA ExportIsWholeStep ==
    ASSUME MarksAreDistinct, ExportIsWhole, [Next]_vars
    PROVE  ExportIsWhole'
<1>1. CASE FinalityNext
  <2>1. CASE AckChunk \/ UNCHANGED <<acks, exported>>
    BY <2>1 DEF ExportIsWhole, AckChunk, closeVars
  <2>2. CASE ExportClose
    BY <2>2 DEF ExportIsWhole, ExportClose, MarksAreDistinct
  <2> QED BY <1>1, <2>1, <2>2, WhatReadersSee
<1>2. CASE UNCHANGED finalityVars
  BY <1>2 DEF ExportIsWhole, finalityVars, closeVars
<1> QED BY <1>1, <1>2, HandoffLeavesFinality DEF Next, vars

(* The RecordIds of a close were acknowledged, and there are some. *)
LEMMA CloseIdsDelivered ==
    ASSUME FinalityInv, close # None
    PROVE  /\ close.ids \subseteq Rids(AllOf(acks)) /\ close.ids # {}
           /\ close.ids \in SUBSET RecordIds
<1>1. /\ acks \in Seq(Batches) /\ outbox \in Seq(Batches)
      /\ Len(acks) <= Len(outbox) /\ \A i \in 1..Len(acks) : acks[i] = outbox[i]
  BY DEF FinalityInv, FinalityType, DeliveryInOrder
<1>2. /\ close.covered \in Nat /\ close.covered <= Len(acks) /\ close.ids # {}
      /\ close.ids = Rids(AllOf(Covered(outbox, close.covered)))
  BY DEF FinalityInv, CloseIsSettled
<1>3. Covered(outbox, close.covered) = Covered(acks, close.covered)
  <2>1. /\ close.covered <= Len(outbox)
        /\ \A i \in 1..close.covered : outbox[i] = acks[i]
    BY <1>1, <1>2
  <2> QED BY <1>1, <1>2, <2>1, CoveredSame
<1>4. /\ Rids(AllOf(Covered(acks, close.covered))) \subseteq Rids(AllOf(acks))
      /\ AllOf(Covered(acks, close.covered)) \in Batches
  BY <1>1, <1>2, RidsOfCovered
<1>5. \A S \in Batches : Rids(S) \in SUBSET RecordIds
  BY DEF Batches, Rids, Event
<1> QED BY <1>2, <1>3, <1>4, <1>5

LEMMA PromiseInitHolds ==
    ASSUME Init
    PROVE  Promise!PromiseInit
<1>1. acks = <<>> /\ exported = None /\ out["proof"] = None
  BY DEF Init, FinalityInit, Files
<1>2. Rids(AllOf(acks)) = {}
  BY <1>1 DEF Rids, AllOf
<1> QED BY <1>1, <1>2 DEF Promise!PromiseInit, ClosedIds

LEMMA FinalityKeepsPromise ==
    ASSUME MarksAreDistinct, FinalityInv, HandoffInv, FinalityNext, UNCHANGED handoffVars
    PROVE  [Promise!PromiseNext]_(Promise!promiseVars)
<1>1. out' = out
  BY DEF handoffVars
<1>2. CASE UNCHANGED <<acks, exported>>
  BY <1>1, <1>2 DEF Promise!promiseVars
<1>3. CASE AckChunk
  <2> DEFINE b == outbox[Len(acks) + 1]
  <2>1. /\ acks' = Append(acks, b) /\ b \in Batches /\ acks \in Seq(Batches)
        /\ exported' = exported
    BY <1>3 DEF AckChunk, closeVars, FinalityInv, FinalityType
  <2>2. Rids(AllOf(acks')) = Rids(AllOf(acks)) \cup Rids(b)
    BY <2>1, RidsOfAppend
  <2>3. Rids(b) \in SUBSET RecordIds
    BY <2>1 DEF Batches, Rids, Event
  <2>4. Promise!Deliver
    BY <1>1, <2>1, <2>2, <2>3 DEF Promise!Deliver
  <2> QED BY <2>4 DEF Promise!PromiseNext
<1>4. CASE ExportClose
  <2>1. /\ exported = None /\ close # None /\ acks' = acks
        /\ exported' = [close |-> close, receipt |-> closeRow]
    BY <1>4 DEF ExportClose, deliveryVars
  <2>2. ClosedIds(exported) = None /\ ClosedIds(exported)' = close.ids
    BY <2>1 DEF ClosedIds, MarksAreDistinct
  <2>3. close.ids \in SUBSET Rids(AllOf(acks)) /\ close.ids # {}
    BY <2>1, CloseIdsDelivered
  <2>4. Promise!Finalize
    BY <1>1, <2>1, <2>2, <2>3 DEF Promise!Finalize
  <2> QED BY <2>4 DEF Promise!PromiseNext
<1> QED BY <1>2, <1>3, <1>4, WhatReadersSee

LEMMA HandoffKeepsPromise ==
    ASSUME MarksAreDistinct, ExportIsWhole, FinalityInv, HandoffInv, HandoffNext
    PROVE  [Promise!PromiseNext]_(Promise!promiseVars)
<1>1. acks' = acks /\ exported' = exported
  BY HandoffLeavesFinality DEF finalityVars, deliveryVars, closeVars
<1>2. PICK p \in Commands :
        \/ Start(p) \/ Stop(p)
        \/ \E f \in Files : Reuse(p, f) \/ Issue(p, f) \/ Create(p, f) \/ Fill(p, f)
  BY DEF HandoffNext
<1>3. ASSUME ClosedIds(out["proof"])' = ClosedIds(out["proof"])
      PROVE  UNCHANGED Promise!promiseVars
  BY <1>1, <1>3 DEF Promise!promiseVars
<1>4. CASE Start(p) \/ Stop(p) \/ \E f \in Files : Reuse(p, f) \/ Issue(p, f)
  <2>1. out' = out
    BY <1>4 DEF Start, Stop, Reuse, Issue
  <2> QED BY <1>3, <2>1
<1>5. ASSUME NEW f \in Files, Create(p, f)
      PROVE  UNCHANGED Promise!promiseVars
  <2>1. out[f] = None /\ out' = [out EXCEPT ![f] = Torn] /\ DOMAIN out = Files
    BY <1>5 DEF Create, HandoffInv, HandoffType
  <2>2. ClosedIds(out["proof"])' = ClosedIds(out["proof"])
    BY <2>1 DEF ClosedIds, Files
  <2> QED BY <1>3, <2>2
<1>6. ASSUME NEW f \in Files, Fill(p, f), f # "proof"
      PROVE  UNCHANGED Promise!promiseVars
  <2>1. out' = [out EXCEPT ![f] = mem[p][f]] /\ DOMAIN out = Files
    BY <1>6 DEF Fill, HandoffInv, HandoffType
  <2>2. out'["proof"] = out["proof"]
    BY <1>6, <2>1 DEF Files
  <2> QED BY <1>3, <2>2
<1>7. CASE Fill(p, "proof")
  <2>1. /\ stage[p] = At("proof", "fill") /\ out["proof"] = Torn
        /\ out'["proof"] = mem[p]["proof"]
    BY <1>7 DEF Fill, HandoffInv, HandoffType, FillsAlone, Files
  <2>2. HoldsExport(mem[p]) /\ HoldsMessage("proof", mem[p])
    BY <2>1, HeldAt DEF Steps, Files
  <2>3. /\ exported # None /\ mem[p]["proof"] \notin {None, Torn}
        /\ mem[p]["proof"].close = exported.close
    BY <2>2 DEF HoldsExport, HoldsMessage, Verified, ProofValidated
  <2>4. close # None /\ exported.close = close
    BY <2>3 DEF FinalityInv, ExportIsOfClose
  <2>5. close.ids # None
    BY <2>4, CloseIdsDelivered DEF MarksAreDistinct
  <2>6. /\ ClosedIds(out["proof"]) = None
        /\ ClosedIds(out["proof"])' = close.ids
        /\ ClosedIds(exported) = close.ids
    BY <2>1, <2>3, <2>4 DEF ClosedIds, ExportIsWhole
  <2>7. Promise!Prove
    BY <1>1, <2>5, <2>6 DEF Promise!Prove
  <2> QED BY <2>7 DEF Promise!PromiseNext
<1> QED BY <1>2, <1>4, <1>5, <1>6, <1>7

(* The whole of sidecar, runner, finalizer, ledger and handoff implements  *)
(* the promise of r1_record_position_close.py: RecordIds are published as  *)
(* final once, after their delivery was acknowledged, and the one proof    *)
(* that is ever handed over names them.                                    *)
THEOREM HandoffImplementsPromise ==
    ASSUME MarksAreDistinct
    PROVE  Spec => KeepsPromise
<1>1. Init => Promise!PromiseInit /\ ExportIsWhole
  BY PromiseInitHolds DEF ExportIsWhole, Init, FinalityInit, MarksAreDistinct
<1>2. ExportIsWhole /\ [Next]_vars => ExportIsWhole'
  BY ExportIsWholeStep
<1>3. FinalityInv /\ HandoffInv /\ ExportIsWhole /\ [Next]_vars
        => [Promise!PromiseNext]_(Promise!promiseVars)
  <2> SUFFICES ASSUME FinalityInv, HandoffInv, ExportIsWhole, [Next]_vars
               PROVE  [Promise!PromiseNext]_(Promise!promiseVars)
    OBVIOUS
  <2>1. CASE UNCHANGED vars
    BY <2>1 DEF vars, finalityVars, deliveryVars, closeVars, handoffVars, Promise!promiseVars
  <2> QED BY <2>1, FinalityKeepsPromise, HandoffKeepsPromise DEF Next
<1> QED BY <1>1, <1>2, <1>3, HandoffIsSound, PTL DEF Spec, KeepsPromise, Promise!PromiseSpec
=============================================================================
