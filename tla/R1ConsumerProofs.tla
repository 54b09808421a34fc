--------------------------- MODULE R1ConsumerProofs ---------------------------
(***************************************************************************)
(* Proofs about R1Spool and R1Consumer for every set of outboxes and       *)
(* proofs, any number of passes that overlap, sidecars and finalize        *)
(* commands, and any number of deaths.                                     *)
(*                                                                         *)
(* LedgerIsPrefix is not inductive: an acknowledgement is written for the  *)
(* ordinal a pass remembers, so the invariant has to say that what a pass  *)
(* remembers is stored and that everything before it is acknowledged.      *)
(*                                                                         *)
(* The properties of the checkpoint hold because of what a process holds   *)
(* in memory between two file operations, which the invariant InHand       *)
(* states, and because the state-root lock lets one process at a time be   *)
(* between two of them (LockHeldByOne).                                    *)
(***************************************************************************)
EXTENDS R1Consumer, FiniteSetTheorems, TLAPS

-----------------------------------------------------------------------------
(***************************************************************************)
(* The spool                                                               *)
(***************************************************************************)
HeldIsCommitted ==
    \A p \in Ingresses : held[p] # 0 =>
        /\ \A i \in 1..published : i < held[p] => i \in acks
        /\ outbox[held[p]] \in Rows

-----------------------------------------------------------------------------
(***************************************************************************)
(* What the operators promise                                              *)
(***************************************************************************)

\* The three kinds of messages exclude each other, and none of them is None.
LEMMA MessageKinds ==
    /\ ChunkMsgs \cap WatermarkMsgs = {}
    /\ ChunkMsgs \cap CloseMsgs = {}
    /\ WatermarkMsgs \cap CloseMsgs = {}
    /\ None \notin ChunkMsgs \cup WatermarkMsgs \cup CloseMsgs
  BY OutboxAssumption DEF ChunkMsgs, WatermarkMsgs, CloseMsgs

\* An outbox is a finite list of messages.
LEMMA OutboxShape ==
    ASSUME outbox \in Outboxes
    PROVE  /\ Len(outbox) \in Nat
           /\ \A i \in 1..Len(outbox) : outbox[i] \in AllMsgs
  BY OutboxAssumption

\* consume_spool_once takes the first pending file: everything before it is
\* acknowledged.
LEMMA FirstPending ==
    ASSUME NEW n \in Nat, NEW u \in Nat, n < u
    PROVE  First((1..u) \ (1..n)) = n + 1
<1> DEFINE S == (1..u) \ (1..n)
<1>1. n + 1 \in S /\ \A j \in S : n + 1 <= j
  OBVIOUS
<1>2. \A i \in S : (\A j \in S : i <= j) => i = n + 1
  <2> SUFFICES ASSUME NEW i \in S, \A j \in S : i <= j PROVE i = n + 1
    OBVIOUS
  <2>1. i <= n + 1 /\ n + 1 <= i /\ i \in Nat
    BY <1>1
  <2> QED BY <2>1
<1> HIDE DEF S
<1>3. First(S) = n + 1
  BY <1>1, <1>2 DEF First
<1> QED BY <1>3 DEF S

\* The accept_* calls write the row of their message and no other.
LEMMA WriteAddsRow ==
    ASSUME NEW m, Write(m)
    PROVE  Rows' = Rows \cup {m}
<1>1. CASE m \in ChunkMsgs /\ L!AcceptChunk(m)
  BY <1>1 DEF L!AcceptChunk, L!SaveChunk, Rows
<1>2. CASE m \in WatermarkMsgs /\ L!AcceptWatermark(m)
  BY <1>2 DEF L!AcceptWatermark, Rows
<1>3. CASE m \in CloseMsgs /\ L!AcceptRunClosed(m)
  BY <1>3, MessageKinds DEF L!AcceptRunClosed, Rows
<1> QED BY <1>1, <1>2, <1>3 DEF Write

-----------------------------------------------------------------------------
(***************************************************************************)
(* The ledger behind the spool                                             *)
(***************************************************************************)

\* A successful accept_* call is a step of the ledger.
LEMMA WriteIsLedgerStep ==
    ASSUME NEW m, Write(m)
    PROVE  L!Next
  BY DEF Write, L!Next

\* Every step of a pass, of the producer or of the export is a step of the
\* ledger or leaves it alone.
LEMMA StepIsLedgerStep ==
    ASSUME [SpoolNext]_spoolVars
    PROVE  [L!Next]_ledgerVars
<1>1. CASE Publish
  BY <1>1 DEF Publish
<1>2. CASE ExportAcceptedClose
  BY <1>2 DEF ExportAcceptedClose
<1>3. ASSUME NEW p \in Ingresses, BeginPass(p) \/ Acknowledge(p) \/ AckConflict(p) \/ IngressCrash(p)
      PROVE  UNCHANGED ledgerVars
  BY <1>3 DEF BeginPass, Acknowledge, AckConflict, IngressCrash
<1>4. ASSUME NEW p \in Ingresses, Commit(p)
      PROVE  [L!Next]_ledgerVars
  BY <1>4, WriteIsLedgerStep DEF Commit
<1>5. ASSUME NEW p \in Ingresses, Refuse(p)
      PROVE  [L!Next]_ledgerVars
  BY <1>5 DEF Refuse, L!Next
<1>6. CASE UNCHANGED spoolVars
  BY <1>6 DEF spoolVars
<1> QED BY <1>1, <1>2, <1>3, <1>4, <1>5, <1>6 DEF SpoolNext, IngressStep

\* The transport adds no behaviour of its own: the spool implements the
\* ledger of R1StreamLedger, whatever passes overlap, retry or die.
THEOREM SpoolImplementsLedger == SpoolSpec => LedgerSpec
<1>1. SpoolInit => L!Init
  BY DEF SpoolInit
<1>2. [SpoolNext]_spoolVars => [L!Next]_(L!vars)
  BY StepIsLedgerStep DEF L!vars, ledgerVars
<1> QED BY <1>1, <1>2, PTL DEF SpoolSpec, LedgerSpec, L!Spec

-----------------------------------------------------------------------------
(***************************************************************************)
(* Types                                                                   *)
(***************************************************************************)

\* The tables hold rows of their kind: the step of R1StreamLedgerProofs for
\* the ledger behind the spool.
LEMMA LedgerTypeStep ==
    ASSUME L!TypeOK, [L!Next]_ledgerVars
    PROVE  L!TypeOK'
<1>1. ASSUME NEW c \in ChunkMsgs, L!AcceptChunk(c) PROVE L!TypeOK'
  BY <1>1 DEF L!AcceptChunk, L!SaveChunk, L!NewEvents, L!TypeOK
<1>2. ASSUME NEW c \in ChunkMsgs, L!RejectLateChunk(c) PROVE L!TypeOK'
  <2>1. PICK w \in L!InPart(watermarks, c.part) :
            /\ L!LateEvents(c, w) # {}
            /\ dead' = dead \cup
                 {[chunk |-> c, watermark |-> w, late |-> L!LateEvents(c, w)]}
    BY <1>2 DEF L!RejectLateChunk
  <2>2. w \in WatermarkMsgs /\ L!LateEvents(c, w) \subseteq c.events
    BY DEF L!InPart, L!LateEvents, L!NewEvents, L!TypeOK
  <2> QED BY <1>2, <2>1, <2>2 DEF L!RejectLateChunk, L!TypeOK
<1>3. ASSUME NEW w \in WatermarkMsgs, L!AcceptWatermark(w) PROVE L!TypeOK'
  BY <1>3 DEF L!AcceptWatermark, L!TypeOK
<1>4. ASSUME NEW x \in CloseMsgs, L!AcceptRunClosed(x) PROVE L!TypeOK'
  BY <1>4 DEF L!AcceptRunClosed, L!TypeOK
<1>5. CASE UNCHANGED ledgerVars
  BY <1>5 DEF ledgerVars, L!TypeOK
<1> QED BY <1>1, <1>2, <1>3, <1>4, <1>5 DEF L!Next, PositionMsgs

\* What a pass takes next is the first ordinal without an acknowledgement.
LEMMA NextOrdinal ==
    ASSUME SpoolTypeOK, NEW n \in Nat, acks = 1..n,
           NEW p \in Ingresses, Pending(p) # {}
    PROVE  First(Pending(p)) = n + 1 /\ n + 1 \in 1..published
<1>1. published \in Nat /\ upto[p] \in 0..published
  BY OutboxShape DEF SpoolTypeOK
<1>2. PICK i \in 1..upto[p] : i \notin 1..n
  BY DEF Pending
<1>3. n < upto[p]
  BY <1>1, <1>2
<1>4. upto[p] \in Nat /\ n + 1 \in 1..published
  BY <1>1, <1>3
<1>5. First((1..upto[p]) \ (1..n)) = n + 1
  BY <1>3, <1>4, FirstPending
<1> QED BY <1>4, <1>5 DEF Pending

LEMMA TypeStep ==
    ASSUME SpoolTypeOK, LedgerIsPrefix, [SpoolNext]_spoolVars
    PROVE  SpoolTypeOK'
<1>0. L!TypeOK'
  BY StepIsLedgerStep, LedgerTypeStep DEF SpoolTypeOK
<1>1. Len(outbox) \in Nat /\ published \in Nat
  BY OutboxShape DEF SpoolTypeOK
<1>2. ASSUME NEW p \in Ingresses, Pending(p) # {}
      PROVE  First(Pending(p)) \in 1..published
  BY <1>2, NextOrdinal DEF LedgerIsPrefix
<1>3. CASE Publish
  BY <1>0, <1>1, <1>3 DEF Publish, SpoolTypeOK
<1>4. CASE ExportAcceptedClose
  BY <1>0, <1>1, <1>4, OutboxShape DEF ExportAcceptedClose, SpoolTypeOK, CloseMsgs
<1>5. ASSUME NEW p \in Ingresses, BeginPass(p) PROVE SpoolTypeOK'
  BY <1>0, <1>1, <1>5 DEF BeginPass, SpoolTypeOK
<1>6. ASSUME NEW p \in Ingresses, Commit(p) PROVE SpoolTypeOK'
  BY <1>0, <1>1, <1>2, <1>6 DEF Commit, SpoolTypeOK
<1>7. ASSUME NEW p \in Ingresses, Refuse(p) PROVE SpoolTypeOK'
  BY <1>0, <1>1, <1>7 DEF Refuse, SpoolTypeOK
<1>8. ASSUME NEW p \in Ingresses, Acknowledge(p) PROVE SpoolTypeOK'
  <2>1. held[p] \in 1..published
    BY <1>1, <1>8 DEF Acknowledge, SpoolTypeOK
  <2>2. held' \in [Ingresses -> 0..published]
    BY <1>1, <1>8 DEF Acknowledge, SpoolTypeOK
  <2>3. acks' \subseteq 1..published
    BY <1>8, <2>1 DEF Acknowledge, SpoolTypeOK
  <2>4. UNCHANGED <<outbox, published, upto, exported>>
    BY <1>8 DEF Acknowledge
  <2> QED BY <1>0, <2>2, <2>3, <2>4 DEF SpoolTypeOK
<1>9. ASSUME NEW p \in Ingresses, AckConflict(p) PROVE SpoolTypeOK'
  BY <1>0, <1>1, <1>9 DEF AckConflict, SpoolTypeOK
<1>10. ASSUME NEW p \in Ingresses, IngressCrash(p) PROVE SpoolTypeOK'
  BY <1>0, <1>1, <1>10 DEF IngressCrash, SpoolTypeOK
<1>11. CASE UNCHANGED spoolVars
  BY <1>0, <1>11 DEF spoolVars, SpoolTypeOK
<1> QED BY <1>3, <1>4, <1>5, <1>6, <1>7, <1>8, <1>9, <1>10, <1>11 DEF SpoolNext, IngressStep

-----------------------------------------------------------------------------
(***************************************************************************)
(* Commits and acknowledgements follow the publication order               *)
(***************************************************************************)

\* A commit of the first unacknowledged message extends the stored prefix by
\* that message, or finds it there.
LEMMA CommitStep ==
    ASSUME SpoolTypeOK, LedgerIsPrefix, HeldIsCommitted,
           NEW p \in Ingresses, Commit(p)
    PROVE  LedgerIsPrefix' /\ HeldIsCommitted'
<1>1. PICK n \in 0..published, k \in 0..published :
          k \in {n, n + 1} /\ acks = 1..n /\ Rows = {outbox[i] : i \in 1..k}
  BY DEF LedgerIsPrefix
<1> DEFINE m == outbox[n + 1]
<1>2. /\ published \in Nat /\ n \in Nat /\ n + 1 \in 1..published
      /\ First(Pending(p)) = n + 1
  <2>1. Pending(p) # {}
    BY DEF Commit
  <2>2. published \in Nat /\ n \in Nat
    BY OutboxShape DEF SpoolTypeOK
  <2> QED BY <1>1, <2>1, <2>2, NextOrdinal
<1>3. /\ IF Replay(m) THEN UNCHANGED ledgerVars ELSE Write(m)
      /\ held' = [held EXCEPT ![p] = n + 1]
      /\ UNCHANGED <<outbox, published, acks>>
  BY <1>2 DEF Commit
<1>4. Rows' = Rows \cup {m}
  <2>1. CASE Replay(m)
    <3>1. m \in Rows
      BY <2>1, <1>2, OutboxShape, OutboxAssumption DEF Replay, Rows, SpoolTypeOK
    <3> QED BY <2>1, <3>1, <1>3 DEF Rows, ledgerVars
  <2>2. CASE ~Replay(m)
    BY <2>2, <1>3, WriteAddsRow
  <2> QED BY <2>1, <2>2
<1>5. Rows' = {outbox[i] : i \in 1..(n + 1)}
  <2>1. 1..(n + 1) = (1..n) \cup {n + 1}
    BY <1>2
  <2>2. Rows \cup {m} = {outbox[i] : i \in 1..n} \cup {m}
    BY <1>1, <1>2, <2>1
  <2> QED BY <1>4, <2>1, <2>2
<1>6. LedgerIsPrefix'
  <2>1. n + 1 \in 0..published' /\ n \in 0..published'
    BY <1>2, <1>3
  <2>2. acks' = 1..n /\ Rows' = {outbox'[i] : i \in 1..(n + 1)}
    BY <1>1, <1>3, <1>5
  <2> QED BY <2>1, <2>2 DEF LedgerIsPrefix
<1>7. HeldIsCommitted'
  <2> SUFFICES ASSUME NEW q \in Ingresses, held'[q] # 0
               PROVE  /\ \A i \in 1..published' : i < held'[q] => i \in acks'
                      /\ outbox'[held'[q]] \in Rows'
    BY DEF HeldIsCommitted
  <2>1. CASE q = p
    BY <2>1, <1>1, <1>2, <1>3, <1>4 DEF SpoolTypeOK
  <2>2. CASE q # p
    BY <2>2, <1>3, <1>4 DEF SpoolTypeOK, HeldIsCommitted
  <2> QED BY <2>1, <2>2
<1> QED BY <1>6, <1>7

\* A pass acknowledges what it committed: the next ordinal.
LEMMA AcknowledgeStep ==
    ASSUME SpoolTypeOK, LedgerIsPrefix, HeldIsCommitted,
           NEW p \in Ingresses, Acknowledge(p)
    PROVE  LedgerIsPrefix' /\ HeldIsCommitted'
<1>1. PICK n \in 0..published, k \in 0..published :
          k \in {n, n + 1} /\ acks = 1..n /\ Rows = {outbox[i] : i \in 1..k}
  BY DEF LedgerIsPrefix
<1>2. published \in Nat /\ n \in Nat /\ held[p] \in 1..published
  BY OutboxShape DEF SpoolTypeOK, Acknowledge
<1>3. held[p] = n + 1
  <2>1. held[p] \notin 1..n
    BY <1>1 DEF Acknowledge
  <2>2. CASE n + 1 < held[p]
    BY <2>2, <1>1, <1>2 DEF HeldIsCommitted, Acknowledge
  <2> QED BY <1>2, <2>1, <2>2
<1>4. /\ acks' = 1..(n + 1) /\ Rows' = Rows
      /\ UNCHANGED <<outbox, published>>
      /\ held' = [held EXCEPT ![p] = 0]
  BY <1>1, <1>2, <1>3 DEF Acknowledge, Rows, ledgerVars
<1>5. Rows = {outbox[i] : i \in 1..(n + 1)}
  <2>1. outbox[n + 1] \in Rows
    BY <1>3 DEF HeldIsCommitted, Acknowledge
  <2>2. 1..(n + 1) = (1..n) \cup {n + 1}
    BY <1>2
  <2> QED BY <1>1, <2>1, <2>2
<1>6. LedgerIsPrefix'
  <2>1. n + 1 \in 0..published'
    BY <1>2, <1>3, <1>4
  <2>2. acks' = 1..(n + 1) /\ Rows' = {outbox'[i] : i \in 1..(n + 1)}
    BY <1>4, <1>5
  <2> QED BY <2>1, <2>2 DEF LedgerIsPrefix
<1>7. HeldIsCommitted'
  BY <1>1, <1>2, <1>4 DEF HeldIsCommitted, SpoolTypeOK
<1> QED BY <1>6, <1>7

\* The other steps neither store nor acknowledge anything.
LEMMA FrameStep ==
    ASSUME SpoolTypeOK, LedgerIsPrefix, HeldIsCommitted,
           Rows' = Rows, UNCHANGED <<outbox, acks>>,
           published' \in {published, published + 1},
           \A p \in Ingresses : held'[p] \in {held[p], 0}
    PROVE  LedgerIsPrefix' /\ HeldIsCommitted'
<1>1. published \in Nat
  BY OutboxShape DEF SpoolTypeOK
<1>2. LedgerIsPrefix'
  <2>1. PICK n \in 0..published, k \in 0..published :
            k \in {n, n + 1} /\ acks = 1..n /\ Rows = {outbox[i] : i \in 1..k}
    BY DEF LedgerIsPrefix
  <2>2. n \in 0..published' /\ k \in 0..published'
    BY <1>1
  <2>3. acks' = 1..n /\ Rows' = {outbox'[i] : i \in 1..k}
    BY <2>1
  <2> QED BY <2>1, <2>2, <2>3 DEF LedgerIsPrefix
<1>3. HeldIsCommitted'
  BY <1>1 DEF HeldIsCommitted, SpoolTypeOK
<1> QED BY <1>2, <1>3

LEMMA PrefixStep ==
    ASSUME SpoolTypeOK, LedgerIsPrefix, HeldIsCommitted, [SpoolNext]_spoolVars
    PROVE  LedgerIsPrefix' /\ HeldIsCommitted'
<1>1. CASE Publish \/ ExportAcceptedClose \/ UNCHANGED spoolVars
  BY <1>1, FrameStep DEF Publish, ExportAcceptedClose, spoolVars, ledgerVars, Rows
<1>2. ASSUME NEW p \in Ingresses, BeginPass(p) \/ Refuse(p) \/ AckConflict(p) \/ IngressCrash(p)
      PROVE  LedgerIsPrefix' /\ HeldIsCommitted'
  <2>1. UNCHANGED <<outbox, acks, published>> /\ Rows' = Rows
    BY <1>2 DEF BeginPass, Refuse, AckConflict, IngressCrash, ledgerVars, Rows, L!RejectLateChunk
  <2>2. \A q \in Ingresses : held'[q] \in {held[q], 0}
    BY <1>2 DEF BeginPass, Refuse, AckConflict, IngressCrash, SpoolTypeOK
  <2> QED BY <2>1, <2>2, FrameStep
<1> QED BY <1>1, <1>2, CommitStep, AcknowledgeStep DEF SpoolNext, IngressStep

SpoolInv == SpoolTypeOK /\ LedgerIsPrefix /\ HeldIsCommitted

LEMMA Invariance == SpoolSpec => []SpoolInv
<1>1. SpoolInit => SpoolInv
  <2> SUFFICES ASSUME SpoolInit PROVE SpoolInv
    OBVIOUS
  <2>1. SpoolTypeOK
    BY OutboxAssumption DEF SpoolInit, SpoolTypeOK, L!Init, L!TypeOK
  <2>2. LedgerIsPrefix
    BY DEF SpoolInit, LedgerIsPrefix, Rows, L!Init
  <2>3. HeldIsCommitted
    BY DEF SpoolInit, HeldIsCommitted
  <2> QED BY <2>1, <2>2, <2>3 DEF SpoolInv
<1>2. SpoolInv /\ [SpoolNext]_spoolVars => SpoolInv'
  BY TypeStep, PrefixStep DEF SpoolInv
<1> QED BY <1>1, <1>2, PTL DEF SpoolSpec

\* Every variable of the spool keeps a value of its kind: no pass holds or
\* acknowledges a file that is not published.
THEOREM SpoolTypeCorrect == SpoolSpec => []SpoolTypeOK
<1>1. SpoolInv => SpoolTypeOK
  BY DEF SpoolInv
<1> QED BY <1>1, Invariance, PTL

\* consume_spool_once acknowledges only what is committed, and neither skips
\* nor reorders a message: the ledger is a prefix of the outbox and the
\* acknowledgements are that prefix or one message less.
THEOREM LedgerFollowsOutbox == SpoolSpec => []LedgerIsPrefix
<1>1. SpoolInv => LedgerIsPrefix
  BY DEF SpoolInv
<1> QED BY <1>1, Invariance, PTL

-----------------------------------------------------------------------------
(***************************************************************************)
(* The consumer                                                            *)
(***************************************************************************)
AckedMsgs == {outbox[i] : i \in acks}

\* What a state owes to the ledger tables, the acked messages and the close
Sound(s, cs, am, x) ==
    /\ s.got \subseteq cs /\ s.got \subseteq am
    /\ IsFiniteSet(s.got)
    /\ {c.seq : c \in s.got} = 1..Cardinality(s.got)
    /\ s.closed \in {None, x}
    /\ s.status = "finalized" =>
          s.closed # None /\ Covered(s, s.closed) /\ s.proof \in ValidProofs

\* The state t comes after the state s, which is still open; finalization
\* takes up no chunk.
Follows(s, t) ==
    /\ s.status = "open" /\ s.got \subseteq t.got /\ s.closed \in {None, t.closed}
    /\ t.got = s.got \/ t.status = "open"

SequencesAreUnique ==
    \A c, d \in chunks : c.part = d.part /\ c.seq = d.seq => c = d

ExportIsClose == exported \in {None, close}

LockHeldByOne ==
    \A p, q \in Consumers : pc[p] # "idle" /\ pc[q] # "idle" => p = q

InHand ==
    \A p \in Consumers :
        /\ pc[p] = "chunks" => mem[p] = Current /\ Current.status = "open"
        /\ pc[p] = "replace" =>
              /\ mem[p] \in States
              /\ Sound(mem[p], chunks, AckedMsgs, close)
              /\ CanReplace(mem[p])
              /\ Follows(Current, mem[p])
        /\ pc[p] \in Artifacts =>
              checkpoint # None /\ mem[p] = checkpoint /\ checkpoint.status = "finalized"

Publishing ==
    \A p \in Consumers :
        /\ pc[p] = "summary" => files["evidence"] # None /\ files["summary"] = None
        /\ pc[p] = "envelope" => files["summary"] # None
        /\ pc[p] = "receipt" => files["envelope"] # None

\* What concerns the ledger, and what concerns the consumer's own files
LedgerSide ==
    SequencesAreUnique /\ ExportIsClose /\ Sound(Current, chunks, AckedMsgs, close)

ConsumerInv ==
    /\ ConsumerTypeOK
    /\ LedgerSide
    /\ LockHeldByOne
    /\ InHand
    /\ Publishing
    /\ ArtifactsMatchCheckpoint

-----------------------------------------------------------------------------
(***************************************************************************)
(* Composition: the consumer only reads what the spool writes              *)
(***************************************************************************)

LEMMA StepIsSpoolStep ==
    ASSUME [Next]_vars
    PROVE  [SpoolNext]_spoolVars
  BY DEF Next, vars, StartRun, ConsumerStep, ConsumerMove, SummaryFails, ConsumerCrash,
         BeginConsume, ConsumeChunk, WaitForAck, AcceptClose, ReportStatus, Finalize, Replace,
         PublishEvidence, EvidenceUnrecorded, PublishSummary, PublishEnvelope, PublishReceipt,
         OnlyRecord

\* Role2 adds nothing to what Role3 does: the composed system implements the
\* spool, so every theorem about the spool and its ledger holds beside it.
THEOREM ConsumerImplementsSpool == Safety => SpoolSpec
<1>1. ConsumerInit => SpoolInit
  BY DEF ConsumerInit
<1>2. [Next]_vars => [SpoolNext]_spoolVars
  BY StepIsSpoolStep
<1> QED BY <1>1, <1>2, PTL DEF Safety, SpoolSpec

\* The ledger only grows, and an accepted close freezes it.
LEMMA LedgerMonotone ==
    ASSUME [L!Next]_ledgerVars
    PROVE  /\ chunks \subseteq chunks'
           /\ close # None => close' = close /\ chunks' = chunks
           /\ SequencesAreUnique => SequencesAreUnique'
<1>1. ASSUME NEW c \in ChunkMsgs, L!AcceptChunk(c)
      PROVE  /\ chunks' = chunks \cup {c} /\ close = None
             /\ \A d \in chunks : d.part = c.part => d.seq # c.seq
  BY <1>1 DEF L!AcceptChunk, L!SaveChunk, L!Admissible, L!ChunkConflict, L!InPart
<1>2. CASE \E c \in ChunkMsgs : L!AcceptChunk(c)
  BY <1>1, <1>2 DEF SequencesAreUnique
<1>3. CASE ~(\E c \in ChunkMsgs : L!AcceptChunk(c))
  <2>1. chunks' = chunks /\ (close # None => close' = close)
    BY <1>3 DEF L!Next, L!RejectLateChunk, L!AcceptWatermark, L!AcceptRunClosed,
                PositionMsgs, ledgerVars
  <2> QED BY <2>1 DEF SequencesAreUnique
<1> QED BY <1>2, <1>3

-----------------------------------------------------------------------------
(***************************************************************************)
(* What the operators promise                                              *)
(***************************************************************************)

\* sorted(...) finds a first file whenever there is one.
LEMMA FirstIsMember ==
    ASSUME NEW S \in SUBSET Nat, S # {}
    PROVE  First(S) \in S
<1> DEFINE R == {ss \in Nat \X Nat : ss[1] < ss[2]}
<1>1. IsWellFoundedOn(R, Nat)
  BY NatLessThanWellFounded DEF OpToRel
<1>2. \E i \in S : \A j \in S : ~(<<j, i>> \in R)
  <2> HIDE DEF R
  <2> QED BY <1>1, WFMin
<1>3. \A i, j \in Nat : <<j, i>> \notin R => i <= j
  <2> SUFFICES ASSUME NEW i \in Nat, NEW j \in Nat, j < i PROVE <<j, i>> \in R
    OBVIOUS
  <2> QED OBVIOUS
<1>4. \E i \in S : \A j \in S : i <= j
  <2> HIDE DEF R
  <2> QED BY <1>2, <1>3
<1> QED BY <1>4 DEF First

LEMMA SoundIsStable ==
    ASSUME NEW s, NEW cs, NEW am, NEW x, Sound(s, cs, am, x),
           NEW cs2, NEW am2, NEW x2,
           cs \subseteq cs2, am \subseteq am2, x # None => x2 = x
    PROVE  Sound(s, cs2, am2, x2)
  BY DEF Sound

LEMMA FreshIsSound ==
    ASSUME NEW cs, NEW am, NEW x
    PROVE  Fresh \in States /\ Sound(Fresh, cs, am, x)
<1>1. IsFiniteSet({}) /\ Cardinality({}) = 0
  BY FS_EmptySet
<1> QED BY <1>1 DEF Fresh, States, Sound

\* accept_chunk: the next sequence keeps the run gapless.
LEMMA ChunkExtends ==
    ASSUME NEW s \in States, NEW cs, NEW am, NEW x, Sound(s, cs, am, x), s.status = "open",
           NEW m \in ChunkMsgs, m \in cs, m \in am, m.seq = Cardinality(s.got) + 1,
           NEW t, t = [s EXCEPT !.got = @ \cup {m}]
    PROVE  t \in States /\ Sound(t, cs, am, x) /\ Follows(s, t)
<1>1. /\ t.got = s.got \cup {m} /\ t.closed = s.closed
      /\ t.status = s.status /\ t.proof = s.proof /\ t \in States
  BY DEF States
<1>2. IsFiniteSet(s.got) /\ Cardinality(s.got) \in Nat
  BY FS_CardinalityType DEF Sound
<1>3. m \notin s.got
  BY <1>2 DEF Sound
<1>4. IsFiniteSet(t.got) /\ Cardinality(t.got) = Cardinality(s.got) + 1
  BY <1>1, <1>2, <1>3, FS_AddElement
<1>5. {c.seq : c \in t.got} = 1..Cardinality(t.got)
  <2>1. {c.seq : c \in t.got} = {c.seq : c \in s.got} \cup {m.seq}
    BY <1>1
  <2>2. 1..(Cardinality(s.got) + 1) = (1..Cardinality(s.got)) \cup {Cardinality(s.got) + 1}
    BY <1>2
  <2> QED BY <1>4, <2>1, <2>2 DEF Sound
<1> QED BY <1>1, <1>4, <1>5 DEF Sound, Follows

\* accept_run_closed
LEMMA CloseExtends ==
    ASSUME NEW s \in States, NEW cs, NEW am, NEW x \in CloseMsgs, Sound(s, cs, am, x),
           s.status = "open", NEW t, t = [s EXCEPT !.closed = x]
    PROVE  t \in States /\ Sound(t, cs, am, x) /\ Follows(s, t)
<1>1. /\ t.got = s.got /\ t.closed = x
      /\ t.status = s.status /\ t.proof = s.proof /\ t \in States
  BY DEF States
<1> QED BY <1>1 DEF Sound, Follows

\* accept_verified_close_proof
LEMMA FinalExtends ==
    ASSUME NEW s \in States, NEW cs, NEW am, NEW x \in CloseMsgs, Sound(s, cs, am, x),
           s.status = "open", NEW pr \in Proofs, NEW t, t = FinalState(s, x, pr)
    PROVE  t \in States /\ Sound(t, cs, am, x) /\ Follows(s, t)
<1>1. /\ t.got = s.got /\ t.closed = x /\ t \in States
      /\ t.status = "finalized" => Covered(s, x) /\ pr \in ValidProofs /\ t.proof = pr
  BY DEF States, FinalState
<1>2. x # None
  BY MessageKinds
<1>3. Covered(s, x) => Covered(t, x)
  BY <1>1 DEF Covered
<1> QED BY <1>1, <1>2, <1>3 DEF Sound, Follows

-----------------------------------------------------------------------------
(***************************************************************************)
(* Steps of Role3                                                          *)
(***************************************************************************)

LEMMA SpoolMonotone ==
    ASSUME SpoolInv, SpoolInv', [SpoolNext]_spoolVars
    PROVE  /\ chunks \subseteq chunks' /\ AckedMsgs \subseteq AckedMsgs'
           /\ close # None => close' = close
           /\ 0..published \subseteq 0..published'
           /\ SequencesAreUnique => SequencesAreUnique'
           /\ exported' = exported \/ (exported' = close /\ close' = close)
<1>1. /\ chunks \subseteq chunks'
      /\ close # None => close' = close
      /\ SequencesAreUnique => SequencesAreUnique'
  BY StepIsLedgerStep, LedgerMonotone
<1>2. outbox' = outbox /\ acks \subseteq acks' /\ published' \in {published, published + 1}
  BY DEF SpoolNext, spoolVars, Publish, ExportAcceptedClose, IngressStep, BeginPass,
         Commit, Refuse, Acknowledge, AckConflict, IngressCrash
<1>3. AckedMsgs \subseteq AckedMsgs'
  BY <1>2 DEF AckedMsgs
<1>4. exported' = exported \/ (exported' = close /\ close' = close)
  <2>1. CASE ExportAcceptedClose
    BY <2>1 DEF ExportAcceptedClose, ledgerVars
  <2>2. ASSUME NEW p \in Ingresses, IngressStep(p) \/ IngressCrash(p)
        PROVE  exported' = exported
    BY <2>2 DEF IngressStep, BeginPass, Commit, Refuse, Acknowledge, AckConflict, IngressCrash
  <2>3. CASE Publish \/ UNCHANGED spoolVars
    BY <2>3 DEF Publish, spoolVars
  <2> QED BY <2>1, <2>2, <2>3 DEF SpoolNext
<1>5. published \in Nat
  BY OutboxShape DEF SpoolInv, SpoolTypeOK
<1>6. 0..published \subseteq 0..published'
  BY <1>2, <1>5
<1> QED BY <1>1, <1>3, <1>4, <1>6

LEMMA SpoolStepKeeps ==
    ASSUME SpoolInv, SpoolInv', ConsumerInv, [SpoolNext]_spoolVars,
           started' \in BOOLEAN, trace' \in TraceEnds,
           UNCHANGED <<checkpoint, pc, view, mem, files>>
    PROVE  ConsumerInv'
<1>1. ConsumerTypeOK'
  BY SpoolMonotone DEF ConsumerInv, ConsumerTypeOK
<1>2. LedgerSide'
  <2>1. Sound(Current, chunks', AckedMsgs', close')
    BY SpoolMonotone, SoundIsStable DEF ConsumerInv, LedgerSide
  <2>2. Current' = Current
    BY DEF Current
  <2>3. ExportIsClose'
    BY SpoolMonotone DEF ExportIsClose, ConsumerInv, LedgerSide
  <2> QED BY <2>1, <2>2, <2>3, SpoolMonotone DEF ConsumerInv, LedgerSide
<1>3. LockHeldByOne' /\ Publishing' /\ ArtifactsMatchCheckpoint'
  BY DEF ConsumerInv, LockHeldByOne, Publishing, ArtifactsMatchCheckpoint
<1>4. InHand'
  <2> SUFFICES ASSUME NEW p \in Consumers
               PROVE  /\ pc'[p] = "chunks" => mem'[p] = Current' /\ Current'.status = "open"
                      /\ pc'[p] = "replace" =>
                            /\ mem'[p] \in States
                            /\ Sound(mem'[p], chunks', AckedMsgs', close')
                            /\ CanReplace(mem[p])'
                            /\ Follows(Current', mem'[p])
                      /\ pc'[p] \in Artifacts =>
                            /\ checkpoint' # None /\ mem'[p] = checkpoint'
                            /\ checkpoint'.status = "finalized"
    BY DEF InHand
  <2>1. Current' = Current /\ mem'[p] = mem[p] /\ pc'[p] = pc[p]
    BY DEF Current
  <2>2. CanReplace(mem[p]) => CanReplace(mem[p])'
    BY DEF CanReplace
  <2>3. Sound(mem[p], chunks, AckedMsgs, close) => Sound(mem[p], chunks', AckedMsgs', close')
    BY SpoolMonotone, SoundIsStable
  <2> QED BY <2>1, <2>2, <2>3 DEF ConsumerInv, InHand
<1> QED BY <1>1, <1>2, <1>3, <1>4 DEF ConsumerInv

-----------------------------------------------------------------------------
(***************************************************************************)
(* Steps of Role2: the process p has the lock or takes it                  *)
(***************************************************************************)

HasLock(p) == LockFree \/ pc[p] # "idle"

\* However the trace is appended to, it ends in one of three ways.
LEMMA TraceStep ==
    ASSUME ConsumerInv, [Next]_vars
    PROVE  trace' \in TraceEnds
<1>1. trace \in TraceEnds
  BY DEF ConsumerInv, ConsumerTypeOK
<1>2. AppendTrace \/ AppendIfNew => trace' \in TraceEnds
  BY <1>1 DEF AppendTrace, AppendIfNew, TraceEnds
<1>3. ASSUME NEW p \in Consumers, ConsumerMove(p) PROVE trace' \in TraceEnds
  BY <1>1, <1>2, <1>3 DEF ConsumerMove, BeginConsume, ConsumeChunk, WaitForAck, AcceptClose,
         ReportStatus, Finalize, Replace, PublishEvidence, EvidenceUnrecorded, PublishSummary,
         PublishEnvelope, PublishReceipt
<1>4. ASSUME NEW p \in Consumers, ConsumerCrash(p) \/ SummaryFails(p) PROVE trace' \in TraceEnds
  BY <1>1, <1>4 DEF ConsumerCrash, SummaryFails, TraceEnds
<1>5. ASSUME NEW p \in Finalizers, OnlyRecord(p) PROVE trace' \in TraceEnds
  BY <1>2, <1>5 DEF OnlyRecord
<1> QED BY <1>1, <1>3, <1>4, <1>5 DEF Next, ConsumerStep, StartRun, vars, consumerVars

Labels == {"idle", "chunks", "replace", "report"} \cup Artifacts

\* Where the processes are after a step of p, and what the invariant then
\* asks: the other processes are idle.
LEMMA OneMoves ==
    ASSUME ConsumerInv, NEW p \in Consumers, HasLock(p), NEW l \in Labels,
           pc' = [pc EXCEPT ![p] = l]
    PROVE  /\ LockHeldByOne'
           /\ pc' \in [Consumers -> Labels] /\ pc'[p] = l
           /\ \A q \in Consumers : q # p => pc'[q] = "idle"
<1>1. pc \in [Consumers -> Labels]
  BY DEF ConsumerInv, ConsumerTypeOK, Labels
<1>2. \A q \in Consumers : q # p => pc[q] = "idle"
  BY DEF HasLock, LockFree, ConsumerInv, LockHeldByOne
<1>3. /\ pc' \in [Consumers -> Labels] /\ pc'[p] = l
      /\ \A q \in Consumers : q # p => pc'[q] = "idle"
  BY <1>1, <1>2
<1> QED BY <1>3 DEF LockHeldByOne

\* The current state is well formed.
LEMMA CurrentIsSound ==
    ASSUME ConsumerInv
    PROVE  Current \in States /\ Sound(Current, chunks, AckedMsgs, close)
  BY FreshIsSound DEF ConsumerInv, LedgerSide, ConsumerTypeOK, Current

\* A pass or a command ends without touching a file.
LEMMA EndKeeps ==
    ASSUME SpoolInv, ConsumerInv, trace' \in TraceEnds, NEW p \in Consumers, HasLock(p),
           pc' = [pc EXCEPT ![p] = "idle"],
           NEW v, v \in {mem[p], None}, mem' = [mem EXCEPT ![p] = v],
           view' = [view EXCEPT ![p] = 0],
           UNCHANGED <<spoolVars, started, checkpoint, files>>
    PROVE  ConsumerInv'
<1>1. /\ LockHeldByOne' /\ pc' \in [Consumers -> Labels]
      /\ \A q \in Consumers : pc'[q] = "idle"
  BY OneMoves DEF Labels
<1>2. ConsumerTypeOK'
  <2>1. 0 \in 0..published
    BY OutboxShape DEF SpoolInv, SpoolTypeOK
  <2> QED BY <1>1, <2>1 DEF ConsumerInv, ConsumerTypeOK, Labels, spoolVars, States
<1>3. LedgerSide'
  BY DEF ConsumerInv, LedgerSide, SequencesAreUnique, ExportIsClose, AckedMsgs, Current,
         spoolVars, ledgerVars
<1>4. InHand' /\ Publishing'
  BY <1>1 DEF InHand, Publishing, Artifacts
<1>5. ArtifactsMatchCheckpoint'
  BY DEF ConsumerInv, ArtifactsMatchCheckpoint
<1> QED BY <1>1, <1>2, <1>3, <1>4, <1>5 DEF ConsumerInv

\* A new state is put in memory, checked against the checkpoint's generation.
LEMMA SaveKeeps ==
    ASSUME SpoolInv, ConsumerInv, trace' \in TraceEnds, NEW p \in Consumers, HasLock(p),
           NEW s \in States, Sound(s, chunks, AckedMsgs, close), Follows(Current, s),
           Save(p, s), UNCHANGED <<spoolVars, started>>
    PROVE  ConsumerInv'
<1>1. /\ LockHeldByOne' /\ pc' \in [Consumers -> Labels] /\ pc'[p] = "replace"
      /\ \A q \in Consumers : q # p => pc'[q] = "idle"
  BY OneMoves DEF Save, Goto, Labels
<1>2. mem' \in [Consumers -> States \cup {None}] /\ mem'[p] = s
  BY DEF Save, ConsumerInv, ConsumerTypeOK
<1>3. UNCHANGED <<checkpoint, view, files>>
  BY DEF Save
<1>4. ConsumerTypeOK'
  BY <1>1, <1>2, <1>3 DEF ConsumerInv, ConsumerTypeOK, Labels, spoolVars, States
<1>5. LedgerSide'
  BY <1>3 DEF ConsumerInv, LedgerSide, SequencesAreUnique, ExportIsClose, AckedMsgs, Current,
         spoolVars, ledgerVars
<1>6. UNCHANGED <<Current, AckedMsgs, chunks, close>>
  BY <1>3 DEF Current, AckedMsgs, spoolVars, ledgerVars
<1>7. CanReplace(mem[p])'
  BY <1>2, <1>3 DEF Save, CanReplace
<1>8. InHand'
  BY <1>1, <1>2, <1>6, <1>7 DEF InHand, Artifacts
<1>9. Publishing' /\ ArtifactsMatchCheckpoint'
  BY <1>1, <1>3 DEF Publishing, ConsumerInv, ArtifactsMatchCheckpoint
<1> QED BY <1>1, <1>4, <1>5, <1>8, <1>9 DEF ConsumerInv

LEMMA BeginConsumeKeeps ==
    ASSUME SpoolInv, ConsumerInv, trace' \in TraceEnds, NEW p \in Consumers, BeginConsume(p)
    PROVE  ConsumerInv'
<1>1. /\ LockHeldByOne' /\ pc' \in [Consumers -> Labels] /\ pc'[p] = "chunks"
      /\ \A q \in Consumers : q # p => pc'[q] = "idle"
  BY OneMoves DEF BeginConsume, Goto, Labels, HasLock
<1>2. mem' \in [Consumers -> States \cup {None}] /\ mem'[p] = Current
  BY CurrentIsSound DEF BeginConsume, ConsumerInv, ConsumerTypeOK
<1>3. published \in 0..published /\ view' = [view EXCEPT ![p] = published]
  BY OutboxShape DEF BeginConsume, SpoolInv, SpoolTypeOK
<1>4. UNCHANGED <<spoolVars, started, checkpoint, files>> /\ Current.status = "open"
  BY DEF BeginConsume
<1>5. ConsumerTypeOK'
  BY <1>1, <1>2, <1>3, <1>4 DEF ConsumerInv, ConsumerTypeOK, Labels, spoolVars, States
<1>6. LedgerSide' /\ Current' = Current
  BY <1>4 DEF ConsumerInv, LedgerSide, SequencesAreUnique, ExportIsClose, AckedMsgs, Current,
         spoolVars, ledgerVars
<1>7. InHand' /\ Publishing' /\ ArtifactsMatchCheckpoint'
  BY <1>1, <1>2, <1>4, <1>6 DEF InHand, Artifacts, Publishing, ConsumerInv, ArtifactsMatchCheckpoint
<1> QED BY <1>1, <1>5, <1>6, <1>7 DEF ConsumerInv

\* An exception or a death leaves the files as they are.
LEMMA DieKeeps ==
    ASSUME SpoolInv, ConsumerInv, trace' \in TraceEnds, NEW p \in Consumers, HasLock(p),
           Die(p), UNCHANGED <<spoolVars, started>>
    PROVE  ConsumerInv'
  BY EndKeeps DEF Die, Leave, Goto

\* A pass ends; the memory of a sidecar is kept.
LEMMA ReturnKeeps ==
    ASSUME SpoolInv, ConsumerInv, trace' \in TraceEnds, NEW p \in Consumers, HasLock(p),
           Return(p), UNCHANGED <<spoolVars, started, checkpoint, files>>
    PROVE  ConsumerInv'
<1> DEFINE v == IF p \in Sidecars THEN mem[p] ELSE None
<1>1. v \in {mem[p], None}
  OBVIOUS
<1>2. Leave(p, v)
  BY DEF Return
<1> HIDE DEF v
<1> QED BY <1>1, <1>2, EndKeeps DEF Leave, Goto

\* A pass goes on to its last record.
LEMMA ReportKeeps ==
    ASSUME SpoolInv, ConsumerInv, trace' \in TraceEnds, NEW p \in Consumers, pc[p] # "idle",
           Goto(p, "report"), UNCHANGED <<spoolVars, started, checkpoint, view, mem, files>>
    PROVE  ConsumerInv'
<1>1. /\ LockHeldByOne' /\ pc' \in [Consumers -> Labels] /\ pc'[p] = "report"
      /\ \A q \in Consumers : q # p => pc'[q] = "idle"
  BY OneMoves DEF HasLock, Goto, Labels
<1>2. ConsumerTypeOK'
  BY <1>1 DEF ConsumerInv, ConsumerTypeOK, Labels, spoolVars, States
<1>3. LedgerSide'
  BY DEF ConsumerInv, LedgerSide, SequencesAreUnique, ExportIsClose, AckedMsgs, Current,
         spoolVars, ledgerVars
<1>4. InHand' /\ Publishing'
  BY <1>1 DEF InHand, Publishing, Artifacts
<1>5. ArtifactsMatchCheckpoint'
  BY DEF ConsumerInv, ArtifactsMatchCheckpoint
<1> QED BY <1>1, <1>2, <1>3, <1>4, <1>5 DEF ConsumerInv

\* _record_finalization_status
LEMMA ReportStatusKeeps ==
    ASSUME SpoolInv, ConsumerInv, trace' \in TraceEnds, NEW p \in Consumers, ReportStatus(p)
    PROVE  ConsumerInv'
<1>1. /\ HasLock(p) /\ (Return(p) \/ Leave(p, None))
      /\ UNCHANGED <<spoolVars, started, checkpoint, files>>
  BY DEF ReportStatus, HasLock
<1>2. Leave(p, None) => Die(p)
  BY <1>1 DEF Die
<1> QED BY <1>1, <1>2, DieKeeps, ReturnKeeps

LEMMA ConsumeChunkKeeps ==
    ASSUME SpoolInv, ConsumerInv, trace' \in TraceEnds, NEW p \in Consumers, ConsumeChunk(p)
    PROVE  ConsumerInv'
<1> DEFINE m == outbox[First(Todo(p))]
           t == [mem[p] EXCEPT !.got = @ \cup {m}]
<1>1. /\ pc[p] = "chunks" /\ HasLock(p) /\ UNCHANGED <<spoolVars, started>>
      /\ (Applicable(mem[p], m) /\ Save(p, t)) \/ Die(p)
  BY DEF ConsumeChunk, HasLock
<1>2. m \in AckedMsgs
  BY DEF ConsumeChunk, Acked, AckedMsgs
<1>3. mem[p] = Current /\ Current.status = "open"
  BY <1>1 DEF ConsumerInv, InHand
<1>4. mem[p] \in States /\ Sound(mem[p], chunks, AckedMsgs, close)
  BY <1>3, CurrentIsSound
<1>5. CASE Applicable(mem[p], m) /\ Save(p, t)
  <2>1. m \in chunks /\ m \in ChunkMsgs /\ m.seq = Cardinality(mem[p].got) + 1
    BY <1>5 DEF Applicable, SpoolInv, SpoolTypeOK, L!TypeOK
  <2> HIDE DEF m
  <2>2. t \in States /\ Sound(t, chunks, AckedMsgs, close) /\ Follows(mem[p], t)
    BY <1>2, <1>3, <1>4, <2>1, ChunkExtends
  <2> HIDE DEF t
  <2> QED BY <1>1, <1>3, <1>5, <2>2, SaveKeeps
<1>6. CASE Die(p)
  BY <1>1, <1>6, DieKeeps
<1> QED BY <1>1, <1>5, <1>6

\* The run_closed that Role2 finds acknowledged is the accepted one.
LEMMA AckedCloseIsAccepted ==
    ASSUME SpoolInv, Closes # {}, First(Closes) \in acks
    PROVE  outbox[First(Closes)] = close /\ close \in CloseMsgs
<1> DEFINE i == First(Closes)
<1>1. published \in 0..Len(outbox) /\ published \in Nat /\ Len(outbox) \in Nat
  BY OutboxShape DEF SpoolInv, SpoolTypeOK
<1>2. Closes \in SUBSET Nat
  BY <1>1 DEF Closes
<1>3. i \in Closes
  BY <1>2, FirstIsMember
<1>4. i \in 1..published /\ outbox[i].type = "run_closed"
  BY <1>3 DEF Closes
<1>5. outbox[i] \in CloseMsgs
  BY <1>1, <1>4, OutboxShape DEF SpoolInv, SpoolTypeOK, CloseMsgs
<1>6. outbox[i] \in Rows
  <2>1. PICK n \in 0..published, k \in 0..published :
            k \in {n, n + 1} /\ acks = 1..n /\ Rows = {outbox[j] : j \in 1..k}
    BY DEF SpoolInv, LedgerIsPrefix
  <2>2. i \in 1..k
    BY <2>1, <1>1
  <2> HIDE DEF i
  <2> QED BY <2>1, <2>2
<1>7. outbox[i] \notin chunks \cup watermarks
  BY <1>5, MessageKinds DEF SpoolInv, SpoolTypeOK, L!TypeOK
<1> QED BY <1>5, <1>6, <1>7 DEF Rows

LEMMA AcceptCloseKeeps ==
    ASSUME SpoolInv, ConsumerInv, trace' \in TraceEnds, NEW p \in Consumers, AcceptClose(p)
    PROVE  ConsumerInv'
<1> DEFINE x == outbox[First(Closes)]
           t == [mem[p] EXCEPT !.closed = x]
           Found == Closes # {} /\ First(Closes) \in acks /\ mem[p].closed = None
<1>1. /\ pc[p] = "chunks" /\ HasLock(p) /\ UNCHANGED <<spoolVars, started>>
      /\ IF Found THEN Save(p, t)
         ELSE Goto(p, "report") /\ UNCHANGED <<checkpoint, view, mem, files>>
  BY DEF AcceptClose, HasLock
<1>2. mem[p] = Current /\ Current.status = "open"
  BY <1>1 DEF ConsumerInv, InHand
<1>3. mem[p] \in States /\ Sound(mem[p], chunks, AckedMsgs, close)
  BY <1>2, CurrentIsSound
<1>4. CASE Found
  <2>1. x = close /\ x \in CloseMsgs
    BY <1>4, AckedCloseIsAccepted
  <2> HIDE DEF x, Found
  <2>2. t \in States /\ Sound(t, chunks, AckedMsgs, close) /\ Follows(mem[p], t)
    BY <1>2, <1>3, <2>1, CloseExtends
  <2> HIDE DEF t
  <2> QED BY <1>1, <1>2, <1>4, <2>2, SaveKeeps
<1>5. CASE ~Found
  <2> HIDE DEF Found
  <2> QED BY <1>1, <1>5, ReportKeeps
<1> QED BY <1>4, <1>5

LEMMA FinalizeKeeps ==
    ASSUME SpoolInv, ConsumerInv, trace' \in TraceEnds, NEW p \in Consumers, Finalize(p)
    PROVE  ConsumerInv'
<1>1. /\ HasLock(p) /\ exported = close /\ close \in CloseMsgs
      /\ UNCHANGED <<spoolVars, started>>
  BY DEF Finalize, HasLock, ConsumerInv, LedgerSide, ExportIsClose, SpoolInv, SpoolTypeOK
<1>2. Current \in States /\ Sound(Current, chunks, AckedMsgs, close)
  BY CurrentIsSound
<1>3. ASSUME NEW pr \in Proofs, Current.status = "open",
             Save(p, FinalState(Current, exported, pr))
      PROVE  ConsumerInv'
  <2> DEFINE t == FinalState(Current, close, pr)
  <2>1. t \in States /\ Sound(t, chunks, AckedMsgs, close) /\ Follows(Current, t)
    BY <1>1, <1>2, <1>3, FinalExtends
  <2>2. Save(p, t)
    BY <1>1, <1>3
  <2> HIDE DEF t
  <2> QED BY <1>1, <2>1, <2>2, SaveKeeps
<1>4. ASSUME Current.status = "finalized", Goto(p, "evidence"),
             mem' = [mem EXCEPT ![p] = Current], UNCHANGED <<checkpoint, view, files>>
      PROVE  ConsumerInv'
  <2>1. /\ LockHeldByOne' /\ pc' \in [Consumers -> Labels] /\ pc'[p] = "evidence"
        /\ \A q \in Consumers : q # p => pc'[q] = "idle"
    BY <1>1, <1>4, OneMoves DEF Goto, Labels, Artifacts
  <2>2. mem' \in [Consumers -> States \cup {None}] /\ mem'[p] = Current
    BY <1>2, <1>4 DEF ConsumerInv, ConsumerTypeOK
  <2>3. checkpoint # None /\ Current = checkpoint
    BY <1>4 DEF Current, Fresh
  <2>4. ConsumerTypeOK'
    BY <1>1, <1>4, <2>1, <2>2 DEF ConsumerInv, ConsumerTypeOK, Labels, spoolVars, States
  <2>5. LedgerSide'
    BY <1>1, <1>4 DEF ConsumerInv, LedgerSide, SequencesAreUnique, ExportIsClose, AckedMsgs,
                      Current, spoolVars, ledgerVars
  <2>6. InHand' /\ Publishing' /\ ArtifactsMatchCheckpoint'
    BY <1>4, <2>1, <2>2, <2>3 DEF InHand, Artifacts, Publishing, ConsumerInv, ArtifactsMatchCheckpoint
  <2> QED BY <2>1, <2>4, <2>5, <2>6 DEF ConsumerInv
<1> QED BY <1>3, <1>4 DEF Finalize

\* os.replace puts the checked state in the place of the open one.
LEMMA ReplaceKeeps ==
    ASSUME SpoolInv, ConsumerInv, trace' \in TraceEnds, NEW p \in Consumers, Replace(p)
    PROVE  ConsumerInv'
<1>1. /\ mem[p] \in States /\ mem[p] # None
      /\ Sound(mem[p], chunks, AckedMsgs, close) /\ Follows(Current, mem[p])
  BY NoneIsNoState DEF Replace, ConsumerInv, InHand
<1>2. checkpoint' = mem[p] /\ UNCHANGED <<spoolVars, started, files>> /\ HasLock(p)
  BY DEF Replace, HasLock
<1>3. Current' = mem[p]
  BY <1>1, <1>2 DEF Current
<1>4. \A a \in Artifacts : files[a] = None
  <2>1. checkpoint # None => checkpoint.status # "finalized"
    BY <1>1 DEF Follows, Current
  <2> QED BY <2>1 DEF ConsumerInv, ArtifactsMatchCheckpoint
<1>5. ArtifactsMatchCheckpoint'
  BY <1>2, <1>4 DEF ArtifactsMatchCheckpoint, Artifacts
<1>6. LedgerSide'
  <2>1. UNCHANGED <<AckedMsgs, chunks, close, exported>>
    BY <1>2 DEF AckedMsgs, spoolVars, ledgerVars
  <2>2. SequencesAreUnique' /\ ExportIsClose'
    BY <2>1 DEF ConsumerInv, LedgerSide, SequencesAreUnique, ExportIsClose
  <2> QED BY <1>1, <1>3, <2>1, <2>2 DEF LedgerSide
<1>7. ASSUME NEW l \in {"evidence", "chunks", "report"}, Goto(p, l), UNCHANGED <<view, mem>>,
             l = "evidence" => mem[p].status = "finalized",
             l = "chunks" => mem[p].status = "open"
      PROVE  ConsumerInv'
  <2>1. /\ LockHeldByOne' /\ pc' \in [Consumers -> Labels] /\ pc'[p] = l
        /\ \A q \in Consumers : q # p => pc'[q] = "idle"
    BY <1>2, <1>7, OneMoves DEF Goto, Labels, Artifacts
  <2>2. ConsumerTypeOK'
    BY <1>1, <1>2, <1>7, <2>1 DEF ConsumerInv, ConsumerTypeOK, Labels, spoolVars, States
  <2>3. InHand' /\ Publishing'
    BY <1>1, <1>2, <1>3, <1>7, <2>1 DEF InHand, Publishing, Artifacts
  <2> QED BY <1>5, <1>6, <2>1, <2>2, <2>3 DEF ConsumerInv
<1>8. ASSUME Leave(p, None)
      PROVE  ConsumerInv'
  <2>1. /\ LockHeldByOne' /\ pc' \in [Consumers -> Labels]
        /\ \A q \in Consumers : pc'[q] = "idle"
    BY <1>2, <1>8, OneMoves DEF Leave, Goto, Labels
  <2>2. mem' \in [Consumers -> States \cup {None}]
    BY <1>8 DEF Leave, ConsumerInv, ConsumerTypeOK
  <2>3. view' \in [Consumers -> 0..published]
    <3>1. 0 \in 0..published
      BY OutboxShape DEF SpoolInv, SpoolTypeOK
    <3> QED BY <1>8, <3>1 DEF Leave, ConsumerInv, ConsumerTypeOK
  <2>4. ConsumerTypeOK'
    BY <1>1, <1>2, <2>1, <2>2, <2>3 DEF ConsumerInv, ConsumerTypeOK, Labels, spoolVars, States
  <2>5. InHand' /\ Publishing'
    BY <2>1 DEF InHand, Publishing, Artifacts
  <2> QED BY <1>5, <1>6, <2>1, <2>4, <2>5 DEF ConsumerInv
<1>9. AfterReplace(p) \in {"evidence", "chunks", "report"}
  BY DEF AfterReplace
<1>10. /\ AfterReplace(p) = "evidence" => mem[p].status = "finalized"
       /\ AfterReplace(p) = "chunks" => mem[p].status = "open"
  BY DEF AfterReplace
<1>11. Leave(p, None) \/ (Goto(p, AfterReplace(p)) /\ UNCHANGED <<view, mem>>)
  BY DEF Replace
<1> QED BY <1>7, <1>8, <1>9, <1>10, <1>11

-----------------------------------------------------------------------------
(***************************************************************************)
(* Publication                                                             *)
(***************************************************************************)

\* What a process that publishes may do: link a file made from the final
\* checkpoint, or undo its own link, and go on, or end.
LEMMA PublicationKeeps ==
    ASSUME SpoolInv, ConsumerInv, trace' \in TraceEnds,
           NEW p \in Consumers, pc[p] \in Artifacts,
           UNCHANGED <<spoolVars, started, checkpoint>>,
           NEW l \in {"idle", "report"} \cup Artifacts, pc' = [pc EXCEPT ![p] = l],
           (l = "idle" /\ Return(p)) \/ UNCHANGED <<view, mem>>,
           files' \in [Artifacts -> {None, checkpoint}],
           ArtifactsMatchCheckpoint',
           l = "summary" => files'["evidence"] # None /\ files'["summary"] = None,
           l = "envelope" => files'["summary"] # None,
           l = "receipt" => files'["envelope"] # None
    PROVE  ConsumerInv'
<1>1. /\ LockHeldByOne' /\ pc' \in [Consumers -> Labels] /\ pc'[p] = l
      /\ \A q \in Consumers : q # p => pc'[q] = "idle"
  BY OneMoves DEF HasLock, Labels, Artifacts
<1>2. mem' \in [Consumers -> States \cup {None}] /\ view' \in [Consumers -> 0..published]
  <2>1. 0 \in 0..published
    BY OutboxShape DEF SpoolInv, SpoolTypeOK
  <2>2. CASE Return(p)
    BY <2>1, <2>2 DEF Return, Leave, ConsumerInv, ConsumerTypeOK
  <2>3. CASE UNCHANGED <<view, mem>>
    BY <2>3 DEF ConsumerInv, ConsumerTypeOK
  <2> QED BY <2>2, <2>3
<1>3. ConsumerTypeOK'
  BY <1>1, <1>2 DEF ConsumerInv, ConsumerTypeOK, Labels, spoolVars, States
<1>4. LedgerSide'
  BY DEF ConsumerInv, LedgerSide, SequencesAreUnique, ExportIsClose, AckedMsgs, Current,
         spoolVars, ledgerVars
<1>5. l # "idle" => mem' = mem
  OBVIOUS
<1>6. InHand' /\ Publishing'
  BY <1>1, <1>5 DEF ConsumerInv, InHand, Publishing, Artifacts
<1> QED BY <1>1, <1>3, <1>4, <1>6 DEF ConsumerInv

LEMMA PublishKeeps ==
    ASSUME SpoolInv, ConsumerInv, trace' \in TraceEnds, NEW p \in Consumers,
           \/ PublishEvidence(p) \/ PublishSummary(p) \/ SummaryFails(p)
           \/ PublishEnvelope(p) \/ PublishReceipt(p)
    PROVE  ConsumerInv'
<1>1. pc[p] \in Artifacts /\ UNCHANGED <<spoolVars, started, checkpoint>>
  BY DEF PublishEvidence, PublishSummary, SummaryFails, PublishEnvelope, PublishReceipt, Artifacts
<1>2. mem[p] = checkpoint /\ checkpoint # None /\ checkpoint.status = "finalized"
  BY <1>1 DEF ConsumerInv, InHand
<1>3. files \in [Artifacts -> {None, checkpoint}]
  BY DEF ConsumerInv, ConsumerTypeOK, ArtifactsMatchCheckpoint
<1>4. ASSUME NEW a \in Artifacts, Put(p, a)
      PROVE  /\ files' \in [Artifacts -> {None, checkpoint}]
             /\ files'[a] # None /\ \A b \in Artifacts : b # a => files'[b] = files[b]
  BY <1>2, <1>3, <1>4 DEF Put
<1>5. /\ files["summary"] # None => files["evidence"] # None
      /\ files["envelope"] # None =>
            files["summary"] # None /\ checkpoint.proof \notin LateProofs
      /\ files["receipt"] # None => files["envelope"] # None
  BY DEF ConsumerInv, ArtifactsMatchCheckpoint
<1>6. CASE PublishEvidence(p)
  <2>1. /\ files' \in [Artifacts -> {None, checkpoint}]
        /\ files'["evidence"] # None
        /\ \A b \in Artifacts : b # "evidence" => files'[b] = files[b]
    BY <1>4, <1>6 DEF PublishEvidence, Artifacts
  <2>2. ArtifactsMatchCheckpoint'
    BY <1>1, <1>2, <1>5, <2>1 DEF ArtifactsMatchCheckpoint, Artifacts
  <2>3. CASE files["evidence"] = None
    BY <1>1, <1>5, <1>6, <2>1, <2>2, <2>3, PublicationKeeps
       DEF PublishEvidence, Goto, Artifacts
  <2>4. CASE files["evidence"] # None /\ files["summary"] = None
    BY <1>1, <1>6, <2>1, <2>2, <2>4, PublicationKeeps
       DEF PublishEvidence, Goto, Artifacts, Return, Leave
  <2>5. CASE files["evidence"] # None /\ files["summary"] # None
    BY <1>1, <1>6, <2>1, <2>2, <2>5, PublicationKeeps
       DEF PublishEvidence, Goto, Artifacts
  <2> QED BY <2>3, <2>4, <2>5
<1>7. CASE PublishSummary(p)
  <2>1. /\ files' \in [Artifacts -> {None, checkpoint}]
        /\ files'["summary"] # None
        /\ \A b \in Artifacts : b # "summary" => files'[b] = files[b]
    BY <1>4, <1>7 DEF PublishSummary, Artifacts
  <2>2. files["evidence"] # None
    BY <1>7 DEF PublishSummary, ConsumerInv, Publishing
  <2>3. ArtifactsMatchCheckpoint'
    BY <1>1, <1>2, <1>5, <2>1, <2>2 DEF ArtifactsMatchCheckpoint, Artifacts
  <2> QED BY <1>1, <1>7, <2>1, <2>3, PublicationKeeps DEF PublishSummary, Goto, Artifacts
<1>8. CASE SummaryFails(p)
  <2>1. files["summary"] = None
    BY <1>8 DEF SummaryFails, ConsumerInv, Publishing
  <2>2. /\ files' \in [Artifacts -> {None, checkpoint}]
        /\ \A b \in Artifacts : files'[b] = None
    BY <1>3, <1>5, <1>8, <2>1 DEF SummaryFails, Artifacts
  <2>3. ArtifactsMatchCheckpoint'
    BY <2>2 DEF ArtifactsMatchCheckpoint, Artifacts
  <2> QED BY <1>1, <1>8, <2>2, <2>3, PublicationKeeps DEF SummaryFails, Goto, Artifacts, Return, Leave
<1>9. CASE PublishEnvelope(p)
  <2>1. files["summary"] # None
    BY <1>9 DEF PublishEnvelope, ConsumerInv, Publishing
  <2>2. CASE mem[p].proof \in LateProofs
    <3>1. files' = files /\ Goto(p, "report") /\ UNCHANGED <<view, mem>>
      BY <1>9, <2>2 DEF PublishEnvelope
    <3>2. ArtifactsMatchCheckpoint'
      BY <1>1, <3>1 DEF ConsumerInv, ArtifactsMatchCheckpoint
    <3> QED BY <1>1, <1>3, <3>1, <3>2, PublicationKeeps DEF Goto, Artifacts
  <2>3. CASE mem[p].proof \notin LateProofs
    <3>1. Put(p, "envelope") /\ Goto(p, "receipt") /\ UNCHANGED <<view, mem>>
      BY <1>9, <2>3 DEF PublishEnvelope
    <3>2. /\ files' \in [Artifacts -> {None, checkpoint}]
          /\ files'["envelope"] # None
          /\ \A b \in Artifacts : b # "envelope" => files'[b] = files[b]
      BY <1>4, <3>1 DEF Artifacts
    <3>3. ArtifactsMatchCheckpoint'
      BY <1>1, <1>2, <1>5, <2>1, <2>3, <3>2 DEF ArtifactsMatchCheckpoint, Artifacts
    <3> QED BY <1>1, <3>1, <3>2, <3>3, PublicationKeeps DEF Goto, Artifacts
  <2> QED BY <2>2, <2>3
<1>10. CASE PublishReceipt(p)
  <2>1. /\ files' \in [Artifacts -> {None, checkpoint}]
        /\ files'["receipt"] # None
        /\ \A b \in Artifacts : b # "receipt" => files'[b] = files[b]
    BY <1>4, <1>10 DEF PublishReceipt, Artifacts
  <2>2. files["envelope"] # None
    BY <1>10 DEF PublishReceipt, ConsumerInv, Publishing
  <2>3. ArtifactsMatchCheckpoint'
    BY <1>1, <1>2, <1>5, <2>1, <2>2 DEF ArtifactsMatchCheckpoint, Artifacts
  <2> QED BY <1>1, <1>10, <2>1, <2>3, PublicationKeeps DEF PublishReceipt, Goto, Artifacts
<1> QED BY <1>6, <1>7, <1>8, <1>9, <1>10

-----------------------------------------------------------------------------
(***************************************************************************)
(* The invariant and the theorems                                          *)
(***************************************************************************)

LEMMA ConsumerInvInit == ConsumerInit => ConsumerInv
<1> SUFFICES ASSUME ConsumerInit PROVE ConsumerInv
  OBVIOUS
<1>1. 0 \in 0..published
  BY DEF ConsumerInit, SpoolInit
<1>2. ConsumerTypeOK
  BY <1>1 DEF ConsumerInit, ConsumerTypeOK, TraceEnds
<1>3. LedgerSide
  BY FreshIsSound DEF ConsumerInit, SpoolInit, L!Init, LedgerSide, SequencesAreUnique,
                      ExportIsClose, Current
<1>4. LockHeldByOne /\ InHand /\ Publishing /\ ArtifactsMatchCheckpoint
  BY DEF ConsumerInit, LockHeldByOne, InHand, Publishing, ArtifactsMatchCheckpoint, Artifacts
<1> QED BY <1>2, <1>3, <1>4 DEF ConsumerInv

LEMMA ConsumerInvStep ==
    ASSUME SpoolInv, SpoolInv', ConsumerInv, [Next]_vars
    PROVE  ConsumerInv'
<1>0. trace' \in TraceEnds
  BY TraceStep
<1>1. CASE SpoolNext /\ UNCHANGED consumerVars
  BY <1>0, <1>1, SpoolStepKeeps DEF consumerVars, ConsumerInv, ConsumerTypeOK
<1>2. CASE StartRun
  BY <1>0, <1>2, SpoolStepKeeps, StepIsSpoolStep DEF StartRun
<1>3. CASE UNCHANGED vars
  BY <1>0, <1>3, SpoolStepKeeps, StepIsSpoolStep DEF vars, consumerVars, ConsumerInv, ConsumerTypeOK
<1>4. ASSUME NEW p \in Consumers, ConsumerMove(p) PROVE ConsumerInv'
  <2>1. CASE WaitForAck(p)
    BY <1>0, <2>1, ReportKeeps DEF WaitForAck
  <2>2. CASE EvidenceUnrecorded(p)
    BY <1>0, <2>2, DieKeeps DEF EvidenceUnrecorded, HasLock
  <2> QED BY <1>0, <1>4, <2>1, <2>2, BeginConsumeKeeps, ConsumeChunkKeeps, AcceptCloseKeeps,
             ReportStatusKeeps, FinalizeKeeps, ReplaceKeeps, PublishKeeps DEF ConsumerMove
<1>5. ASSUME NEW p \in Consumers, ConsumerCrash(p) PROVE ConsumerInv'
  <2>1. HasLock(p)
    BY <1>5 DEF ConsumerCrash, Appending, HasLock
  <2> QED BY <1>0, <1>5, <2>1, DieKeeps DEF ConsumerCrash
<1>6. ASSUME NEW p \in Finalizers, OnlyRecord(p) PROVE ConsumerInv'
  BY <1>0, <1>6, SpoolStepKeeps, StepIsSpoolStep
     DEF OnlyRecord, ConsumerInv, ConsumerTypeOK
<1> QED BY <1>0, <1>1, <1>2, <1>3, <1>4, <1>5, <1>6, PublishKeeps DEF Next, ConsumerStep

LEMMA ConsumerInvariance == Safety => []SpoolInv /\ []ConsumerInv
<1>1. SpoolInv /\ SpoolInv' /\ ConsumerInv /\ [Next]_vars => ConsumerInv'
  BY ConsumerInvStep
<1> QED BY <1>1, ConsumerInvInit, ConsumerImplementsSpool, Invariance, PTL DEF Safety

\* Every variable of the consumer keeps a value of its kind.
THEOREM ConsumerTypeCorrect == Safety => []ConsumerTypeOK
<1>1. ConsumerInv => ConsumerTypeOK
  BY DEF ConsumerInv
<1> QED BY <1>1, ConsumerInvariance, PTL

\* _load_verified_chunk, _apply_chunk and _accept_available_run_closed: the
\* checkpoint is a gapless run of committed and acknowledged chunks, with the
\* accepted close or none, whoever overlaps, lags or dies.
THEOREM CheckpointFollowsLedger == Safety => []CheckpointIsPrefix
<1>1. ConsumerInv => CheckpointIsPrefix
  BY DEF ConsumerInv, LedgerSide, Sound, AckedMsgs, CheckpointIsPrefix
<1> QED BY <1>1, ConsumerInvariance, PTL

\* accept_verified_close_proof: what is finalized is all that the accepted
\* close covers and nothing else, for any number of partitions and chunks.
THEOREM FinalizedIsComplete == Safety => []FinalizedCoversClose
<1>1. SpoolInv /\ ConsumerInv => FinalizedCoversClose
  <2> SUFFICES ASSUME SpoolInv, ConsumerInv, Current.status = "finalized"
               PROVE  /\ Current.closed = close /\ Current.proof \in ValidProofs
                      /\ Current.got = {c \in chunks : CoveredBy(close, c)}
                      /\ \A f \in close.finals : L!Covers(f.part, f.covered)
    BY DEF FinalizedCoversClose
  <2>1. /\ Current.closed = close /\ close \in CloseMsgs /\ Current.proof \in ValidProofs
        /\ Covered(Current, close) /\ Current.got \subseteq chunks
    BY CurrentIsSound DEF Sound, SpoolInv, SpoolTypeOK, L!TypeOK
  <2>2. ASSUME NEW c \in chunks, CoveredBy(close, c) PROVE c \in Current.got
    <3>1. PICK f \in close.finals : f.part = c.part /\ c.seq <= f.covered
      BY <2>2 DEF CoveredBy
    <3>2. c.seq \in 1..f.covered
      BY <2>1, <3>1, MessagesAreValid DEF L!IsChunk, L!IsWatermark, L!IsRunClosed, L!Positive,
                                          SpoolInv, SpoolTypeOK, L!TypeOK
    <3>3. PICK d \in Current.got : d.part = f.part /\ d.seq = c.seq
      BY <2>1, <3>2 DEF Covered
    <3> QED BY <2>1, <3>1, <3>3 DEF ConsumerInv, LedgerSide, SequencesAreUnique
  <2>3. \A f \in close.finals : L!Covers(f.part, f.covered)
    BY <2>1 DEF Covered, L!Covers, L!InPart
  <2>4. \A c \in Current.got : CoveredBy(close, c)
    BY <2>1 DEF Covered
  <2> QED BY <2>1, <2>2, <2>3, <2>4
<1> QED BY <1>1, ConsumerInvariance, PTL

\* finalize_and_publish: every artifact comes from the final checkpoint, in
\* the order of publication, and late Evidence gets no envelope.
THEOREM ArtifactsAreFinal == Safety => []ArtifactsMatchCheckpoint
<1>1. ConsumerInv => ArtifactsMatchCheckpoint
  BY DEF ConsumerInv
<1> QED BY <1>1, ConsumerInvariance, PTL

\* write_r1_incremental_checkpoint under r1_directory_lock: a checkpoint is
\* replaced only while it is open, and only by a later one that keeps what
\* it has, although check and replacement are two steps.
THEOREM TerminalStateIsFinal == Safety => TerminalIsFinal
<1> DEFINE Final ==
      checkpoint # None /\ checkpoint' # checkpoint =>
          /\ checkpoint.status = "open"
          /\ checkpoint.got \subseteq checkpoint'.got
          /\ checkpoint.closed \in {None, checkpoint'.closed}
          /\ Generation(checkpoint') > Generation(checkpoint)
<1>1. ConsumerInv /\ [Next]_vars => [Final]_vars
  <2> SUFFICES ASSUME ConsumerInv, [Next]_vars, checkpoint # None, checkpoint' # checkpoint
               PROVE  Final
    OBVIOUS
  <2>1. PICK p \in Consumers : Replace(p)
    BY DEF Next, vars, consumerVars, StartRun, ConsumerStep, ConsumerMove, SummaryFails,
           ConsumerCrash, BeginConsume, ConsumeChunk, WaitForAck, AcceptClose, ReportStatus,
           Finalize, Save, Die, PublishEvidence, EvidenceUnrecorded, PublishSummary,
           PublishEnvelope, PublishReceipt, OnlyRecord
  <2>2. checkpoint' = mem[p] /\ CanReplace(mem[p]) /\ Follows(checkpoint, mem[p])
    BY <2>1 DEF Replace, ConsumerInv, InHand, Current
  <2>3. Generation(mem[p]) > Generation(checkpoint)
    BY <2>2 DEF CanReplace
  <2>4. Generation(checkpoint') = Generation(mem[p])
    BY <2>2
  <2> QED BY <2>2, <2>3, <2>4 DEF Follows
<1> QED BY <1>1, ConsumerInvariance, PTL DEF Safety, TerminalIsFinal

=============================================================================
