------------------------------- MODULE R1Spool -------------------------------
(***************************************************************************)
(* The file spool in front of the R1 stream ledger                         *)
(* (pipeline/r1_stream_wiring.py).  One producer publishes immutable       *)
(* outbox files in ordinal order; passes of consume_spool_once deliver     *)
(* them to the ledger in that order, one transaction per message, and      *)
(* write an acknowledgement after the commit.                              *)
(*                                                                         *)
(* A pass may die between the commit and the acknowledgement, its commit   *)
(* may be answered with an error although the server committed, and two    *)
(* passes may overlap (a restarted sidecar beside a slow one).             *)
(***************************************************************************)
EXTENDS Naturals, Sequences, FiniteSets

CONSTANTS
    Outboxes,    \* the message sequences a producer may publish
    Ingresses,   \* processes that run consume_spool_once
    Contract,    \* partitions of the required-partition contract
    WatermarkLock,  \* see R1StreamLedger
    MaxCrashes,  \* bound on process deaths
    None

AllMsgs == UNION {{o[i] : i \in DOMAIN o} : o \in Outboxes}
ChunkMsgs     == {m \in AllMsgs : m.type = "event_chunk"}
WatermarkMsgs == {m \in AllMsgs : m.type = "source_watermark"}
CloseMsgs     == {m \in AllMsgs : m.type = "run_closed"}
PositionMsgs  == {}

\* An outbox is a list of files; a message is a record, None is not.
ASSUME OutboxAssumption ==
    /\ \A o \in Outboxes : o \in Seq(AllMsgs)
    /\ None \notin AllMsgs
    /\ MaxCrashes \in Nat
    /\ WatermarkLock \in BOOLEAN

VARIABLES
    chunks, events, watermarks, close, position, dead,  \* the ledger
    outbox,     \* what the producer publishes, in ordinal order
    published,  \* how much of it is in outbox/
    acks,       \* ordinals with a file in acks/
    upto,       \* the last ordinal a pass saw when it listed outbox/; 0: none
    held,       \* the ordinal a pass committed and has not acked; 0: none
    exported,   \* exports/<run_id>/accepted-run-closed.json, or None
    crashes

ledgerVars == <<chunks, events, watermarks, close, position, dead>>
spoolVars == <<ledgerVars, outbox, published, acks, upto, held, exported, crashes>>

L == INSTANCE R1StreamLedger

\* What the message models validate before a file is published
ASSUME MessagesAreValid ==
    /\ \A c \in ChunkMsgs : L!IsChunk(c)
    /\ \A w \in WatermarkMsgs : L!IsWatermark(w)
    /\ \A x \in CloseMsgs : L!IsRunClosed(x)

SpoolInit ==
    /\ L!Init
    /\ outbox \in Outboxes
    /\ published = 0 /\ acks = {}
    /\ upto = [p \in Ingresses |-> 0]
    /\ held = [p \in Ingresses |-> 0]
    /\ exported = None
    /\ crashes = 0

-----------------------------------------------------------------------------
\* publish_sysmon_segment, publish_source_watermark, publish_run_closed: a
\* republication of the same bytes is a no-op of _publish_immutable.
Publish ==
    /\ published < Len(outbox)
    /\ published' = published + 1
    /\ UNCHANGED <<ledgerVars, outbox, acks, upto, held, exported, crashes>>

\* The files a pass still has to deliver: acknowledged ones are skipped.
Pending(p) == (1..upto[p]) \ acks

First(S) == CHOOSE i \in S : \A j \in S : i <= j

\* sorted(outbox.glob("*.json")) is taken once, when the pass starts.
BeginPass(p) ==
    /\ held[p] = 0 /\ Pending(p) = {}
    /\ ~((1..published) \subseteq acks)
    /\ upto' = [upto EXCEPT ![p] = published]
    /\ UNCHANGED <<ledgerVars, outbox, published, acks, held, exported, crashes>>

\* _require_partition, and the exact cover that run_closed needs
InContract(m) ==
    IF m.type = "run_closed"
    THEN {f.part : f \in m.finals} = Contract
    ELSE m.part \in Contract

\* The ledger answers an exact replay with "duplicate".
Replay(m) ==
    \/ m \in chunks \cup watermarks
    \/ m = close /\ L!FinalsMatch(m)

\* The accept_* call of the message's type succeeds and writes.
Accepts(m) ==
    CASE m.type = "event_chunk"      -> L!Admissible(m) /\ ~L!IsLate(m)
      [] m.type = "source_watermark" -> close = None /\ L!Advances(m)
      [] m.type = "run_closed"       -> close = None /\ L!FinalsMatch(m)

\* The message is refused for what it says, by the contract or by the ledger.
Inadmissible(m) == ~InContract(m) \/ ~(Replay(m) \/ Accepts(m))

\* The advisory locks of the accept_* call are taken, a replay included.
Lockable(m) == m \in WatermarkMsgs => WatermarkLock

Refused(m) == Inadmissible(m) \/ ~Lockable(m)

\* Mutant: the ledger is told to store whatever is in the outbox.
WriteUnchecked(m) ==
    \/ m \in ChunkMsgs /\ L!SaveChunk(m) /\ UNCHANGED <<watermarks, close, position, dead>>
    \/ m \in WatermarkMsgs /\ L!AcceptWatermark(m)
    \/ m \in CloseMsgs /\ L!AcceptRunClosed(m)

Write(m) ==
    \/ m \in ChunkMsgs /\ L!AcceptChunk(m)
    \/ m \in WatermarkMsgs /\ L!AcceptWatermark(m)
    \/ m \in CloseMsgs /\ L!AcceptRunClosed(m)

\* Mutant: only what is newly accepted is acknowledged.
CommitAccepted(p) ==
    /\ held[p] = 0 /\ Pending(p) # {}
    /\ LET m == outbox[First(Pending(p))]
       IN InContract(m) /\ Lockable(m) /\ ~Replay(m) /\ Write(m)
    /\ held' = [held EXCEPT ![p] = First(Pending(p))]
    /\ UNCHANGED <<outbox, published, acks, upto, exported, crashes>>

\* Accepted or duplicate: the transaction commits and the ack is due.
Commit(p) ==
    /\ held[p] = 0 /\ Pending(p) # {}
    /\ LET m == outbox[First(Pending(p))]
       IN /\ InContract(m) /\ Lockable(m)
          /\ IF Replay(m) THEN UNCHANGED ledgerVars ELSE Write(m)
    /\ held' = [held EXCEPT ![p] = First(Pending(p))]
    /\ UNCHANGED <<outbox, published, acks, upto, exported, crashes>>

\* Mutant: a refused message is passed over like an acknowledged one.
SkipRefused(p) ==
    /\ held[p] = 0 /\ Pending(p) # {}
    /\ Refused(outbox[First(Pending(p))])
    /\ acks' = acks \cup {First(Pending(p))}
    /\ UNCHANGED <<ledgerVars, outbox, published, upto, held, exported, crashes>>

\* Any exception rolls back and ends the pass; a late chunk leaves its dead
\* letter.  The next pass meets the same message first.
Refuse(p) ==
    /\ held[p] = 0 /\ Pending(p) # {}
    /\ LET m == outbox[First(Pending(p))]
       IN /\ Refused(m)
          /\ \/ InContract(m) /\ m \in ChunkMsgs /\ L!RejectLateChunk(m)
             \/ /\ ~(/\ InContract(m) /\ m \in ChunkMsgs
                     /\ L!Admissible(m) /\ L!IsLate(m)
                     /\ \A d \in dead : d.chunk.id # m.id)
                /\ UNCHANGED ledgerVars
    /\ upto' = [upto EXCEPT ![p] = 0]
    /\ UNCHANGED <<outbox, published, acks, held, exported, crashes>>

Acknowledge(p) ==
    /\ held[p] # 0 /\ held[p] \notin acks
    /\ acks' = acks \cup {held[p]}
    /\ held' = [held EXCEPT ![p] = 0]
    /\ UNCHANGED <<ledgerVars, outbox, published, upto, exported, crashes>>

\* Another pass has written the ack: other bytes raise and end this pass,
\* equal bytes (same disposition, same millisecond) do not.
AckConflict(p) ==
    /\ held[p] # 0 /\ held[p] \in acks
    /\ held' = [held EXCEPT ![p] = 0]
    /\ \/ upto' = [upto EXCEPT ![p] = 0]
       \/ UNCHANGED upto
    /\ UNCHANGED <<ledgerVars, outbox, published, acks, exported, crashes>>

\* The process dies, or the answer to its commit is lost and raises.
IngressCrash(p) ==
    /\ crashes < MaxCrashes
    /\ held[p] # 0 \/ Pending(p) # {}
    /\ held' = [held EXCEPT ![p] = 0]
    /\ upto' = [upto EXCEPT ![p] = 0]
    /\ crashes' = crashes + 1
    /\ UNCHANGED <<ledgerVars, outbox, published, acks, exported>>

\* export_accepted_close: the payload is exported only when the ledger holds
\* its receipt.
ExportAcceptedClose ==
    /\ \E i \in 1..published :
          /\ outbox[i].type = "run_closed" /\ InContract(outbox[i])
          /\ close = outbox[i]
          /\ exported' = outbox[i]
    /\ UNCHANGED <<ledgerVars, outbox, published, acks, upto, held, crashes>>

IngressStep(p) == BeginPass(p) \/ Commit(p) \/ Refuse(p) \/ Acknowledge(p) \/ AckConflict(p)

SpoolNext ==
    \/ Publish
    \/ ExportAcceptedClose
    \/ \E p \in Ingresses : IngressStep(p) \/ IngressCrash(p)

SpoolSpec == SpoolInit /\ [][SpoolNext]_spoolVars

-----------------------------------------------------------------------------
(***************************************************************************)
(* Correctness                                                             *)
(***************************************************************************)

SpoolTypeOK ==
    /\ L!TypeOK
    /\ outbox \in Outboxes
    /\ published \in 0..Len(outbox)
    /\ acks \subseteq 1..published
    /\ upto \in [Ingresses -> 0..published]
    /\ held \in [Ingresses -> 0..published]
    /\ exported \in CloseMsgs \cup {None}

Rows == chunks \cup watermarks \cup ({close} \ {None})

\* "The consumer acknowledges a message only after the ledger transaction
\* commits" and takes files in publication order: the ledger always holds
\* exactly the messages up to some ordinal, and the acknowledgements are the
\* same prefix or one message short of it, whatever passes overlap or die.
LedgerIsPrefix ==
    \E n \in 0..published, k \in 0..published :
        /\ k \in {n, n + 1}
        /\ acks = 1..n
        /\ Rows = {outbox[i] : i \in 1..k}

\* The ledger behind the spool is the ledger of R1StreamLedger: the transport
\* adds no behaviour, only an order of deliveries.
LedgerSpec == L!Spec

Waiting == (1..published) \ acks

\* The first unacknowledged message may not be accepted for what it says.
Blocked == Waiting # {} /\ Inadmissible(outbox[First(Waiting)])

\* "A real database cannot accept a source_watermark": its lock fails each time.
LockFails == Waiting # {} /\ ~Lockable(outbox[First(Waiting)])

\* consume_spool_once, "accept unacknowledged files in publication order and
\* ack after commit", is rerun by its sidecar: again and again every published
\* message has its ack, unless the first one without is inadmissible or is a
\* watermark whose lock cannot be taken.
EventuallyAcked == []<>(acks = 1..published \/ Blocked \/ LockFails)

=============================================================================
