---------------------------- MODULE DecisionStore ----------------------------
(***************************************************************************)
(* The decisions of the database and the two ways they are used: one       *)
(* transaction that records a decision with its runtime (_persist), and    *)
(* the dashboard's readers, which see a scope through several statements.  *)
(*                                                                         *)
(* A submission is what a caller of _persist hands over:                   *)
(*   [id, scope, supersedes, decision, runtime, run, meta, saveRun,        *)
(*    events, coherent, basis]                                             *)
(* decision and meta are opaque here; runtime is a function on Fields, the *)
(* four latest-row tables; coherent says whether the runtime snapshot      *)
(* contract accepts it; basis is auxiliary: the inputs the decision was    *)
(* made from.  Transactions are READ COMMITTED: every statement sees what  *)
(* has been committed, and a transaction's own writes appear at its        *)
(* commit.  history is auxiliary as well: the order of commits.            *)
(***************************************************************************)
EXTENDS Naturals, Sequences, FiniteSets, Values

CONSTANTS Ids, Scopes, RunIds, Procs, Readers, MaxAttempts, Submissions

ASSUME StoreAssumption ==
    /\ None \notin Ids /\ None \notin Procs
    /\ MaxAttempts \in Nat \ {0}

\* What callers may hand over.
ASSUME SubmissionAssumption ==
    /\ None \notin Submissions
    /\ \A sub \in Submissions : sub.id \in Ids /\ sub.scope \in Scopes /\ sub.runtime # None

VARIABLES decisions,   \* id -> submission as stored, or None
          snapshots,   \* id -> runtime, or None
          latest,      \* scope -> runtime, or None
          runs,        \* run -> metadata, or None
          events,      \* set of stored events
          history,     \* scope -> ids in commit order
          idLock, scopeLock,   \* the two advisory locks -> holder, or None
          tx,          \* process -> its transaction
          reader       \* reader -> its read in progress

tables == <<decisions, snapshots, latest, runs, events, history>>
storeVars == <<decisions, snapshots, latest, runs, events, history,
               idLock, scopeLock, tx, reader>>

Fields == {"detection", "fusion", "trace", "config"}

-----------------------------------------------------------------------------
\* DecisionRepository.get_current_head: the decisions of a scope that no other
\* decision of the scope supersedes.
InScope(s) == {i \in DOMAIN decisions : decisions[i] # None /\ decisions[i].scope = s}

Heads(s) ==
    LET ids == InScope(s)
    IN  {i \in ids : \A j \in ids : decisions[j].supersedes # i}

\* None when the scope is empty; a scope with no head or with several raises.
HeadReadable(s) == InScope(s) = {} \/ Cardinality(Heads(s)) = 1

CurrentHead(s) == IF InScope(s) = {} THEN None ELSE CHOOSE i \in Heads(s) : TRUE

\* resolve_expected_supersedes_decision_id: a recorded id keeps what it
\* supersedes, a new one supersedes the head.
Resolvable(id, s) ==
    IF decisions[id] # None THEN decisions[id].scope = s ELSE HeadReadable(s)

ExpectedSupersedes(id, s) ==
    IF decisions[id] # None THEN decisions[id].supersedes ELSE CurrentHead(s)

-----------------------------------------------------------------------------
\* _persist.  A transaction that ends gives both locks back.
Idle == [phase |-> "idle", sub |-> None]

Released(lock, p) == [k \in DOMAIN lock |-> IF lock[k] = p THEN None ELSE lock[k]]

End(p, outcome) ==
    /\ tx' = [tx EXCEPT ![p] = [phase |-> outcome, sub |-> tx[p].sub]]
    /\ idLock' = Released(idLock, p)
    /\ scopeLock' = Released(scopeLock, p)

Submit(p, sub) ==
    /\ tx[p].phase \in {"idle", "committed", "failed"}
    /\ tx' = [tx EXCEPT ![p] = [phase |-> "begin", sub |-> sub]]
    /\ UNCHANGED <<tables, idLock, scopeLock, reader>>

AcquireIdLock(p) ==
    /\ tx[p].phase = "begin"
    /\ idLock[tx[p].sub.id] = None
    /\ idLock' = [idLock EXCEPT ![tx[p].sub.id] = p]
    /\ tx' = [tx EXCEPT ![p] = [phase |-> "id", sub |-> tx[p].sub]]
    /\ UNCHANGED <<tables, scopeLock, reader>>

\* A transaction that goes on without the lock of its scope.
SkipScopeLock(p) ==
    /\ tx[p].phase = "id"
    /\ tx' = [tx EXCEPT ![p] = [phase |-> "locked", sub |-> tx[p].sub]]
    /\ UNCHANGED <<tables, idLock, scopeLock, reader>>

AcquireScopeLock(p) ==
    /\ tx[p].phase = "id"
    /\ scopeLock[tx[p].sub.scope] = None
    /\ scopeLock' = [scopeLock EXCEPT ![tx[p].sub.scope] = p]
    /\ tx' = [tx EXCEPT ![p] = [phase |-> "locked", sub |-> tx[p].sub]]
    /\ UNCHANGED <<tables, idLock, reader>>

\* An id that is stored: the same submission is a replay, anything else an
\* integrity error.
SameDecision(a, b) ==
    a.scope = b.scope /\ a.supersedes = b.supersedes /\ a.decision = b.decision

CheckExisting(p) ==
    /\ tx[p].phase = "locked"
    /\ decisions[tx[p].sub.id] # None
    /\ End(p, IF SameDecision(decisions[tx[p].sub.id], tx[p].sub)
                THEN "committed" ELSE "failed")
    /\ UNCHANGED <<tables, reader>>

HeadAccepted(sub) ==
    /\ HeadReadable(sub.scope)
    /\ CurrentHead(sub.scope) = sub.supersedes
    /\ sub.coherent

CheckHead(p) ==
    /\ tx[p].phase = "locked"
    /\ decisions[tx[p].sub.id] = None
    /\ IF HeadAccepted(tx[p].sub)
         THEN /\ tx' = [tx EXCEPT ![p] = [phase |-> "checked", sub |-> tx[p].sub]]
              /\ UNCHANGED <<idLock, scopeLock>>
         ELSE End(p, "failed")
    /\ UNCHANGED <<tables, reader>>

\* A save that leaves the latest rows of the scope as they were.
KeepLatest(s, runtime) == latest' = latest

SaveLatest(s, runtime) == latest' = [latest EXCEPT ![s] = runtime]

SaveRun(sub) ==
    runs' = IF sub.saveRun THEN [runs EXCEPT ![sub.run] = sub.meta] ELSE runs

SaveEvents(sub) ==
    events' = {e \in events : \A n \in sub.events : n.id # e.id} \cup sub.events

SaveDecision(sub) ==
    /\ decisions' = [decisions EXCEPT ![sub.id] = sub]
    /\ snapshots' = [snapshots EXCEPT ![sub.id] = sub.runtime]
    /\ history' = [history EXCEPT ![sub.scope] = Append(@, sub.id)]

Commit(p) ==
    /\ tx[p].phase = "checked"
    /\ SaveRun(tx[p].sub)
    /\ SaveEvents(tx[p].sub)
    /\ SaveLatest(tx[p].sub.scope, tx[p].sub.runtime)
    /\ SaveDecision(tx[p].sub)
    /\ End(p, "committed")
    /\ UNCHANGED reader

\* The connection is lost before the commit: everything is rolled back.
Lose(p) ==
    /\ tx[p].phase \in {"begin", "id", "locked", "checked"}
    /\ End(p, "failed")
    /\ UNCHANGED <<tables, reader>>

Transaction(p) ==
    \/ AcquireIdLock(p) \/ AcquireScopeLock(p)
    \/ CheckExisting(p) \/ CheckHead(p) \/ Commit(p) \/ Lose(p)

-----------------------------------------------------------------------------
\* The dashboard reads the head, three latest rows and the head again, each in
\* a statement of its own, at most MaxAttempts times.
FieldsOf(kind) ==
    IF kind = "decision" THEN <<"detection", "fusion", "trace">>
                         ELSE <<"fusion", "trace", "config">>

Row(s, f) == IF latest[s] = None THEN None ELSE latest[s][f]

NoRead == [phase |-> "idle", kind |-> "decision", scope |-> None, attempt |-> 0,
           before |-> None, at |-> 0, seen |-> [f \in Fields |-> None]]

OpenRead(r, kind, s) ==
    /\ reader[r].phase = "idle"
    /\ reader' = [reader EXCEPT ![r] =
                    [phase |-> "before", kind |-> kind, scope |-> s, attempt |-> 1,
                     before |-> None, at |-> 1, seen |-> [f \in Fields |-> None]]]
    /\ UNCHANGED <<tables, idLock, scopeLock, tx>>

\* A decision view of an empty scope is empty; the engine view goes on.
ReadBefore(r) ==
    /\ reader[r].phase = "before"
    /\ reader' = [reader EXCEPT ![r] =
                    [phase |-> IF reader[r].kind = "decision" /\ CurrentHead(reader[r].scope) = None
                                 THEN "empty" ELSE "rows",
                     kind |-> reader[r].kind, scope |-> reader[r].scope,
                     attempt |-> reader[r].attempt,
                     before |-> CurrentHead(reader[r].scope),
                     at |-> 1, seen |-> [f \in Fields |-> None]]]
    /\ UNCHANGED <<tables, idLock, scopeLock, tx>>

ReadRow(r) ==
    /\ reader[r].phase = "rows"
    /\ reader[r].at <= 3
    /\ LET f == FieldsOf(reader[r].kind)[reader[r].at]
       IN  reader' = [reader EXCEPT ![r] =
                        [phase |-> "rows", kind |-> reader[r].kind,
                         scope |-> reader[r].scope, attempt |-> reader[r].attempt,
                         before |-> reader[r].before, at |-> reader[r].at + 1,
                         seen |-> [reader[r].seen EXCEPT ![f] = Row(reader[r].scope, f)]]]
    /\ UNCHANGED <<tables, idLock, scopeLock, tx>>

\* A read that takes any head for the head it began with.
HeadUnchecked(r) == TRUE

HeadUnmoved(r) == CurrentHead(reader[r].scope) = reader[r].before

\* The engine view also wants one config version in the three rows it read.
VersionsMatch(r) ==
    reader[r].kind = "engine" =>
        \A f, g \in {"fusion", "trace", "config"} :
            \/ reader[r].seen[f] = None \/ reader[r].seen[g] = None
            \/ reader[r].seen[f].version = reader[r].seen[g].version

\* The end of an attempt: a view, another attempt, or a consistency error.
ReadAfter(r) ==
    /\ reader[r].phase = "rows"
    /\ reader[r].at = 4
    /\ reader' = [reader EXCEPT ![r] =
                    [phase |-> IF HeadUnmoved(r) /\ VersionsMatch(r) THEN "view"
                               ELSE IF reader[r].attempt < MaxAttempts THEN "before"
                               ELSE "inconsistent",
                     kind |-> reader[r].kind, scope |-> reader[r].scope,
                     attempt |-> reader[r].attempt + 1,
                     before |-> reader[r].before, at |-> 4, seen |-> reader[r].seen]]
    /\ UNCHANGED <<tables, idLock, scopeLock, tx>>

Reading(r) ==
    \/ \E kind \in {"decision", "engine"}, s \in Scopes : OpenRead(r, kind, s)
    \/ ReadBefore(r) \/ ReadRow(r) \/ ReadAfter(r)

-----------------------------------------------------------------------------
StoreEmpty ==
    /\ decisions = [i \in Ids |-> None]
    /\ snapshots = [i \in Ids |-> None]
    /\ latest = [s \in Scopes |-> None]
    /\ events = {}
    /\ history = [s \in Scopes |-> <<>>]
    /\ idLock = [i \in Ids |-> None]
    /\ scopeLock = [s \in Scopes |-> None]
    /\ tx = [p \in Procs |-> Idle]
    /\ reader = [r \in Readers |-> NoRead]

\* The owner of a run may have registered it before.
StoreInit ==
    /\ StoreEmpty
    /\ runs \in [RunIds -> {None} \cup {sub.meta : sub \in Submissions}]

StoreNext ==
    \/ \E p \in Procs : Transaction(p) \/ \E sub \in Submissions : Submit(p, sub)
    \/ \E r \in Readers : Reading(r)

\* The store alone, with callers that submit whatever they like.
StoreSpec == StoreInit /\ [][StoreNext]_storeVars

-----------------------------------------------------------------------------
\* build_decision_history: newest first, along the supersedes links.  It raises
\* (here: None) when the heads are not one, a link is dangling or a cycle, or
\* decisions are left over.
Walk(s) ==
    LET ids  == InScope(s)
        head == CurrentHead(s)
        step[n \in 1..Cardinality(ids)] ==
            IF n = 1 THEN head
            ELSE IF step[n - 1] \in ids THEN decisions[step[n - 1]].supersedes
            ELSE None
    IN  step

DecisionChain(s) ==
    LET ids  == InScope(s)
        walk == Walk(s)
    IN  IF ids = {} THEN <<>>
        ELSE IF /\ Cardinality(Heads(s)) = 1
                /\ {walk[n] : n \in DOMAIN walk} = ids
                /\ decisions[walk[Cardinality(ids)]].supersedes = None
          THEN walk
          ELSE <<None>>

-----------------------------------------------------------------------------
\* The head a scope has by the order of its commits.
LastOf(s) == IF history[s] = <<>> THEN None ELSE history[s][Len(history[s])]

\* The log of DecisionHistory that the tables stand for.
Logged ==
    [s \in Scopes |-> [n \in 1..Len(history[s]) |->
        [id |-> history[s][n], supersedes |-> decisions[history[s][n]].supersedes,
         decision |-> decisions[history[s][n]].decision, runtime |-> snapshots[history[s][n]]]]]

History == INSTANCE DecisionHistory WITH log <- Logged, current <- latest

\* Refinement: whatever callers submit and however their transactions
\* interleave, are lost or are repeated, the tables behave as one append-only
\* log per scope whose last runtime is the one in the latest rows.
HistoryKept == History!Spec

\* The dashboard's history of a scope, rebuilt from the links of the stored
\* payloads (build_decision_history), is the order of commits, newest first: no
\* interleaving of transactions forks, cuts or closes the chain.
HistoryIsRebuilt ==
    \A s \in Scopes :
        /\ HeadReadable(s)
        /\ DecisionChain(s) = [n \in 1..Len(history[s]) |->
                                 history[s][Len(history[s]) + 1 - n]]

\* A view the dashboard returns pairs a decision with the rows that were saved
\* with it, although rows and head are read in separate statements: nothing of
\* an older or a newer decision is mixed in.
ViewIsConsistent ==
    \A r \in Readers : reader[r].phase = "view" =>
        \A n \in 1..3 :
            LET f == FieldsOf(reader[r].kind)[n]
            IN  reader[r].seen[f] = IF reader[r].before = None THEN None
                                    ELSE snapshots[reader[r].before][f]
=============================================================================
