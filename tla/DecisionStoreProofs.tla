------------------------- MODULE DecisionStoreProofs -------------------------
(***************************************************************************)
(* Proofs about DecisionStore for every set of callers, submissions,       *)
(* readers and scopes: the tables implement the log of DecisionHistory, a  *)
(* view never mixes two decisions, a caller's answer and a stored decision *)
(* stay true, and the history rebuilt from the links is that log.          *)
(*                                                                         *)
(* None is inductive.  The links of the stored decisions have to be the    *)
(* order of commits, a transaction past its checks has to hold both locks  *)
(* with the head it checked still in place, and a reader in the middle of  *)
(* its rows has read nothing but rows of the head it began with unless     *)
(* that head has moved for good.                                           *)
(***************************************************************************)
EXTENDS DecisionStore, FiniteSetTheorems, SequenceTheorems, TLAPS

Phases == {"idle", "begin", "id", "locked", "checked", "committed", "failed"}
Busy == {"begin", "id", "locked", "checked"}

\* What a caller of _persist hands over, whoever it is.
IsSubmission(sub) ==
    /\ sub # None
    /\ sub.id \in Ids /\ sub.scope \in Scopes /\ sub.runtime # None

StoreShape ==
    /\ decisions = [i \in Ids |-> decisions[i]]
    /\ snapshots = [i \in Ids |-> snapshots[i]]
    /\ latest = [s \in Scopes |-> latest[s]]
    /\ history \in [Scopes -> Seq(Ids)]
    /\ idLock \in [Ids -> Procs \cup {None}]
    /\ scopeLock \in [Scopes -> Procs \cup {None}]
    /\ tx = [p \in Procs |-> tx[p]]

StoreTypeOK ==
    /\ StoreShape
    /\ \A i \in Ids : decisions[i] # None => IsSubmission(decisions[i])
    /\ \A p \in Procs : /\ tx[p].phase \in Phases
                        /\ tx[p].phase \in Busy => IsSubmission(tx[p].sub)

\* The stored links are the order of commits.
LinksInOrder ==
    \A s \in Scopes : \A n \in 1..Len(history[s]) :
        /\ decisions[history[s][n]] # None
        /\ decisions[history[s][n]].scope = s
        /\ decisions[history[s][n]].supersedes = IF n = 1 THEN None ELSE history[s][n - 1]

EveryDecisionLogged ==
    /\ \A i \in Ids : decisions[i] # None =>
          /\ decisions[i].id = i
          /\ snapshots[i] # None
          /\ \E n \in 1..Len(history[decisions[i].scope]) : history[decisions[i].scope][n] = i
    /\ \A s \in Scopes : \A m, n \in 1..Len(history[s]) : history[s][m] = history[s][n] => m = n

LatestIsLast ==
    \A s \in Scopes : latest[s] = IF LastOf(s) = None THEN None ELSE snapshots[LastOf(s)]

\* What a transaction holds at each phase.
LocksHeld ==
    \A p \in Procs :
        /\ tx[p].phase \in {"id", "locked", "checked"} => idLock[tx[p].sub.id] = p
        /\ tx[p].phase \in {"locked", "checked"} => scopeLock[tx[p].sub.scope] = p

CheckedStays ==
    \A p \in Procs : tx[p].phase = "checked" =>
        /\ decisions[tx[p].sub.id] = None
        /\ tx[p].sub.supersedes = LastOf(tx[p].sub.scope)

TablesInv == StoreTypeOK /\ LinksInOrder /\ EveryDecisionLogged /\ LatestIsLast
StoreInv == TablesInv /\ LocksHeld /\ CheckedStays

-----------------------------------------------------------------------------
(***************************************************************************)
(* The head                                                                *)
(***************************************************************************)

\* The last commit of a scope is None exactly when there is none.
LEMMA LastOfType ==
    ASSUME StoreTypeOK, NEW s \in Scopes
    PROVE  /\ history[s] \in Seq(Ids) /\ Len(history[s]) \in Nat
           /\ history[s] = <<>> => LastOf(s) = None
           /\ history[s] # <<>> => /\ Len(history[s]) > 0 /\ LastOf(s) \in Ids
                                   /\ LastOf(s) = history[s][Len(history[s])]
                                   /\ LastOf(s) # None
<1>1. history[s] \in Seq(Ids)
  BY DEF StoreTypeOK, StoreShape
<1>2. history[s] # <<>> => Len(history[s]) \in Nat /\ Len(history[s]) > 0
                           /\ history[s][Len(history[s])] \in Ids
  BY <1>1
<1> QED BY <1>1, <1>2, StoreAssumption DEF LastOf

\* get_current_head: a scope that has decisions has one head, the decision that
\* was committed last.
LEMMA HeadIsLast ==
    ASSUME TablesInv, NEW s \in Scopes
    PROVE  HeadReadable(s) /\ CurrentHead(s) = LastOf(s)
<1> DEFINE h == history[s]
<1>t. h \in Seq(Ids) /\ Len(h) \in Nat /\ DOMAIN decisions = Ids
  BY LastOfType DEF TablesInv, StoreTypeOK, StoreShape
<1>i. \A n \in 1..Len(h) : h[n] \in Ids
  BY <1>t
<1>l. \A n \in 1..Len(h) : /\ h[n] \in InScope(s)
                           /\ decisions[h[n]].supersedes = IF n = 1 THEN None ELSE h[n - 1]
  BY <1>t, <1>i DEF TablesInv, LinksInOrder, InScope
<1>e. \A i \in InScope(s) : \E n \in 1..Len(h) : h[n] = i
  BY <1>t DEF TablesInv, EveryDecisionLogged, InScope
<1>u. \A m, n \in 1..Len(h) : h[m] = h[n] => m = n
  BY DEF TablesInv, EveryDecisionLogged
<1>1. CASE h = <<>>
  <2>1. InScope(s) = {}
    BY <1>1, <1>e
  <2> QED BY <2>1, <1>1 DEF HeadReadable, CurrentHead, LastOf
<1>2. CASE h # <<>>
  <2>1. Len(h) \in 1..Len(h) /\ Len(h) > 0
    BY <1>2, <1>t
  <2>2. h[Len(h)] \in Heads(s)
    <3>1. ASSUME NEW j \in InScope(s) PROVE decisions[j].supersedes # h[Len(h)]
      <4>1. PICK n \in 1..Len(h) : h[n] = j
        BY <1>e
      <4>2. CASE n = 1
        BY <4>1, <4>2, <1>l, <1>i, <2>1, StoreAssumption
      <4>3. CASE n # 1
        <5>1. n - 1 \in 1..Len(h) /\ n - 1 # Len(h)
          BY <4>3, <1>t
        <5>2. decisions[j].supersedes = h[n - 1]
          BY <4>1, <4>3, <1>l
        <5> QED BY <5>1, <5>2, <1>u, <2>1
      <4> QED BY <4>2, <4>3
    <3>2. h[Len(h)] \in InScope(s)
      BY <1>l, <2>1
    <3> QED BY <3>1, <3>2 DEF Heads
  <2>3. ASSUME NEW i \in Heads(s) PROVE i = h[Len(h)]
    <3>1. i \in InScope(s) /\ \A j \in InScope(s) : decisions[j].supersedes # i
      BY DEF Heads
    <3>2. PICK n \in 1..Len(h) : h[n] = i
      BY <3>1, <1>e
    <3>3. CASE n = Len(h)
      BY <3>2, <3>3
    <3>4. CASE n # Len(h)
      <4>1. n + 1 \in 1..Len(h) /\ n + 1 # 1 /\ (n + 1) - 1 = n
        BY <3>4, <1>t
      <4>2. h[n + 1] \in InScope(s) /\ decisions[h[n + 1]].supersedes = h[n]
        BY <4>1, <1>l
      <4> QED BY <4>2, <3>1, <3>2
    <3> QED BY <3>3, <3>4
  <2>4. Heads(s) = {h[Len(h)]}
    BY <2>2, <2>3
  <2>5. Cardinality(Heads(s)) = 1
    BY <2>4, FS_Singleton
  <2>6. InScope(s) # {}
    BY <1>l, <2>1
  <2>7. CurrentHead(s) = h[Len(h)]
    BY <2>4, <2>6 DEF CurrentHead
  <2> QED BY <2>5, <2>7, <1>2 DEF HeadReadable, LastOf
<1> QED BY <1>1, <1>2

-----------------------------------------------------------------------------
(***************************************************************************)
(* What a commit does                                                      *)
(***************************************************************************)

\* A commit adds one decision nobody had, and leaves every other row alone.
LEMMA CommitEffect ==
    ASSUME StoreInv, NEW p \in Procs, Commit(p)
    PROVE  /\ IsSubmission(tx[p].sub) /\ tx[p].sub.id \in Ids /\ tx[p].sub.scope \in Scopes
           /\ decisions[tx[p].sub.id] = None
           /\ tx[p].sub.supersedes = LastOf(tx[p].sub.scope)
           /\ decisions' = [decisions EXCEPT ![tx[p].sub.id] = tx[p].sub]
           /\ snapshots' = [snapshots EXCEPT ![tx[p].sub.id] = tx[p].sub.runtime]
           /\ latest' = [latest EXCEPT ![tx[p].sub.scope] = tx[p].sub.runtime]
           /\ history' = [history EXCEPT ![tx[p].sub.scope] = Append(@, tx[p].sub.id)]
           /\ tx' = [tx EXCEPT ![p] = [phase |-> "committed", sub |-> tx[p].sub]]
           /\ idLock' = Released(idLock, p) /\ scopeLock' = Released(scopeLock, p)
           /\ reader' = reader
<1>1. tx[p].phase = "checked"
  BY DEF Commit
<1>2. IsSubmission(tx[p].sub)
  BY <1>1 DEF StoreInv, TablesInv, StoreTypeOK, Busy
<1>3. tx[p].sub.id \in Ids /\ tx[p].sub.scope \in Scopes
  BY <1>2 DEF IsSubmission
<1>4. decisions[tx[p].sub.id] = None /\ tx[p].sub.supersedes = LastOf(tx[p].sub.scope)
  BY <1>1 DEF StoreInv, CheckedStays
<1> QED BY <1>2, <1>3, <1>4 DEF Commit, SaveDecision, SaveLatest, End

\* The order of commits grows at the end of one scope.
LEMMA CommitHistory ==
    ASSUME StoreInv, NEW p \in Procs, Commit(p)
    PROVE  /\ Len(history[tx[p].sub.scope]) \in Nat
           /\ Len(history'[tx[p].sub.scope]) = Len(history[tx[p].sub.scope]) + 1
           /\ \A n \in 1..Len(history[tx[p].sub.scope]) :
                 history'[tx[p].sub.scope][n] = history[tx[p].sub.scope][n]
           /\ history'[tx[p].sub.scope][Len(history[tx[p].sub.scope]) + 1] = tx[p].sub.id
           /\ \A t \in Scopes : t # tx[p].sub.scope => history'[t] = history[t]
           /\ \A t \in Scopes : \A n \in 1..Len(history[t]) :
                 history[t][n] \in Ids /\ history[t][n] # tx[p].sub.id
           /\ \A t \in Scopes : LastOf(t)' = IF t = tx[p].sub.scope THEN tx[p].sub.id ELSE LastOf(t)
           /\ history' \in [Scopes -> Seq(Ids)]
<1> DEFINE i == tx[p].sub.id
           s == tx[p].sub.scope
<1>1. /\ i \in Ids /\ s \in Scopes /\ decisions[i] = None
      /\ history' = [history EXCEPT ![s] = Append(@, i)]
  BY CommitEffect
<1>2. history \in [Scopes -> Seq(Ids)]
  BY DEF StoreInv, TablesInv, StoreTypeOK, StoreShape
<1>3. history'[s] = Append(history[s], i) /\ history[s] \in Seq(Ids)
  BY <1>1, <1>2
<1> HIDE DEF i, s
<1>4. /\ Len(history[s]) \in Nat /\ Len(history'[s]) = Len(history[s]) + 1
      /\ \A n \in 1..Len(history[s]) : history'[s][n] = history[s][n]
      /\ history'[s][Len(history[s]) + 1] = i
      /\ history'[s] # <<>> /\ history'[s] \in Seq(Ids)
  BY <1>1, <1>3
<1>5. \A t \in Scopes : t # s => history'[t] = history[t]
  BY <1>1, <1>2
<1>6. ASSUME NEW t \in Scopes, NEW n \in 1..Len(history[t])
      PROVE  history[t][n] \in Ids /\ history[t][n] # i
  <2>1. history[t] \in Seq(Ids)
    BY <1>2
  <2>2. history[t][n] \in Ids
    BY <2>1
  <2>3. decisions[history[t][n]] # None
    BY DEF StoreInv, TablesInv, LinksInOrder
  <2> QED BY <2>2, <2>3, <1>1
<1>7. ASSUME NEW t \in Scopes PROVE LastOf(t)' = IF t = s THEN i ELSE LastOf(t)
  BY <1>4, <1>5 DEF LastOf
<1>9. history' \in [Scopes -> Seq(Ids)]
  BY <1>1, <1>2, <1>4
<1> QED BY <1>4, <1>5, <1>6, <1>7, <1>9 DEF i, s

\* The links, the log and the latest rows after a commit.
LEMMA CommitKeepsTables ==
    ASSUME StoreInv, NEW p \in Procs, Commit(p)
    PROVE  TablesInv'
<1> DEFINE sub == tx[p].sub
           i == tx[p].sub.id
           s == tx[p].sub.scope
           k == Len(history[s])
<1>e. /\ IsSubmission(sub) /\ i \in Ids /\ s \in Scopes /\ decisions[i] = None
      /\ sub.supersedes = LastOf(s)
      /\ decisions' = [decisions EXCEPT ![i] = sub]
      /\ snapshots' = [snapshots EXCEPT ![i] = sub.runtime]
      /\ latest' = [latest EXCEPT ![s] = sub.runtime]
      /\ tx' = [tx EXCEPT ![p] = [phase |-> "committed", sub |-> sub]]
      /\ idLock' = Released(idLock, p) /\ scopeLock' = Released(scopeLock, p)
  BY CommitEffect
<1>h. /\ k \in Nat /\ Len(history'[s]) = k + 1
      /\ \A n \in 1..k : history'[s][n] = history[s][n]
      /\ history'[s][k + 1] = i
      /\ \A t \in Scopes : t # s => history'[t] = history[t]
      /\ \A t \in Scopes : \A n \in 1..Len(history[t]) :
            history[t][n] \in Ids /\ history[t][n] # i
      /\ \A t \in Scopes : LastOf(t)' = IF t = s THEN i ELSE LastOf(t)
      /\ history' \in [Scopes -> Seq(Ids)]
  BY CommitHistory
<1>y. StoreTypeOK /\ sub # None /\ sub.runtime # None /\ sub.id = i /\ sub.scope = s
  BY <1>e DEF IsSubmission, StoreInv, TablesInv
<1> HIDE DEF sub, i, s, k
<1>t. StoreTypeOK'
  <2>1. idLock' \in [Ids -> Procs \cup {None}] /\ scopeLock' \in [Scopes -> Procs \cup {None}]
    BY <1>e, <1>y DEF StoreTypeOK, StoreShape, Released
  <2>2. /\ decisions' = [j \in Ids |-> decisions'[j]]
        /\ snapshots' = [j \in Ids |-> snapshots'[j]]
        /\ latest' = [t \in Scopes |-> latest'[t]]
        /\ \A j \in Ids : decisions'[j] # None => IsSubmission(decisions'[j])
    BY <1>e, <1>y DEF StoreTypeOK, StoreShape
  <2>3. /\ tx' = [q \in Procs |-> tx'[q]]
        /\ \A q \in Procs : /\ tx'[q].phase \in Phases
                            /\ tx'[q].phase \in Busy => IsSubmission(tx'[q].sub)
    BY <1>e, <1>y DEF StoreTypeOK, StoreShape, Phases, Busy
  <2>4. StoreShape'
    BY <2>1, <2>2, <2>3, <1>h DEF StoreShape
  <2> QED BY <2>2, <2>3, <2>4 DEF StoreTypeOK
<1>d. \A j \in Ids : decisions'[j] = IF j = i THEN sub ELSE decisions[j]
  BY <1>e, <1>y DEF StoreTypeOK, StoreShape
<1>o. \A j \in Ids : snapshots'[j] = IF j = i THEN sub.runtime ELSE snapshots[j]
  BY <1>e, <1>y DEF StoreTypeOK, StoreShape
<1>n. sub # None
  BY <1>y
<1>p. sub.supersedes = IF k + 1 = 1 THEN None ELSE history[s][k]
  <2>1. history[s] \in Seq(Ids)
    BY <1>e, <1>y DEF StoreTypeOK, StoreShape
  <2>2. k = Len(history[s])
    BY DEF k
  <2> QED BY <2>1, <2>2, <1>e, <1>h DEF LastOf
<1>1. LinksInOrder'
  <2> SUFFICES ASSUME NEW t \in Scopes, NEW n \in 1..Len(history'[t])
               PROVE  /\ decisions'[history'[t][n]] # None
                      /\ decisions'[history'[t][n]].scope = t
                      /\ decisions'[history'[t][n]].supersedes
                            = IF n = 1 THEN None ELSE history'[t][n - 1]
    BY DEF LinksInOrder
  <2>l. \A u \in Scopes : \A m \in 1..Len(history[u]) :
           /\ decisions[history[u][m]] # None
           /\ decisions[history[u][m]].scope = u
           /\ decisions[history[u][m]].supersedes = IF m = 1 THEN None ELSE history[u][m - 1]
    BY DEF StoreInv, TablesInv, LinksInOrder
  <2>1. CASE t # s
    <3>1. history'[t] = history[t] /\ n \in 1..Len(history[t])
      BY <2>1, <1>h
    <3>2. decisions'[history[t][n]] = decisions[history[t][n]]
      BY <3>1, <1>h, <1>d
    <3> QED BY <3>1, <3>2, <2>l
  <2>2. CASE t = s /\ n # k + 1
    <3>1. n \in 1..k /\ n \in 1..Len(history[s])
      BY <2>2, <1>h DEF k
    <3>2. history'[s][n] = history[s][n]
      BY <3>1, <1>h
    <3>3. decisions'[history[s][n]] = decisions[history[s][n]]
      BY <3>1, <1>h, <1>d, <1>e
    <3>4. n # 1 => history'[s][n - 1] = history[s][n - 1]
      <4> SUFFICES ASSUME n # 1 PROVE n - 1 \in 1..k
        BY <1>h
      <4> QED BY <3>1, <1>h
    <3> QED BY <3>1, <3>2, <3>3, <3>4, <2>2, <2>l, <1>e
  <2>3. CASE t = s /\ n = k + 1
    <3>1. history'[s][n] = i /\ decisions'[i] = sub
      BY <2>3, <1>h, <1>d, <1>e
    <3>2. n # 1 => n - 1 = k /\ k \in 1..k
      BY <2>3, <1>h
    <3> QED BY <3>1, <3>2, <2>3, <1>p, <1>y, <1>n, <1>h
  <2> QED BY <2>1, <2>2, <2>3
<1>2. EveryDecisionLogged'
  <2>1. ASSUME NEW j \in Ids, decisions'[j] # None
        PROVE  /\ decisions'[j].id = j /\ snapshots'[j] # None
               /\ \E n \in 1..Len(history'[decisions'[j].scope]) :
                     history'[decisions'[j].scope][n] = j
    <3>1. CASE j = i
      <4>1. decisions'[j] = sub /\ snapshots'[j] = sub.runtime
        BY <3>1, <1>d, <1>o
      <4>2. k + 1 \in 1..Len(history'[s])
        BY <1>h
      <4> QED BY <4>1, <4>2, <3>1, <1>y, <1>h
    <3>2. CASE j # i
      <4>1. decisions'[j] = decisions[j] /\ snapshots'[j] = snapshots[j]
        BY <3>2, <1>d, <1>o
      <4>2. /\ decisions[j].id = j /\ snapshots[j] # None
            /\ \E n \in 1..Len(history[decisions[j].scope]) : history[decisions[j].scope][n] = j
        BY <4>1, <2>1 DEF StoreInv, TablesInv, EveryDecisionLogged
      <4>3. PICK n \in 1..Len(history[decisions[j].scope]) : history[decisions[j].scope][n] = j
        BY <4>2
      <4>4. decisions[j].scope \in Scopes
        BY <4>1, <2>1, <1>y DEF StoreTypeOK, StoreShape, IsSubmission
      <4>5. CASE decisions[j].scope # s
        BY <4>1, <4>2, <4>3, <4>4, <4>5, <1>h
      <4>6. CASE decisions[j].scope = s
        <5>1. n \in 1..k /\ n \in 1..Len(history'[s])
          BY <4>3, <4>6, <1>h DEF k
        <5>2. history'[s][n] = j
          BY <5>1, <4>3, <4>6, <1>h
        <5> QED BY <5>1, <5>2, <4>1, <4>2, <4>6
      <4> QED BY <4>5, <4>6
    <3> QED BY <3>1, <3>2
  <2>2. ASSUME NEW t \in Scopes, NEW m \in 1..Len(history'[t]), NEW n \in 1..Len(history'[t]),
               history'[t][m] = history'[t][n]
        PROVE  m = n
    <3>u. \A u \in Scopes : \A a, b \in 1..Len(history[u]) : history[u][a] = history[u][b] => a = b
      BY DEF StoreInv, TablesInv, EveryDecisionLogged
    <3>1. CASE t # s
      BY <3>1, <3>u, <2>2, <1>h
    <3>2. CASE t = s
      <4>1. m \in 1..(k + 1) /\ n \in 1..(k + 1)
        BY <3>2, <1>h
      <4>2. CASE m = k + 1 \/ n = k + 1
        <5>1. \A a \in 1..k : history'[s][a] # i
          <6> SUFFICES ASSUME NEW a \in 1..k PROVE history'[s][a] # i
            OBVIOUS
          <6>1. history[s][a] # i
            BY <1>h, <1>e DEF k
          <6> QED BY <6>1, <1>h
        <5> QED BY <4>1, <4>2, <5>1, <2>2, <3>2, <1>h
      <4>3. CASE m # k + 1 /\ n # k + 1
        <5>1. m \in 1..k /\ n \in 1..k
          BY <4>1, <4>3, <1>h
        <5>2. history[s][m] = history[s][n]
          BY <5>1, <2>2, <3>2, <1>h
        <5> QED BY <5>1, <5>2, <3>u, <1>e DEF k
      <4> QED BY <4>2, <4>3
    <3> QED BY <3>1, <3>2
  <2> QED BY <2>1, <2>2 DEF EveryDecisionLogged
<1>3. LatestIsLast'
  <2> SUFFICES ASSUME NEW t \in Scopes
               PROVE  latest'[t] = IF LastOf(t)' = None THEN None ELSE snapshots'[LastOf(t)']
    BY DEF LatestIsLast
  <2>1. CASE t = s
    <3>1. latest'[t] = sub.runtime
      BY <2>1, <1>e, <1>y DEF StoreTypeOK, StoreShape
    <3> QED BY <2>1, <3>1, <1>h, <1>o, <1>e, StoreAssumption
  <2>2. CASE t # s
    <3>1. latest'[t] = latest[t] /\ LastOf(t)' = LastOf(t)
      BY <2>2, <1>e, <1>h, <1>y DEF StoreTypeOK, StoreShape
    <3>2. latest[t] = IF LastOf(t) = None THEN None ELSE snapshots[LastOf(t)]
      BY DEF StoreInv, TablesInv, LatestIsLast
    <3>3. LastOf(t) # None => snapshots'[LastOf(t)] = snapshots[LastOf(t)]
      <4> SUFFICES ASSUME LastOf(t) # None PROVE LastOf(t) \in Ids /\ LastOf(t) # i
        BY <1>o
      <4>1. history[t] # <<>> /\ LastOf(t) = history[t][Len(history[t])]
            /\ Len(history[t]) \in 1..Len(history[t])
        BY LastOfType, <1>y
      <4> QED BY <4>1, <1>h
    <3> QED BY <3>1, <3>2, <3>3
  <2> QED BY <2>1, <2>2
<1> QED BY <1>t, <1>1, <1>2, <1>3 DEF TablesInv

\* The transactions that are not committing keep their locks and their checks:
\* neither their id nor their scope is the one committed.
LEMMA CommitKeepsChecks ==
    ASSUME StoreInv, NEW p \in Procs, Commit(p)
    PROVE  LocksHeld' /\ CheckedStays'
<1> DEFINE i == tx[p].sub.id
           s == tx[p].sub.scope
<1>e. /\ i \in Ids /\ s \in Scopes
      /\ decisions' = [decisions EXCEPT ![i] = tx[p].sub]
      /\ tx' = [tx EXCEPT ![p] = [phase |-> "committed", sub |-> tx[p].sub]]
      /\ idLock' = Released(idLock, p) /\ scopeLock' = Released(scopeLock, p)
      /\ \A t \in Scopes : LastOf(t)' = IF t = s THEN i ELSE LastOf(t)
      /\ idLock[i] = p /\ scopeLock[s] = p
  BY CommitEffect, CommitHistory DEF StoreInv, LocksHeld, Commit
<1>t. StoreTypeOK /\ LocksHeld /\ CheckedStays
  BY DEF StoreInv, TablesInv
<1> HIDE DEF i, s
<1> SUFFICES ASSUME NEW q \in Procs
             PROVE  /\ tx'[q].phase \in {"id", "locked", "checked"} => idLock'[tx'[q].sub.id] = q
                    /\ tx'[q].phase \in {"locked", "checked"} => scopeLock'[tx'[q].sub.scope] = q
                    /\ tx'[q].phase = "checked" =>
                          /\ decisions'[tx'[q].sub.id] = None
                          /\ tx'[q].sub.supersedes = LastOf(tx[q].sub.scope)'
  BY DEF LocksHeld, CheckedStays
<1>1. CASE q = p
  BY <1>1, <1>e, <1>t DEF StoreTypeOK, StoreShape
<1>2. CASE q # p
  <2>1. tx'[q] = tx[q]
    BY <1>2, <1>e, <1>t DEF StoreTypeOK, StoreShape
  <2>2. tx[q].phase \in Busy => tx[q].sub.id \in Ids /\ tx[q].sub.scope \in Scopes
    BY <1>t DEF StoreTypeOK, IsSubmission
  <2>3. q # None
    BY StoreAssumption
  <2>4. tx[q].phase \in {"id", "locked", "checked"} => idLock'[tx[q].sub.id] = q
    BY <1>2, <2>2, <2>3, <1>e, <1>t DEF StoreTypeOK, StoreShape, LocksHeld, Released, Busy
  <2>5. tx[q].phase \in {"locked", "checked"} => scopeLock'[tx[q].sub.scope] = q
    BY <1>2, <2>2, <2>3, <1>e, <1>t DEF StoreTypeOK, StoreShape, LocksHeld, Released, Busy
  <2>6. ASSUME tx[q].phase = "checked"
        PROVE  decisions'[tx[q].sub.id] = None /\ tx'[q].sub.supersedes = LastOf(tx[q].sub.scope)'
    <3>1. tx[q].sub.id # i /\ tx[q].sub.scope # s
      BY <1>2, <2>6, <1>e, <1>t DEF LocksHeld
    <3>2. tx[q].sub.id \in Ids /\ tx[q].sub.scope \in Scopes
      BY <2>6, <2>2 DEF Busy
    <3>3. decisions'[tx[q].sub.id] = None
      BY <3>1, <3>2, <2>6, <1>e, <1>t DEF StoreTypeOK, StoreShape, CheckedStays
    <3>4. \A t \in Scopes : t = tx[q].sub.scope => tx[q].sub.supersedes = LastOf(t)'
      BY <3>1, <3>2, <2>6, <1>e, <1>t DEF CheckedStays
    <3>5. tx[q].sub.scope = tx'[q].sub.scope
      BY <2>1
    <3>6. tx[q].sub.supersedes = LastOf(tx[q].sub.scope)'
      BY <3>2, <3>4, <3>5 DEF LastOf
    <3> QED BY <3>3, <3>6, <2>1
  <2> QED BY <2>1, <2>4, <2>5, <2>6
<1> QED BY <1>1, <1>2


-----------------------------------------------------------------------------
(***************************************************************************)
(* Steps that leave the tables alone                                       *)
(***************************************************************************)

\* A step of one transaction before its commit, said once for all of them.
LEMMA StepKeepsStore ==
    ASSUME StoreInv, NEW p \in Procs,
           decisions' = decisions, snapshots' = snapshots, latest' = latest, history' = history,
           tx' = [q \in Procs |-> tx'[q]], tx'[p].phase \in Phases,
           \A q \in Procs : q # p => tx'[q] = tx[q],
           tx'[p].phase \in Busy => IsSubmission(tx'[p].sub),
           idLock' \in [Ids -> Procs \cup {None}],
           scopeLock' \in [Scopes -> Procs \cup {None}],
           \A i \in Ids : idLock[i] \in Procs /\ idLock[i] # p => idLock'[i] = idLock[i],
           \A s \in Scopes : scopeLock[s] \in Procs /\ scopeLock[s] # p => scopeLock'[s] = scopeLock[s],
           tx'[p].phase \in {"id", "locked", "checked"} => idLock'[tx'[p].sub.id] = p,
           tx'[p].phase \in {"locked", "checked"} => scopeLock'[tx'[p].sub.scope] = p,
           tx'[p].phase = "checked" =>
               /\ decisions[tx'[p].sub.id] = None
               /\ \A s \in Scopes : s = tx'[p].sub.scope => tx'[p].sub.supersedes = LastOf(s)
    PROVE  StoreInv'
<1>t. StoreTypeOK /\ LocksHeld /\ CheckedStays /\ TablesInv
  BY DEF StoreInv, TablesInv
<1>l. \A s \in Scopes : LastOf(s)' = LastOf(s)
  BY DEF LastOf
<1>1. StoreTypeOK'
  <2>1. \A q \in Procs : /\ tx'[q].phase \in Phases
                         /\ tx'[q].phase \in Busy => IsSubmission(tx'[q].sub)
    BY <1>t DEF StoreTypeOK, StoreShape
  <2> QED BY <2>1, <1>t DEF StoreTypeOK, StoreShape
<1>2. LinksInOrder' /\ EveryDecisionLogged'
  BY <1>t DEF TablesInv, LinksInOrder, EveryDecisionLogged
<1>3. LatestIsLast'
  BY <1>t, <1>l DEF TablesInv, LatestIsLast
<1>4. LocksHeld' /\ CheckedStays'
  <2> SUFFICES ASSUME NEW q \in Procs
               PROVE  /\ tx'[q].phase \in {"id", "locked", "checked"} => idLock'[tx'[q].sub.id] = q
                      /\ tx'[q].phase \in {"locked", "checked"} => scopeLock'[tx'[q].sub.scope] = q
                      /\ tx'[q].phase = "checked" =>
                            /\ decisions'[tx'[q].sub.id] = None
                            /\ tx'[q].sub.supersedes = LastOf(tx[q].sub.scope)'
    BY DEF LocksHeld, CheckedStays
  <2>0. tx'[q].phase \in Busy => tx'[q].sub.id \in Ids /\ tx'[q].sub.scope \in Scopes
    BY <1>1 DEF StoreTypeOK, IsSubmission
  <2>s. tx'[q].phase = "checked" =>
            (\A s \in Scopes : s = tx'[q].sub.scope => tx'[q].sub.supersedes = LastOf(s))
    BY <1>t DEF CheckedStays
  <2>c. tx'[q].phase = "checked" => tx'[q].sub.supersedes = LastOf(tx[q].sub.scope)'
    BY <2>0, <2>s DEF Busy, LastOf
  <2>1. CASE q = p
    BY <2>1, <2>c
  <2>2. CASE q # p
    <3>1. tx'[q] = tx[q]
      BY <2>2
    <3>2. tx[q].phase \in {"id", "locked", "checked"} => idLock'[tx[q].sub.id] = q
      BY <3>1, <2>0, <2>2, <1>t DEF LocksHeld, Busy
    <3>3. tx[q].phase \in {"locked", "checked"} => scopeLock'[tx[q].sub.scope] = q
      BY <3>1, <2>0, <2>2, <1>t DEF LocksHeld, Busy
    <3>4. tx[q].phase = "checked" => decisions'[tx[q].sub.id] = None
      BY <1>t DEF CheckedStays
    <3> QED BY <3>1, <3>2, <3>3, <3>4, <2>c
  <2> QED BY <2>1, <2>2
<1> QED BY <1>1, <1>2, <1>3, <1>4 DEF StoreInv, TablesInv

\* A transaction that ends without a commit (End) gives its locks back.
LEMMA EndKeepsStore ==
    ASSUME StoreInv, NEW p \in Procs, UNCHANGED tables,
           End(p, "committed") \/ End(p, "failed")
    PROVE  StoreInv'
<1>t. StoreTypeOK
  BY DEF StoreInv, TablesInv
<1>1. /\ decisions' = decisions /\ snapshots' = snapshots
      /\ latest' = latest /\ history' = history
  BY DEF tables
<1>2. /\ tx' = [q \in Procs |-> tx'[q]]
      /\ tx'[p].phase \in Phases
      /\ \A q \in Procs : q # p => tx'[q] = tx[q]
      /\ tx'[p].phase \in {"committed", "failed"}
  <2>1. PICK o \in {"committed", "failed"} :
           tx' = [tx EXCEPT ![p] = [phase |-> o, sub |-> tx[p].sub]]
    BY DEF End
  <2>2. o \in Phases
    BY DEF Phases
  <2> QED BY <2>1, <2>2, <1>t DEF StoreTypeOK, StoreShape
<1>3. /\ idLock' \in [Ids -> Procs \cup {None}]
      /\ \A i \in Ids : idLock[i] \in Procs /\ idLock[i] # p => idLock'[i] = idLock[i]
  BY <1>t DEF StoreTypeOK, StoreShape, End, Released
<1>4. /\ scopeLock' \in [Scopes -> Procs \cup {None}]
      /\ \A s \in Scopes : scopeLock[s] \in Procs /\ scopeLock[s] # p => scopeLock'[s] = scopeLock[s]
  BY <1>t DEF StoreTypeOK, StoreShape, End, Released
<1>5. tx'[p].phase \notin Busy /\ tx'[p].phase \notin {"id", "locked", "checked"}
  BY <1>2 DEF Busy
<1> QED BY <1>1, <1>2, <1>3, <1>4, <1>5, StepKeepsStore


\* Every step of a transaction, its submission included, keeps the store.
LEMMA TransactionKeepsStore ==
    ASSUME StoreInv, NEW p \in Procs,
           Transaction(p) \/ \E sub : IsSubmission(sub) /\ Submit(p, sub)
    PROVE  StoreInv'
<1>t. StoreTypeOK /\ LocksHeld /\ CheckedStays /\ TablesInv /\ p # None
  BY StoreAssumption DEF StoreInv, TablesInv
<1>b. tx[p].phase \in Busy =>
          IsSubmission(tx[p].sub) /\ tx[p].sub.id \in Ids /\ tx[p].sub.scope \in Scopes
  BY <1>t DEF StoreTypeOK, IsSubmission
<1>1. ASSUME NEW sub, IsSubmission(sub), Submit(p, sub) PROVE StoreInv'
  <2>1. /\ decisions' = decisions /\ snapshots' = snapshots /\ latest' = latest
        /\ history' = history /\ idLock' = idLock /\ scopeLock' = scopeLock
    BY <1>1 DEF Submit, tables
  <2>2. /\ tx' = [q \in Procs |-> tx'[q]]
        /\ tx'[p].phase \in Phases
        /\ \A q \in Procs : q # p => tx'[q] = tx[q]
        /\ tx'[p].phase = "begin" /\ IsSubmission(tx'[p].sub)
    BY <1>1, <1>t DEF Submit, StoreTypeOK, StoreShape, Phases
  <2>3. idLock \in [Ids -> Procs \cup {None}] /\ scopeLock \in [Scopes -> Procs \cup {None}]
    BY <1>t DEF StoreTypeOK, StoreShape
  <2> QED BY <2>1, <2>2, <2>3, StepKeepsStore
<1>2. CASE AcquireIdLock(p)
  <2>1. /\ decisions' = decisions /\ snapshots' = snapshots /\ latest' = latest
        /\ history' = history /\ scopeLock' = scopeLock
        /\ tx[p].phase = "begin" /\ idLock[tx[p].sub.id] = None
        /\ idLock' = [idLock EXCEPT ![tx[p].sub.id] = p]
        /\ tx' = [tx EXCEPT ![p] = [phase |-> "id", sub |-> tx[p].sub]]
    BY <1>2 DEF AcquireIdLock, tables
  <2>2. IsSubmission(tx[p].sub) /\ tx[p].sub.id \in Ids
    BY <2>1, <1>b DEF Busy
  <2>3. /\ tx' = [q \in Procs |-> tx'[q]]
        /\ tx'[p].phase \in Phases
        /\ \A q \in Procs : q # p => tx'[q] = tx[q]
        /\ tx'[p].phase = "id" /\ tx'[p].sub = tx[p].sub
    BY <2>1, <2>2, <1>t DEF StoreTypeOK, StoreShape, Phases
  <2>4. /\ idLock' \in [Ids -> Procs \cup {None}] /\ scopeLock' \in [Scopes -> Procs \cup {None}]
        /\ \A i \in Ids : idLock[i] \in Procs /\ idLock[i] # p => idLock'[i] = idLock[i]
        /\ idLock'[tx[p].sub.id] = p
    BY <2>1, <2>2, <1>t, StoreAssumption DEF StoreTypeOK, StoreShape
  <2> QED BY <2>1, <2>2, <2>3, <2>4, StepKeepsStore
<1>3. CASE AcquireScopeLock(p)
  <2>1. /\ decisions' = decisions /\ snapshots' = snapshots /\ latest' = latest
        /\ history' = history /\ idLock' = idLock
        /\ tx[p].phase = "id" /\ scopeLock[tx[p].sub.scope] = None
        /\ scopeLock' = [scopeLock EXCEPT ![tx[p].sub.scope] = p]
        /\ tx' = [tx EXCEPT ![p] = [phase |-> "locked", sub |-> tx[p].sub]]
    BY <1>3 DEF AcquireScopeLock, tables
  <2>2. IsSubmission(tx[p].sub) /\ tx[p].sub.scope \in Scopes /\ idLock[tx[p].sub.id] = p
    BY <2>1, <1>b, <1>t DEF Busy, LocksHeld
  <2>3. /\ tx' = [q \in Procs |-> tx'[q]]
        /\ tx'[p].phase \in Phases
        /\ \A q \in Procs : q # p => tx'[q] = tx[q]
        /\ tx'[p].phase = "locked" /\ tx'[p].sub = tx[p].sub
    BY <2>1, <2>2, <1>t DEF StoreTypeOK, StoreShape, Phases
  <2>4. /\ idLock' \in [Ids -> Procs \cup {None}] /\ scopeLock' \in [Scopes -> Procs \cup {None}]
        /\ \A s \in Scopes : scopeLock[s] \in Procs /\ scopeLock[s] # p => scopeLock'[s] = scopeLock[s]
        /\ scopeLock'[tx[p].sub.scope] = p
    BY <2>1, <2>2, <1>t, StoreAssumption DEF StoreTypeOK, StoreShape
  <2> QED BY <2>1, <2>2, <2>3, <2>4, StepKeepsStore
<1>4. CASE CheckExisting(p)
  BY <1>4, EndKeepsStore DEF CheckExisting
<1>5. CASE CheckHead(p)
  <2>1. CASE HeadAccepted(tx[p].sub)
    <3>1. /\ decisions' = decisions /\ snapshots' = snapshots /\ latest' = latest
          /\ history' = history /\ idLock' = idLock /\ scopeLock' = scopeLock
          /\ tx[p].phase = "locked" /\ decisions[tx[p].sub.id] = None
          /\ tx' = [tx EXCEPT ![p] = [phase |-> "checked", sub |-> tx[p].sub]]
      BY <1>5, <2>1 DEF CheckHead, tables
    <3>2. /\ IsSubmission(tx[p].sub) /\ tx[p].sub.scope \in Scopes
          /\ idLock[tx[p].sub.id] = p /\ scopeLock[tx[p].sub.scope] = p
      BY <3>1, <1>b, <1>t DEF Busy, LocksHeld
    <3>3. /\ tx' = [q \in Procs |-> tx'[q]]
        /\ tx'[p].phase \in Phases
          /\ \A q \in Procs : q # p => tx'[q] = tx[q]
          /\ tx'[p].phase = "checked" /\ tx'[p].sub = tx[p].sub
      BY <3>1, <3>2, <1>t DEF StoreTypeOK, StoreShape, Phases
    <3>4. tx[p].sub.supersedes = LastOf(tx[p].sub.scope)
      BY <2>1, <3>2, <1>t, HeadIsLast DEF HeadAccepted
    <3>5. idLock \in [Ids -> Procs \cup {None}] /\ scopeLock \in [Scopes -> Procs \cup {None}]
      BY <1>t DEF StoreTypeOK, StoreShape
    <3> QED BY <3>1, <3>2, <3>3, <3>4, <3>5, StepKeepsStore
  <2>2. CASE ~HeadAccepted(tx[p].sub)
    BY <1>5, <2>2, EndKeepsStore DEF CheckHead
  <2> QED BY <2>1, <2>2
<1>6. CASE Commit(p)
  BY <1>6, CommitKeepsTables, CommitKeepsChecks DEF StoreInv
<1>7. CASE Lose(p)
  BY <1>7, EndKeepsStore DEF Lose
<1> QED BY <1>1, <1>2, <1>3, <1>4, <1>5, <1>6, <1>7 DEF Transaction

\* A reader's statement changes nothing but the reader.
LEMMA ReadingKeepsStore ==
    ASSUME StoreInv, UNCHANGED <<tables, idLock, scopeLock, tx>>
    PROVE  StoreInv'
BY DEF StoreInv, TablesInv, StoreTypeOK, StoreShape, LinksInOrder, EveryDecisionLogged, LatestIsLast,
       LocksHeld, CheckedStays, LastOf, tables

\* Reading leaves the tables and the transactions alone.
LEMMA ReadingFrame ==
    ASSUME NEW r \in Readers, Reading(r)
    PROVE  UNCHANGED <<tables, idLock, scopeLock, tx>>
BY DEF Reading, OpenRead, ReadBefore, ReadRow, ReadAfter

LEMMA EmptyStoreSound == StoreEmpty => StoreInv
<1> SUFFICES ASSUME StoreEmpty PROVE StoreInv
  OBVIOUS
<1>e. /\ decisions = [i \in Ids |-> None] /\ snapshots = [i \in Ids |-> None]
      /\ latest = [s \in Scopes |-> None] /\ history = [s \in Scopes |-> <<>>]
      /\ idLock = [i \in Ids |-> None] /\ scopeLock = [s \in Scopes |-> None]
      /\ tx = [p \in Procs |-> [phase |-> "idle", sub |-> None]]
  BY DEF StoreEmpty, Idle
<1>1. StoreTypeOK
  BY <1>e DEF StoreTypeOK, StoreShape, Phases, Busy
<1>2. LinksInOrder /\ EveryDecisionLogged /\ LatestIsLast
  BY <1>e DEF LinksInOrder, EveryDecisionLogged, LatestIsLast, LastOf
<1>3. LocksHeld /\ CheckedStays
  BY <1>e DEF LocksHeld, CheckedStays
<1> QED BY <1>1, <1>2, <1>3 DEF StoreInv, TablesInv

\* What may happen to the store, whoever its callers are.
StoreMove ==
    \/ \E p \in Procs : Transaction(p) \/ \E sub : IsSubmission(sub) /\ Submit(p, sub)
    \/ \E r \in Readers : Reading(r)
    \/ UNCHANGED storeVars

LEMMA StepIsMove == [StoreNext]_storeVars => StoreMove
<1>1. \A sub \in Submissions : IsSubmission(sub)
  BY SubmissionAssumption DEF IsSubmission
<1> QED BY <1>1 DEF StoreNext, StoreMove

LEMMA MoveKeepsStore == StoreInv /\ StoreMove => StoreInv'
<1> SUFFICES ASSUME StoreInv, StoreMove PROVE StoreInv'
  OBVIOUS
<1>1. ASSUME NEW p \in Procs, Transaction(p) \/ \E sub : IsSubmission(sub) /\ Submit(p, sub)
      PROVE  StoreInv'
  BY <1>1, TransactionKeepsStore
<1>2. ASSUME NEW r \in Readers, Reading(r) PROVE StoreInv'
  BY <1>2, ReadingFrame, ReadingKeepsStore
<1>3. CASE UNCHANGED storeVars
  BY <1>3, ReadingKeepsStore DEF storeVars, tables
<1> QED BY <1>1, <1>2, <1>3 DEF StoreMove

LEMMA StoreInitially == StoreInit => StoreInv
BY EmptyStoreSound DEF StoreInit

LEMMA StoreStep == StoreInv /\ [StoreNext]_storeVars => StoreInv'
BY StepIsMove, MoveKeepsStore

\* The tables, the locks and the checks agree after every interleaving of
\* _persist transactions, dashboard reads and lost connections.
THEOREM StoreIsSound == StoreSpec => []StoreInv
BY StoreInitially, StoreStep, PTL DEF StoreSpec


-----------------------------------------------------------------------------
(***************************************************************************)
(* The tables implement DecisionHistory                                    *)
(***************************************************************************)

LoggedEntry(i, stored, runtime) ==
    [id |-> i, supersedes |-> stored.supersedes, decision |-> stored.decision, runtime |-> runtime]

LEMMA EntryId == \A i, stored, runtime : LoggedEntry(i, stored, runtime).id = i
BY DEF LoggedEntry

\* A function on 1..k is a sequence of length k.
LEMMA IsSequence ==
    ASSUME NEW k \in Nat, NEW T, NEW q, q = [n \in 1..k |-> q[n]], \A n \in 1..k : q[n] \in T
    PROVE  q \in Seq(T) /\ Len(q) = k
<1>1. q \in [1..k -> T]
  OBVIOUS
<1>2. q \in Seq(T)
  BY <1>1, SeqDef
<1>3. DOMAIN q = 1..Len(q) /\ Len(q) \in Nat
  BY <1>2, LenProperties
<1>4. DOMAIN q = 1..k
  BY <1>1
<1> QED BY <1>2, <1>3, <1>4

\* The log of a scope has one entry for every commit.
LogsAreSequences ==
    \A s \in Scopes :
        /\ Logged[s] = [n \in 1..Len(history[s]) |-> Logged[s][n]]
        /\ Len(history[s]) \in Nat

LoggedOK ==
    \A s \in Scopes :
        /\ Len(Logged[s]) = Len(history[s])
        /\ \A n \in 1..Len(history[s]) :
              Logged[s][n] = LoggedEntry(history[s][n], decisions[history[s][n]],
                                         snapshots[history[s][n]])

LEMMA LoggedIsLog == TablesInv => LogsAreSequences /\ LoggedOK
<1> SUFFICES ASSUME TablesInv, NEW s \in Scopes
             PROVE  /\ Logged[s] = [n \in 1..Len(history[s]) |-> Logged[s][n]]
                    /\ Len(history[s]) \in Nat /\ Len(Logged[s]) = Len(history[s])
                    /\ \A n \in 1..Len(history[s]) :
                          Logged[s][n] = LoggedEntry(history[s][n], decisions[history[s][n]],
                                                     snapshots[history[s][n]])
  BY DEF LogsAreSequences, LoggedOK
<1> DEFINE k == Len(history[s])
<1>1. k \in Nat
  BY LastOfType DEF TablesInv
<1>2. Logged[s] = [n \in 1..k |-> LoggedEntry(history[s][n], decisions[history[s][n]],
                                              snapshots[history[s][n]])]
  BY DEF Logged, LoggedEntry
<1> HIDE DEF k
<1>3. Logged[s] = [n \in 1..k |-> Logged[s][n]]
  BY <1>2
<1>4. Len(Logged[s]) = k
  <2>1. \A n \in 1..k : Logged[s][n] \in {Logged[s][m] : m \in 1..k}
    OBVIOUS
  <2> QED BY <2>1, <1>1, <1>3, IsSequence
<1>5. \A n \in 1..k : Logged[s][n] = LoggedEntry(history[s][n], decisions[history[s][n]],
                                                 snapshots[history[s][n]])
  BY <1>2
<1> QED BY <1>1, <1>3, <1>4, <1>5 DEF k

LEMMA LoggedStaysLog == TablesInv' => LogsAreSequences' /\ LoggedOK'
BY LoggedIsLog, PTL

\* A commit appends one entry, with an id that is in no log, to one log.
LEMMA CommitRecords ==
    ASSUME StoreInv, NEW p \in Procs, Commit(p)
    PROVE  History!Next
<1> DEFINE i == tx[p].sub.id
           s == tx[p].sub.scope
           k == Len(history[s])
           e == LoggedEntry(i, tx[p].sub, tx[p].sub.runtime)
<1>e. /\ i \in Ids /\ s \in Scopes /\ tx[p].sub.supersedes = LastOf(s)
      /\ decisions' = [decisions EXCEPT ![i] = tx[p].sub]
      /\ snapshots' = [snapshots EXCEPT ![i] = tx[p].sub.runtime]
      /\ latest' = [latest EXCEPT ![s] = tx[p].sub.runtime]
  BY CommitEffect
<1>h. /\ k \in Nat /\ Len(history'[s]) = k + 1
      /\ \A n \in 1..k : history'[s][n] = history[s][n]
      /\ history'[s][k + 1] = i
      /\ \A t \in Scopes : t # s => history'[t] = history[t]
      /\ \A t \in Scopes : \A n \in 1..Len(history[t]) :
            history[t][n] \in Ids /\ history[t][n] # i
  BY CommitHistory
<1>t. TablesInv /\ TablesInv'
  BY CommitKeepsTables DEF StoreInv
<1>o. LoggedOK /\ LoggedOK'
  BY <1>t, LoggedIsLog, LoggedStaysLog
<1>q. LogsAreSequences /\ LogsAreSequences'
  BY <1>t, LoggedIsLog, LoggedStaysLog
<1>y. \A j \in Ids : j # i => decisions'[j] = decisions[j] /\ snapshots'[j] = snapshots[j]
  BY <1>e, <1>t DEF TablesInv, StoreTypeOK, StoreShape
<1>z. decisions'[i] = tx[p].sub /\ snapshots'[i] = tx[p].sub.runtime
  BY <1>e, <1>t DEF TablesInv, StoreTypeOK, StoreShape
<1>k. k = Len(history[s])
  OBVIOUS
<1>v. e.id = i /\ e.runtime = tx[p].sub.runtime /\ e.supersedes = tx[p].sub.supersedes
  BY DEF LoggedEntry
<1>w. e = LoggedEntry(i, decisions'[i], snapshots'[i])
  BY <1>z
<1> HIDE DEF i, s, k, e
<1>1. Len(Logged[s]) = k /\ Len(Logged'[s]) = k + 1
  BY <1>o, <1>e, <1>h, <1>k DEF LoggedOK
<1>r. /\ Logged[s] = [n \in 1..k |-> Logged[s][n]]
      /\ Logged'[s] = [n \in 1..(k + 1) |-> Logged'[s][n]]
  BY <1>q, <1>e, <1>h, <1>k DEF LogsAreSequences
<1>2. Logged'[s][k + 1] = e
  <2>1. k + 1 \in 1..Len(history'[s])
    BY <1>h
  <2> QED BY <2>1, <1>o, <1>e, <1>h, <1>w DEF LoggedOK
<1>3. ASSUME NEW n \in 1..k PROVE Logged'[s][n] = Logged[s][n]
  <2>1. n \in 1..Len(history[s]) /\ n \in 1..Len(history'[s])
    BY <1>h, <1>k
  <2>2. history'[s][n] = history[s][n] /\ history[s][n] \in Ids /\ history[s][n] # i
    BY <2>1, <1>h, <1>e
  <2> QED BY <2>1, <2>2, <1>o, <1>e, <1>y DEF LoggedOK
<1>4. Logged'[s] = Append(Logged[s], e)
  <2> DEFINE T == {Logged[s][n] : n \in 1..k} \cup {e}
  <2>1. Logged[s] \in Seq(T) /\ e \in T
    <3>1. \A n \in 1..k : Logged[s][n] \in T
      OBVIOUS
    <3> HIDE DEF T
    <3>2. Logged[s] \in Seq(T)
      BY <3>1, <1>r, <1>h, IsSequence
    <3> QED BY <3>2 DEF T
  <2>2. Logged'[s] \in Seq(T)
    <3>1. \A n \in 1..(k + 1) : Logged'[s][n] \in T
      <4> SUFFICES ASSUME NEW n \in 1..(k + 1) PROVE Logged'[s][n] \in T
        OBVIOUS
      <4>1. n \in 1..k \/ n = k + 1
        BY <1>h
      <4> QED BY <4>1, <1>2, <1>3
    <3>2. k + 1 \in Nat
      BY <1>h
    <3> HIDE DEF T
    <3> QED BY <3>1, <3>2, <1>r, IsSequence
  <2> HIDE DEF T
  <2>3. Append(Logged[s], e) \in Seq(T) /\ Len(Append(Logged[s], e)) = k + 1
    BY <1>1, <2>1
  <2>4. ASSUME NEW n \in 1..(k + 1) PROVE Logged'[s][n] = Append(Logged[s], e)[n]
    <3>1. CASE n = k + 1
      BY <3>1, <1>1, <1>2, <2>1
    <3>2. CASE n # k + 1
      <4>1. n \in 1..k
        BY <3>2, <1>h
      <4> QED BY <4>1, <1>1, <1>3, <2>1
    <3> QED BY <3>1, <3>2
  <2> QED BY <1>1, <2>2, <2>3, <2>4, SeqEqual
<1>5. ASSUME NEW t \in Scopes, t # s PROVE Logged'[t] = Logged[t]
  <2>1. history'[t] = history[t]
    BY <1>5, <1>h
  <2>2. \A n \in 1..Len(history[t]) :
           /\ decisions'[history[t][n]] = decisions[history[t][n]]
           /\ snapshots'[history[t][n]] = snapshots[history[t][n]]
    BY <1>h, <1>y
  <2>3. \A n \in 1..Len(history[t]) : Logged'[t][n] = Logged[t][n]
    BY <2>1, <2>2, <1>o DEF LoggedOK
  <2>4. /\ Logged'[t] = [n \in 1..Len(history[t]) |-> Logged'[t][n]]
        /\ Logged[t] = [n \in 1..Len(history[t]) |-> Logged[t][n]]
    BY <2>1, <1>q DEF LogsAreSequences
  <2> QED BY <2>3, <2>4
<1>6. Logged' = [Logged EXCEPT ![s] = Append(@, e)]
  <2>1. Logged = [t \in Scopes |-> Logged[t]] /\ Logged' = [t \in Scopes |-> Logged'[t]]
    BY DEF Logged
  <2> QED BY <2>1, <1>4, <1>5
<1>7. ~History!Used(e.id)
  <2> SUFFICES ASSUME NEW t \in Scopes, NEW n \in 1..Len(Logged[t]), Logged[t][n].id = i PROVE FALSE
    BY <1>v DEF History!Used
  <2>1. n \in 1..Len(history[t])
    BY <1>o DEF LoggedOK
  <2>2. Logged[t][n].id = history[t][n]
    BY <2>1, <1>o, EntryId DEF LoggedOK
  <2> QED BY <2>1, <2>2, <1>h
<1>8. e.supersedes = IF Logged[s] = <<>> THEN None ELSE Logged[s][Len(Logged[s])].id
  <2>1. CASE k = 0
    <3>1. Logged[s] = <<>> /\ history[s] = <<>>
      BY <2>1, <1>1, <1>k, <1>t, <1>e, LastOfType DEF TablesInv
    <3> QED BY <3>1, <1>v, <1>e DEF LastOf
  <2>2. CASE k # 0
    <3>1. Logged[s] # <<>> /\ history[s] # <<>> /\ k \in 1..k
      BY <2>2, <1>1, <1>k, <1>h
    <3>2. Logged[s][k].id = history[s][k]
      BY <3>1, <1>o, <1>e, <1>k, EntryId DEF LoggedOK
    <3> QED BY <3>1, <3>2, <1>v, <1>e, <1>1, <1>k DEF LastOf
  <2> QED BY <2>1, <2>2
<1>9. History!Record(s, e)
  BY <1>6, <1>7, <1>8, <1>e, <1>v DEF History!Record
<1>10. Len(Logged'[s]) = Len(Logged[s]) + 1 /\ Logged'[s][Len(Logged'[s])] = e
  BY <1>1, <1>2
<1> QED BY <1>9, <1>10, <1>e DEF History!Next

\* Every other step leaves the log and the latest rows as they were.
LEMMA OthersLogNothing ==
    ASSUME UNCHANGED tables
    PROVE  UNCHANGED <<Logged, latest>>
BY DEF tables, Logged

LEMMA MoveIsLogged == StoreInv /\ StoreMove => [History!Next]_<<Logged, latest>>
<1> SUFFICES ASSUME StoreInv, StoreMove PROVE [History!Next]_<<Logged, latest>>
  OBVIOUS
<1>1. ASSUME NEW p \in Procs, Commit(p) PROVE [History!Next]_<<Logged, latest>>
  BY <1>1, CommitRecords
<1>2. ASSUME UNCHANGED tables PROVE [History!Next]_<<Logged, latest>>
  BY <1>2, OthersLogNothing
<1>3. ASSUME NEW p \in Procs, Transaction(p), ~Commit(p) PROVE UNCHANGED tables
  BY <1>3 DEF Transaction, AcquireIdLock, AcquireScopeLock, CheckExisting, CheckHead, Lose
<1>4. ASSUME NEW p \in Procs, NEW sub, Submit(p, sub) PROVE UNCHANGED tables
  BY <1>4 DEF Submit
<1>5. ASSUME NEW r \in Readers, Reading(r) PROVE UNCHANGED tables
  BY <1>5, ReadingFrame
<1>6. CASE UNCHANGED storeVars
  BY <1>6, <1>2 DEF storeVars, tables
<1> QED BY <1>1, <1>2, <1>3, <1>4, <1>5, <1>6 DEF StoreMove

LEMMA HistoryStep ==
    StoreInv /\ [StoreNext]_storeVars => [History!Next]_<<Logged, latest>>
BY StepIsMove, MoveIsLogged

LEMMA HistoryInitially == StoreEmpty => History!Init
<1> SUFFICES ASSUME StoreEmpty PROVE History!Init
  OBVIOUS
<1>1. latest = [s \in Scopes |-> None] /\ history = [s \in Scopes |-> <<>>]
  BY DEF StoreEmpty
<1>2. LogsAreSequences
  BY EmptyStoreSound, LoggedIsLog DEF StoreInv
<1>3. ASSUME NEW s \in Scopes PROVE Logged[s] = <<>>
  <2>1. Len(history[s]) = 0 /\ Logged[s] = [n \in 1..Len(history[s]) |-> Logged[s][n]]
    BY <1>1, <1>2 DEF LogsAreSequences
  <2>2. Logged[s] = [n \in 1..0 |-> Logged[s][n]]
    BY <2>1
  <2>3. 1..0 = {}
    OBVIOUS
  <2> QED BY <2>2, <2>3
<1>4. Logged = [s \in Scopes |-> Logged[s]]
  BY DEF Logged
<1> QED BY <1>1, <1>3, <1>4 DEF History!Init

\* The decision store implements DecisionHistory: whatever callers hand to
\* _persist, and however their transactions interleave, fail or are repeated,
\* each scope has one append-only log without forks and the latest rows are
\* those of its last entry.
THEOREM StoreKeepsHistory == StoreSpec => HistoryKept
<1>1. StoreInit => History!Init
  BY HistoryInitially DEF StoreInit
<1> QED BY <1>1, StoreIsSound, HistoryStep, PTL DEF StoreSpec, HistoryKept, History!Spec


-----------------------------------------------------------------------------
(***************************************************************************)
(* The dashboard's views                                                   *)
(***************************************************************************)

\* The rows read so far are those saved with the head the read began with.
Saved(d, m, rows) ==
    \A n \in 1..3 : n < m =>
        d.seen[FieldsOf(d.kind)[n]] = IF d.before = None THEN None
                                      ELSE rows[d.before][FieldsOf(d.kind)[n]]

\* A read in progress: unless its head has moved, which no later commit undoes.
ReadOK(d) ==
    /\ d.kind \in {"decision", "engine"}
    /\ d.seen = [f \in Fields |-> d.seen[f]]
    /\ d.phase \in {"before", "rows"} => d.scope \in Scopes
    /\ d.phase \in {"rows", "view"} =>
          d.before = None \/ (d.before \in Ids /\ decisions[d.before] # None)
    /\ d.phase = "rows" =>
          /\ d.at \in 1..4
          /\ \A s \in Scopes : s = d.scope /\ LastOf(s) = d.before => Saved(d, d.at, snapshots)
    /\ d.phase = "view" => Saved(d, 4, snapshots)

ReadsAreOfOneHead ==
    /\ reader = [r \in Readers |-> reader[r]]
    /\ \A r \in Readers : ReadOK(reader[r])

\* The rows of a view are three different ones.
LEMMA FieldsDiffer ==
    ASSUME NEW kind \in {"decision", "engine"}
    PROVE  /\ \A n \in 1..3 : FieldsOf(kind)[n] \in Fields
           /\ \A m, n \in 1..3 : m # n => FieldsOf(kind)[m] # FieldsOf(kind)[n]
BY DEF FieldsOf, Fields

\* A reader that does not move, while the tables stay or another process commits.
LEMMA ReadOutlivesCommit ==
    ASSUME StoreInv, NEW p \in Procs, Commit(p), NEW r \in Readers, ReadOK(reader[r])
    PROVE  ReadOK(reader[r])'
<1> DEFINE i == tx[p].sub.id
           c == tx[p].sub.scope
           d == reader[r]
<1>e. /\ i \in Ids /\ c \in Scopes /\ decisions[i] = None /\ reader' = reader
      /\ decisions' = [decisions EXCEPT ![i] = tx[p].sub]
      /\ snapshots' = [snapshots EXCEPT ![i] = tx[p].sub.runtime]
      /\ \A t \in Scopes : LastOf(t)' = IF t = c THEN i ELSE LastOf(t)
  BY CommitEffect, CommitHistory
<1>t. StoreTypeOK
  BY DEF StoreInv, TablesInv
<1> HIDE DEF i, c
<1>1. \A j \in Ids : decisions[j] # None =>
          decisions'[j] = decisions[j] /\ snapshots'[j] = snapshots[j]
  BY <1>e, <1>t DEF StoreTypeOK, StoreShape
<1>2. d' = d
  BY <1>e
<1>3. d.phase \in {"rows", "view"} =>
          d.before = None \/ (d.before \in Ids /\ decisions[d.before] # None)
  BY DEF ReadOK
<1>4. d.phase \in {"rows", "view"} => \A m : Saved(d, m, snapshots) => Saved(d, m, snapshots')
  BY <1>1, <1>3 DEF Saved
<1>5. ASSUME d.phase = "rows", NEW s \in Scopes, s = d.scope, LastOf(s)' = d.before
      PROVE  Saved(d, d.at, snapshots')
  <2>1. d.before # i
    BY <1>3, <1>5, <1>e, StoreAssumption
  <2>2. LastOf(s) = d.before
    BY <2>1, <1>5, <1>e
  <2>3. Saved(d, d.at, snapshots)
    BY <2>2, <1>5 DEF ReadOK
  <2> QED BY <2>3, <1>4, <1>5
<1>6. d.phase = "view" => Saved(d, 4, snapshots')
  BY <1>4 DEF ReadOK
<1>7. d.phase \in {"rows", "view"} =>
          d.before = None \/ (d.before \in Ids /\ decisions'[d.before] # None)
  BY <1>1, <1>3
<1>8. /\ d.kind \in {"decision", "engine"} /\ d.seen = [f \in Fields |-> d.seen[f]]
      /\ d.phase \in {"before", "rows"} => d.scope \in Scopes
      /\ d.phase = "rows" => d.at \in 1..4
  BY DEF ReadOK
<1> HIDE DEF d
<1>9. /\ d'.phase = "rows" =>
          \A s \in Scopes : s = d'.scope /\ LastOf(s)' = d'.before => Saved(d', d'.at, snapshots')
      /\ d'.phase = "view" => Saved(d', 4, snapshots')
  BY <1>2, <1>5, <1>6
<1>10. ReadOK(d)'
  BY <1>2, <1>7, <1>8, <1>9 DEF ReadOK, Saved
<1> QED BY <1>10 DEF d

\* While the tables stay, a reader that does not move keeps what it has read.
LEMMA ReadStays ==
    ASSUME UNCHANGED tables, NEW r \in Readers, reader'[r] = reader[r], ReadOK(reader[r])
    PROVE  ReadOK(reader[r])'
BY DEF tables, ReadOK, Saved, LastOf

\* Each statement of a read.
LEMMA ReadMoves ==
    ASSUME StoreInv, NEW r \in Readers, ReadsAreOfOneHead, Reading(r)
    PROVE  ReadOK(reader[r])'
<1> DEFINE d == reader[r]
<1>f. /\ decisions' = decisions /\ snapshots' = snapshots /\ latest' = latest
      /\ history' = history
  BY ReadingFrame DEF tables
<1>l. \A s \in Scopes : LastOf(s)' = LastOf(s)
  BY <1>f DEF LastOf
<1>d. /\ ReadOK(d) /\ reader = [q \in Readers |-> reader[q]]
  BY DEF ReadsAreOfOneHead
<1>t. TablesInv /\ StoreTypeOK
  BY DEF StoreInv, TablesInv
<1>1. ASSUME NEW kind \in {"decision", "engine"}, NEW s \in Scopes, OpenRead(r, kind, s)
      PROVE  ReadOK(d)'
  <2>1. d' = [phase |-> "before", kind |-> kind, scope |-> s, attempt |-> 1,
              before |-> None, at |-> 1, seen |-> [f \in Fields |-> None]]
    BY <1>1, <1>d DEF OpenRead
  <2> QED BY <2>1 DEF ReadOK
<1>2. CASE ReadBefore(r)
  <2>1. /\ d'.phase \in {"empty", "rows"} /\ d'.kind = d.kind /\ d'.scope = d.scope
        /\ d'.before = CurrentHead(d.scope) /\ d'.at = 1
        /\ d'.seen = [f \in Fields |-> None] /\ d.phase = "before"
    BY <1>2, <1>d DEF ReadBefore
  <2>2. d.scope \in Scopes /\ d.kind \in {"decision", "engine"}
    BY <2>1, <1>d DEF ReadOK
  <2>3. d'.before = LastOf(d.scope)
    BY <2>1, <2>2, <1>t, HeadIsLast
  <2>4. d'.before = None \/ (d'.before \in Ids /\ decisions[d'.before] # None)
    <3>1. \/ LastOf(d.scope) = None
          \/ /\ LastOf(d.scope) \in Ids /\ Len(history[d.scope]) \in 1..Len(history[d.scope])
             /\ LastOf(d.scope) = history[d.scope][Len(history[d.scope])]
      BY <2>2, <1>t, LastOfType
    <3> QED BY <3>1, <2>2, <2>3, <1>t DEF TablesInv, LinksInOrder
  <2> QED BY <2>1, <2>2, <2>4, <1>f DEF ReadOK, Saved
<1>3. CASE ReadRow(r)
  <2> DEFINE g == FieldsOf(d.kind)[d.at]
  <2>1. /\ d.phase = "rows" /\ d.at <= 3
        /\ d' = [phase |-> "rows", kind |-> d.kind, scope |-> d.scope, attempt |-> d.attempt,
                 before |-> d.before, at |-> d.at + 1,
                 seen |-> [d.seen EXCEPT ![g] = Row(d.scope, g)]]
    BY <1>3, <1>d DEF ReadRow
  <2>2. /\ d.scope \in Scopes /\ d.kind \in {"decision", "engine"} /\ d.at \in 1..3
        /\ d.seen = [f \in Fields |-> d.seen[f]]
        /\ d.before = None \/ (d.before \in Ids /\ decisions[d.before] # None)
        /\ LastOf(d.scope) = d.before => Saved(d, d.at, snapshots)
    BY <2>1, <1>d DEF ReadOK
  <2>3. /\ d'.phase = "rows" /\ d'.kind = d.kind /\ d'.scope = d.scope
        /\ d'.before = d.before /\ d'.at = d.at + 1
        /\ d'.seen = [d.seen EXCEPT ![g] = Row(d.scope, g)]
    BY <2>1
  <2>g. g \in Fields /\ \A n \in 1..3 : n # d.at => FieldsOf(d.kind)[n] # g
    BY <2>2, FieldsDiffer
  <2>4. /\ d'.seen = [f \in Fields |-> d'.seen[f]]
        /\ \A f \in Fields : d'.seen[f] = IF f = g THEN Row(d.scope, g) ELSE d.seen[f]
    BY <2>2, <2>3, <2>g
  <2>5. ASSUME LastOf(d.scope) = d.before PROVE Saved(d', d'.at, snapshots)
    <3>1. Row(d.scope, g) = IF d.before = None THEN None ELSE snapshots[d.before][g]
      <4>1. latest[d.scope] = IF d.before = None THEN None ELSE snapshots[d.before]
        BY <2>5, <2>2, <1>t DEF TablesInv, LatestIsLast
      <4>2. d.before # None => snapshots[d.before] # None
        BY <2>2, <1>t DEF TablesInv, EveryDecisionLogged
      <4> QED BY <4>1, <4>2 DEF Row
    <3>2. \A n \in 1..3 : n < d.at =>
             d.seen[FieldsOf(d.kind)[n]] = IF d.before = None THEN None
                                           ELSE snapshots[d.before][FieldsOf(d.kind)[n]]
      BY <2>5, <2>2 DEF Saved
    <3> SUFFICES ASSUME NEW n \in 1..3, n < d.at + 1
                 PROVE  d'.seen[FieldsOf(d.kind)[n]] = IF d.before = None THEN None
                                           ELSE snapshots[d.before][FieldsOf(d.kind)[n]]
      BY <2>3 DEF Saved
    <3>3. FieldsOf(d.kind)[n] \in Fields
      BY <2>2, FieldsDiffer
    <3>4. CASE n = d.at
      BY <3>4, <3>3, <3>1, <2>4
    <3>5. CASE n # d.at
      <4>1. n < d.at
        BY <3>5, <2>2
      <4> QED BY <4>1, <3>5, <3>3, <3>2, <2>4, <2>g
    <3> QED BY <3>4, <3>5
  <2>6. d'.at \in 1..4
    BY <2>2, <2>3
  <2>7. \A s \in Scopes : s = d'.scope /\ LastOf(s)' = d'.before => Saved(d', d'.at, snapshots')
    BY <2>3, <2>5, <1>l, <1>f
  <2> HIDE DEF d, g
  <2>8. ReadOK(d)'
    BY <2>2, <2>3, <2>4, <2>6, <2>7, <1>f DEF ReadOK, Saved
  <2> QED BY <2>8 DEF d
<1>4. CASE ReadAfter(r)
  <2>1. /\ d.phase = "rows" /\ d.at = 4
        /\ d'.phase \in {"view", "before", "inconsistent"}
        /\ d'.phase = "view" => HeadUnmoved(r)
        /\ d'.kind = d.kind /\ d'.scope = d.scope /\ d'.before = d.before /\ d'.seen = d.seen
    BY <1>4, <1>d DEF ReadAfter
  <2>2. /\ d.scope \in Scopes /\ d.kind \in {"decision", "engine"}
        /\ d.seen = [f \in Fields |-> d.seen[f]]
        /\ d.before = None \/ (d.before \in Ids /\ decisions[d.before] # None)
        /\ LastOf(d.scope) = d.before => Saved(d, d.at, snapshots)
    BY <2>1, <1>d DEF ReadOK
  <2>3. d'.phase = "view" => Saved(d, 4, snapshots)
    BY <2>1, <2>2, <1>t, HeadIsLast DEF HeadUnmoved
  <2>4. d'.phase = "view" => Saved(d', 4, snapshots')
    BY <2>1, <2>3, <1>f DEF Saved
  <2> HIDE DEF d
  <2>5. ReadOK(d)'
    BY <2>1, <2>2, <2>4, <1>f DEF ReadOK, Saved
  <2> QED BY <2>5 DEF d
<1> QED BY <1>1, <1>2, <1>3, <1>4 DEF Reading

LEMMA ReadsInitially == StoreEmpty => ReadsAreOfOneHead
<1> SUFFICES ASSUME StoreEmpty PROVE ReadsAreOfOneHead
  OBVIOUS
<1>1. reader = [r \in Readers |-> NoRead]
  BY DEF StoreEmpty
<1>2. ReadOK(NoRead)
  BY DEF ReadOK, NoRead
<1>3. ASSUME NEW r \in Readers PROVE ReadOK(reader[r])
  <2>1. reader[r] = NoRead
    BY <1>1
  <2> HIDE DEF NoRead
  <2> QED BY <2>1, <1>2
<1> QED BY <1>1, <1>3 DEF ReadsAreOfOneHead

LEMMA MoveKeepsReads ==
    StoreInv /\ ReadsAreOfOneHead /\ StoreMove => ReadsAreOfOneHead'
<1> SUFFICES ASSUME StoreInv, ReadsAreOfOneHead, StoreMove
             PROVE  ReadsAreOfOneHead'
  OBVIOUS
<1>o. \A r \in Readers : ReadOK(reader[r])
  BY DEF ReadsAreOfOneHead
<1>1. ASSUME NEW p \in Procs, Commit(p) PROVE ReadsAreOfOneHead'
  <2>1. reader' = reader
    BY <1>1 DEF Commit
  <2>2. \A r \in Readers : ReadOK(reader[r])'
    BY <1>1, <1>o, ReadOutlivesCommit
  <2> QED BY <2>1, <2>2 DEF ReadsAreOfOneHead
<1>2. ASSUME UNCHANGED tables, reader' = reader PROVE ReadsAreOfOneHead'
  <2>1. \A r \in Readers : ReadOK(reader[r])'
    BY <1>2, <1>o, ReadStays
  <2> QED BY <2>1, <1>2 DEF ReadsAreOfOneHead
<1>3. ASSUME NEW p \in Procs, Transaction(p), ~Commit(p)
      PROVE  UNCHANGED tables /\ reader' = reader
  BY <1>3 DEF Transaction, AcquireIdLock, AcquireScopeLock, CheckExisting, CheckHead, Lose
<1>4. ASSUME NEW p \in Procs, NEW sub, Submit(p, sub)
      PROVE  UNCHANGED tables /\ reader' = reader
  BY <1>4 DEF Submit
<1>5. ASSUME NEW r \in Readers, Reading(r) PROVE ReadsAreOfOneHead'
  <2>1. UNCHANGED tables
    BY <1>5, ReadingFrame
  <2>2. /\ reader' = [q \in Readers |-> reader'[q]]
        /\ \A q \in Readers : q # r => reader'[q] = reader[q]
    BY <1>5 DEF ReadsAreOfOneHead, Reading, OpenRead, ReadBefore, ReadRow, ReadAfter
  <2>3. ASSUME NEW q \in Readers PROVE ReadOK(reader[q])'
    <3>1. CASE q = r
      BY <3>1, <1>5, ReadMoves
    <3>2. CASE q # r
      BY <3>2, <2>1, <2>2, <1>o, ReadStays
    <3> QED BY <3>1, <3>2
  <2> QED BY <2>2, <2>3 DEF ReadsAreOfOneHead
<1>6. CASE UNCHANGED storeVars
  BY <1>6, <1>2 DEF storeVars, tables
<1> QED BY <1>1, <1>2, <1>3, <1>4, <1>5, <1>6 DEF StoreMove

LEMMA ReadsShowViews == ReadsAreOfOneHead => ViewIsConsistent
<1> SUFFICES ASSUME ReadsAreOfOneHead, NEW r \in Readers, reader[r].phase = "view", NEW n \in 1..3
             PROVE  reader[r].seen[FieldsOf(reader[r].kind)[n]] =
                        IF reader[r].before = None THEN None
                        ELSE snapshots[reader[r].before][FieldsOf(reader[r].kind)[n]]
  BY DEF ViewIsConsistent
<1>1. Saved(reader[r], 4, snapshots)
  BY DEF ReadsAreOfOneHead, ReadOK
<1>2. n < 4
  OBVIOUS
<1> QED BY <1>1, <1>2 DEF Saved

\* A view of the dashboard (get_current_decision_view, get_engine_state) shows
\* the rows that were saved with the decision it names, however many commits
\* fall between its statements.
THEOREM ViewsAreConsistent == StoreSpec => []ViewIsConsistent
<1>1. StoreInit => ReadsAreOfOneHead
  BY ReadsInitially DEF StoreInit
<1>2. StoreInv /\ ReadsAreOfOneHead /\ [StoreNext]_storeVars => ReadsAreOfOneHead'
  BY StepIsMove, MoveKeepsReads
<1> QED BY <1>1, <1>2, StoreIsSound, ReadsShowViews, PTL DEF StoreSpec


-----------------------------------------------------------------------------
(***************************************************************************)
(* What the callers of _persist are told                                   *)
(***************************************************************************)

\* A transaction that ended well has its decision in the table, its own or an
\* equal one of an earlier call.
AnswersHold ==
    \A p \in Procs : tx[p].phase = "committed" =>
        /\ IsSubmission(tx[p].sub)
        /\ decisions[tx[p].sub.id] # None
        /\ SameDecision(decisions[tx[p].sub.id], tx[p].sub)

DecisionsStay ==
    \A i \in Ids : decisions[i] # None => decisions'[i] = decisions[i]

LEMMA MoveKeepsDecisions == StoreInv /\ StoreMove => DecisionsStay
<1> SUFFICES ASSUME StoreInv, StoreMove PROVE DecisionsStay
  OBVIOUS
<1>1. ASSUME NEW p \in Procs, Commit(p) PROVE DecisionsStay
  <2>1. /\ decisions[tx[p].sub.id] = None
        /\ decisions' = [decisions EXCEPT ![tx[p].sub.id] = tx[p].sub]
    BY <1>1, CommitEffect
  <2>2. decisions = [i \in Ids |-> decisions[i]]
    BY DEF StoreInv, TablesInv, StoreTypeOK, StoreShape
  <2> QED BY <2>1, <2>2 DEF DecisionsStay
<1>2. ASSUME NEW p \in Procs, Transaction(p), ~Commit(p) PROVE decisions' = decisions
  BY <1>2 DEF Transaction, AcquireIdLock, AcquireScopeLock, CheckExisting, CheckHead, Lose, tables
<1>3. ASSUME NEW p \in Procs, NEW sub, Submit(p, sub) PROVE decisions' = decisions
  BY <1>3 DEF Submit, tables
<1>4. ASSUME NEW r \in Readers, Reading(r) PROVE decisions' = decisions
  BY <1>4, ReadingFrame DEF tables
<1>5. CASE UNCHANGED storeVars
  BY <1>5 DEF storeVars, DecisionsStay
<1>6. CASE decisions' = decisions
  BY <1>6 DEF DecisionsStay
<1> QED BY <1>1, <1>2, <1>3, <1>4, <1>5, <1>6 DEF StoreMove

\* What one transaction's step does to its own answer.
LEMMA AnswerOfOne ==
    ASSUME StoreInv, NEW p \in Procs, tx'[p].phase = "committed",
           Transaction(p) \/ \E sub : Submit(p, sub)
    PROVE  /\ IsSubmission(tx[p].sub) /\ tx'[p].sub = tx[p].sub
           /\ decisions'[tx[p].sub.id] # None
           /\ SameDecision(decisions'[tx[p].sub.id], tx[p].sub)
<1>t. /\ StoreShape
      /\ tx[p].phase \in Busy => IsSubmission(tx[p].sub)
  BY DEF StoreInv, TablesInv, StoreTypeOK
<1>1. CASE Commit(p)
  <2>1. /\ IsSubmission(tx[p].sub) /\ tx[p].sub.id \in Ids
        /\ decisions' = [decisions EXCEPT ![tx[p].sub.id] = tx[p].sub]
        /\ tx' = [tx EXCEPT ![p] = [phase |-> "committed", sub |-> tx[p].sub]]
    BY <1>1, CommitEffect
  <2>2. decisions'[tx[p].sub.id] = tx[p].sub /\ tx'[p].sub = tx[p].sub
    BY <2>1, <1>t DEF StoreShape
  <2> QED BY <2>1, <2>2 DEF SameDecision, IsSubmission
<1>2. CASE CheckExisting(p)
  <2>1. /\ tx[p].phase = "locked" /\ decisions[tx[p].sub.id] # None /\ decisions' = decisions
        /\ tx' = [tx EXCEPT ![p] = [phase |-> IF SameDecision(decisions[tx[p].sub.id], tx[p].sub)
                                                THEN "committed" ELSE "failed",
                                    sub |-> tx[p].sub]]
    BY <1>2 DEF CheckExisting, End, tables
  <2>2. tx'[p].sub = tx[p].sub /\ SameDecision(decisions[tx[p].sub.id], tx[p].sub)
    BY <2>1, <1>t DEF StoreShape
  <2> QED BY <2>1, <2>2, <1>t DEF Busy
<1>3. CASE ~Commit(p) /\ ~CheckExisting(p)
  <2>1. \E phase \in {"begin", "id", "locked", "checked", "failed"} : \E sub :
            tx' = [tx EXCEPT ![p] = [phase |-> phase, sub |-> sub]]
    BY <1>3 DEF Transaction, AcquireIdLock, AcquireScopeLock, CheckHead, Lose, Submit, End
  <2>2. tx'[p].phase # "committed"
    BY <2>1, <1>t DEF StoreShape
  <2> QED BY <2>2
<1> QED BY <1>1, <1>2, <1>3

LEMMA MoveKeepsAnswers == StoreInv /\ AnswersHold /\ StoreMove => AnswersHold'
<1> SUFFICES ASSUME StoreInv, AnswersHold, StoreMove, NEW q \in Procs, tx'[q].phase = "committed"
             PROVE  /\ IsSubmission(tx'[q].sub) /\ decisions'[tx'[q].sub.id] # None
                    /\ SameDecision(decisions'[tx'[q].sub.id], tx'[q].sub)
  BY DEF AnswersHold
<1>1. CASE tx'[q] = tx[q]
  <2>1. /\ IsSubmission(tx[q].sub) /\ decisions[tx[q].sub.id] # None
        /\ SameDecision(decisions[tx[q].sub.id], tx[q].sub)
    BY <1>1 DEF AnswersHold
  <2>2. tx[q].sub.id \in Ids
    BY <2>1 DEF IsSubmission
  <2>3. decisions'[tx[q].sub.id] = decisions[tx[q].sub.id]
    BY <2>1, <2>2, MoveKeepsDecisions DEF DecisionsStay
  <2> QED BY <1>1, <2>1, <2>3
<1>2. ASSUME NEW p \in Procs, Transaction(p) \/ \E sub : Submit(p, sub), p = q
      PROVE  /\ IsSubmission(tx'[q].sub) /\ decisions'[tx'[q].sub.id] # None
             /\ SameDecision(decisions'[tx'[q].sub.id], tx'[q].sub)
  BY <1>2, AnswerOfOne
<1>3. ASSUME NEW p \in Procs, Transaction(p) \/ \E sub : Submit(p, sub), p # q
      PROVE  tx'[q] = tx[q]
  <2>1. tx = [r \in Procs |-> tx[r]]
    BY DEF StoreInv, TablesInv, StoreTypeOK, StoreShape
  <2>2. \E value : tx' = [tx EXCEPT ![p] = value]
    BY <1>3 DEF Transaction, AcquireIdLock, AcquireScopeLock, CheckExisting, CheckHead, Commit,
                Lose, Submit, End
  <2> QED BY <1>3, <2>1, <2>2
<1>4. ASSUME NEW r \in Readers, Reading(r) PROVE tx' = tx
  BY <1>4, ReadingFrame
<1>5. CASE UNCHANGED storeVars
  BY <1>5, <1>1 DEF storeVars
<1> QED BY <1>1, <1>2, <1>3, <1>4, <1>5 DEF StoreMove

\* _persist returns only when the decision is stored, by this call or by an
\* earlier one with equal scope, link and payload, and it stays stored.
THEOREM AnswersAreKept == StoreSpec => []AnswersHold
<1>1. StoreInit => AnswersHold
  <2> SUFFICES ASSUME StoreInit, NEW p \in Procs PROVE tx[p].phase # "committed"
    BY DEF AnswersHold
  <2>1. tx = [q \in Procs |-> [phase |-> "idle", sub |-> None]]
    BY DEF StoreInit, StoreEmpty, Idle
  <2> QED BY <2>1
<1>2. StoreInv /\ AnswersHold /\ [StoreNext]_storeVars => AnswersHold'
  BY StepIsMove, MoveKeepsAnswers
<1> QED BY <1>1, <1>2, StoreIsSound, PTL DEF StoreSpec

\* A stored decision is never rewritten or removed.
THEOREM DecisionsAreFinal == StoreSpec => [][DecisionsStay]_storeVars
<1>1. StoreInv /\ [StoreNext]_storeVars => [DecisionsStay]_storeVars
  BY StepIsMove, MoveKeepsDecisions
<1> QED BY <1>1, StoreIsSound, PTL DEF StoreSpec

-----------------------------------------------------------------------------
(***************************************************************************)
(* The history the dashboard rebuilds                                      *)
(***************************************************************************)

\* A nonempty set of numbers up to n has a largest one: otherwise adding 1 would
\* map the numbers below some member, and 0, into themselves.
LEMMA LargestExists ==
    ASSUME NEW n \in Nat, NEW S \in SUBSET (1..n), S # {}
    PROVE  \E x \in S : \A y \in S : x >= y
<1> SUFFICES ASSUME \A x \in S : \E y \in S : ~(x >= y) PROVE FALSE
  OBVIOUS
<1> DEFINE T == {x \in 1..n : \E y \in S : y >= x}
           U == T \cup {0}
           f == [x \in U |-> x + 1]
<1>1. IsFiniteSet(T)
  <2>1. IsFiniteSet(1..n)
    BY FS_Interval
  <2>2. T \in SUBSET (1..n)
    OBVIOUS
  <2> QED BY <2>1, <2>2, FS_Subset
<1>2. 0 \notin T
  OBVIOUS
<1>3. \A x \in U : x + 1 \in T
  <2> SUFFICES ASSUME NEW x \in U PROVE x + 1 \in T
    OBVIOUS
  <2>1. PICK y \in S : y >= x
    <3>1. CASE x \in T
      BY <3>1
    <3>2. CASE x = 0
      <4>1. PICK y \in S : TRUE
        OBVIOUS
      <4>2. y >= x
        BY <4>1, <3>2
      <4> QED BY <4>1, <4>2
    <3> QED BY <3>1, <3>2
  <2>2. PICK z \in S : ~(y >= z)
    OBVIOUS
  <2>3. x + 1 \in 1..n /\ z >= x + 1
    BY <2>1, <2>2
  <2> QED BY <2>3
<1>4. f \in Injection(U, T)
  <2>1. f \in [U -> T]
    BY <1>3
  <2>2. \A x, y \in U : f[x] = f[y] => x = y
    OBVIOUS
  <2> HIDE DEF T, U, f
  <2> QED BY <2>1, <2>2 DEF Injection, IsInjective
<1>5. Cardinality(U) = Cardinality(T) + 1 /\ Cardinality(T) \in Nat
  BY <1>1, <1>2, FS_AddElement, FS_CardinalityType
<1>6. Cardinality(U) <= Cardinality(T)
  <2> HIDE DEF T, U, f
  <2> QED BY <1>1, <1>4, FS_Injection
<1> QED BY <1>5, <1>6

LEMMA SmallestExists ==
    ASSUME NEW n \in Nat, NEW S \in SUBSET (1..n), S # {}
    PROVE  \E x \in S : \A y \in S : x <= y
<1> DEFINE T == {n + 1 - x : x \in S}
<1>1. T \in SUBSET (1..n) /\ T # {}
  OBVIOUS
<1>2. PICK t \in T : \A y \in T : t >= y
  <2> HIDE DEF T
  <2> QED BY <1>1, LargestExists
<1>3. PICK x \in S : t = n + 1 - x
  BY <1>2
<1>4. \A y \in S : x <= y
  <2> SUFFICES ASSUME NEW y \in S PROVE x <= y
    OBVIOUS
  <2>1. t >= n + 1 - y
    BY <1>2
  <2> QED BY <2>1, <1>3
<1> QED BY <1>4

\* The decisions of a scope are as many as its commits.
LEMMA ScopeIsCounted ==
    ASSUME TablesInv, NEW s \in Scopes
    PROVE  /\ InScope(s) = {history[s][n] : n \in 1..Len(history[s])}
           /\ Cardinality(InScope(s)) = Len(history[s]) /\ Len(history[s]) \in Nat
<1> DEFINE h == history[s]
           f == [n \in 1..Len(h) |-> h[n]]
<1>1. h \in Seq(Ids) /\ Len(h) \in Nat /\ DOMAIN decisions = Ids
  BY LastOfType DEF TablesInv, StoreTypeOK, StoreShape
<1>2. \A n \in 1..Len(h) : h[n] \in InScope(s)
  BY <1>1 DEF TablesInv, LinksInOrder, InScope
<1>3. \A i \in InScope(s) : \E n \in 1..Len(h) : h[n] = i
  BY <1>1 DEF TablesInv, EveryDecisionLogged, InScope
<1>4. \A m, n \in 1..Len(h) : h[m] = h[n] => m = n
  BY DEF TablesInv, EveryDecisionLogged
<1>5. ExistsBijection(1..Len(h), InScope(s))
  <2>1. f \in [1..Len(h) -> InScope(s)]
    BY <1>2
  <2>2. \A m, n \in 1..Len(h) : f[m] = f[n] => m = n
    BY <1>4
  <2>3. \A i \in InScope(s) : \E n \in 1..Len(h) : f[n] = i
    BY <1>3
  <2> HIDE DEF f
  <2>4. f \in Bijection(1..Len(h), InScope(s))
    BY <2>1, <2>2, <2>3 DEF Bijection, Injection, Surjection, IsInjective
  <2> QED BY <2>4 DEF ExistsBijection
<1>6. Cardinality(InScope(s)) = Len(h)
  BY <1>1, <1>5, FS_CountingElements
<1> QED BY <1>1, <1>2, <1>3, <1>6

\* One equation of the walk: from the head, or on along the link.
Follows(g, s, k) ==
    g = [n \in 1..k |->
           IF n = 1 THEN CurrentHead(s)
           ELSE IF g[n - 1] \in InScope(s) THEN decisions[g[n - 1]].supersedes
           ELSE None]

Newest(s, k) == [n \in 1..k |-> history[s][k + 1 - n]]

LEMMA NewestFollows ==
    ASSUME TablesInv, NEW s \in Scopes, NEW k, k = Len(history[s]), k > 0
    PROVE  Follows(Newest(s, k), s, k)
<1> DEFINE h == history[s]
           w == Newest(s, k)
<1>1. h \in Seq(Ids) /\ k \in Nat /\ CurrentHead(s) = h[k]
  BY LastOfType, HeadIsLast DEF TablesInv, LastOf
<1>2. \A n \in 1..k : /\ h[n] \in InScope(s)
                      /\ decisions[h[n]].supersedes = IF n = 1 THEN None ELSE h[n - 1]
  BY ScopeIsCounted DEF TablesInv, LinksInOrder
<1>3. \A n \in 1..k : w[n] = h[k + 1 - n]
  BY DEF Newest
<1>4. ASSUME NEW n \in 1..k
      PROVE  w[n] = IF n = 1 THEN CurrentHead(s)
                    ELSE IF w[n - 1] \in InScope(s) THEN decisions[w[n - 1]].supersedes
                    ELSE None
  <2>1. CASE n = 1
    BY <1>1, <1>3, <2>1
  <2>2. CASE n # 1
    <3>1. n - 1 \in 1..k /\ k + 2 - n \in 1..k /\ k + 2 - n # 1 /\ k + 2 - n - 1 = k + 1 - n
      BY <1>1, <2>2
    <3>2. w[n - 1] = h[k + 2 - n]
      BY <1>1, <1>3, <3>1
    <3>3. h[k + 2 - n] \in InScope(s) /\ decisions[h[k + 2 - n]].supersedes = h[k + 1 - n]
      BY <1>2, <3>1
    <3> QED BY <1>3, <2>2, <3>2, <3>3
  <2> QED BY <2>1, <2>2
<1>5. w = [n \in 1..k |-> w[n]]
  BY DEF Newest
<1> HIDE DEF w
<1>6. Follows(w, s, k)
  BY <1>4, <1>5 DEF Follows
<1> QED BY <1>6 DEF w

\* The equation has one solution: two would differ at a first place.
LEMMA FollowsIsUnique ==
    ASSUME NEW s, NEW k \in Nat, NEW g, Follows(g, s, k), NEW w, Follows(w, s, k)
    PROVE  g = w
<1> DEFINE Step(f, n) == IF n = 1 THEN CurrentHead(s)
                         ELSE IF f[n - 1] \in InScope(s) THEN decisions[f[n - 1]].supersedes
                         ELSE None
           C == {n \in 1..k : g[n] # w[n]}
<1>1. g = [n \in 1..k |-> Step(g, n)] /\ w = [n \in 1..k |-> Step(w, n)]
  BY DEF Follows
<1>2. \A n \in 1..k : g[n] = Step(g, n) /\ w[n] = Step(w, n)
  <2> HIDE DEF Step
  <2> QED BY <1>1
<1>3. C = {}
  <2> SUFFICES ASSUME C # {} PROVE FALSE
    OBVIOUS
  <2>1. PICK m \in C : \A n \in C : m <= n
    <3>1. C \in SUBSET (1..k)
      OBVIOUS
    <3> HIDE DEF C
    <3> QED BY <3>1, SmallestExists
  <2>2. m \in 1..k /\ g[m] # w[m]
    BY <2>1
  <2>3. m # 1
    BY <1>2, <2>2
  <2>4. m - 1 \in 1..k /\ m - 1 \notin C
    BY <2>1, <2>2, <2>3
  <2>5. g[m - 1] = w[m - 1]
    BY <2>4
  <2> QED BY <1>2, <2>2, <2>3, <2>5
<1>4. \A n \in 1..k : g[n] = w[n]
  BY <1>3
<1>5. g = [n \in 1..k |-> g[n]] /\ w = [n \in 1..k |-> w[n]]
  BY <1>1
<1> HIDE DEF C, Step
<1> QED BY <1>4, <1>5

LEMMA WalkFollows ==
    ASSUME NEW s, NEW k, k = Cardinality(InScope(s)), NEW w, Follows(w, s, k)
    PROVE  Follows(Walk(s), s, k)
<1>1. Walk(s) = CHOOSE g : Follows(g, s, k)
  BY Zenon DEF Walk, Follows
<1> QED BY <1>1, Zenon

LEMMA HistoryRebuilt == TablesInv => HistoryIsRebuilt
<1> SUFFICES ASSUME TablesInv, NEW s \in Scopes
             PROVE  /\ HeadReadable(s)
                    /\ DecisionChain(s) = Newest(s, Len(history[s]))
  BY DEF HistoryIsRebuilt, Newest
<1> DEFINE h == history[s]
           k == Len(history[s])
<1>1. HeadReadable(s)
  BY HeadIsLast
<1>2. InScope(s) = {h[n] : n \in 1..k} /\ Cardinality(InScope(s)) = k /\ k \in Nat
  BY ScopeIsCounted
<1>3. CASE k = 0
  <2>1. InScope(s) = {}
    BY <1>2, <1>3
  <2>2. DecisionChain(s) = <<>>
    BY <2>1, Zenon DEF DecisionChain
  <2>3. Newest(s, k) = <<>>
    BY <1>3 DEF Newest
  <2> QED BY <1>1, <2>2, <2>3
<1>4. CASE k # 0
  <2>1. k > 0
    BY <1>2, <1>4
  <2>2. Follows(Newest(s, k), s, k)
    BY <2>1, NewestFollows
  <2>3. Walk(s) = Newest(s, k)
    <3>1. PICK c : c = k
      OBVIOUS
    <3>2. PICK w : w = Newest(s, k)
      OBVIOUS
    <3>3. c \in Nat /\ c = Cardinality(InScope(s)) /\ Follows(w, s, c)
      BY ONLY <1>2, <2>2, <3>1, <3>2
    <3>4. Follows(Walk(s), s, c)
      BY ONLY <3>3, WalkFollows
    <3>5. Walk(s) = w
      BY ONLY <3>3, <3>4, FollowsIsUnique
    <3> QED BY ONLY <3>2, <3>5
  <2>4. InScope(s) # {} /\ Cardinality(Heads(s)) = 1
    <3>1. 1 \in 1..k
      BY <1>2, <2>1
    <3>2. h[1] \in InScope(s)
      BY <1>2, <3>1
    <3> QED BY <1>1, <3>2 DEF HeadReadable
  <2>5. {Newest(s, k)[n] : n \in DOMAIN Newest(s, k)} = InScope(s)
    <3>1. \A n \in 1..k : k + 1 - n \in 1..k /\ k + 1 - (k + 1 - n) = n
      BY <1>2
    <3>2. DOMAIN Newest(s, k) = 1..k /\ \A n \in 1..k : Newest(s, k)[n] = h[k + 1 - n]
      BY DEF Newest
    <3>3. PICK w, g : w = Newest(s, k) /\ g = history[s]
      OBVIOUS
    <3>4. DOMAIN w = 1..k /\ \A n \in 1..k : w[n] = g[k + 1 - n]
      BY ONLY <3>2, <3>3
    <3>5. PICK c : c = k
      OBVIOUS
    <3>6. /\ DOMAIN w = 1..c /\ \A n \in 1..c : w[n] = g[c + 1 - n]
          /\ \A n \in 1..c : c + 1 - n \in 1..c /\ c + 1 - (c + 1 - n) = n
          /\ InScope(s) = {g[n] : n \in 1..c}
      BY ONLY <1>2, <3>1, <3>3, <3>4, <3>5
    <3>7. \A n \in 1..c : w[n] \in InScope(s)
      BY ONLY <3>6
    <3>8. \A i \in InScope(s) : \E n \in 1..c : w[n] = i
      <4> SUFFICES ASSUME NEW i \in InScope(s) PROVE \E n \in 1..c : w[n] = i
        OBVIOUS
      <4>1. PICK n \in 1..c : g[n] = i
        BY ONLY <3>6
      <4>2. c + 1 - n \in 1..c /\ w[c + 1 - n] = i
        BY ONLY <3>6, <4>1
      <4> QED BY ONLY <4>2
    <3>9. {w[n] : n \in DOMAIN w} = InScope(s)
      <4>1. PICK T : T = InScope(s)
        OBVIOUS
      <4>2. DOMAIN w = 1..c
        BY ONLY <3>6
      <4>3. (\A n \in 1..c : w[n] \in T) /\ \A i \in T : \E n \in 1..c : w[n] = i
        BY ONLY <3>7, <3>8, <4>1
      <4> QED BY ONLY <4>1, <4>2, <4>3, Zenon
    <3> QED BY ONLY <3>3, <3>9
  <2>6. decisions[Newest(s, k)[k]].supersedes = None
    <3>1. k \in 1..k /\ 1 \in 1..k /\ k + 1 - k = 1
      BY <1>2, <2>1
    <3>2. Newest(s, k)[k] = h[1]
      BY <3>1 DEF Newest
    <3> QED BY <3>1, <3>2 DEF TablesInv, LinksInOrder
  <2>7. DecisionChain(s) = Walk(s)
    BY <1>2, <2>3, <2>4, <2>5, <2>6, Zenon DEF DecisionChain
  <2> QED BY <1>1, <2>3, <2>7
<1> QED BY <1>3, <1>4

\* The history the dashboard rebuilds from the links of the stored payloads is
\* the order of commits, whoever submits and however transactions interleave.
THEOREM HistoryIsAlwaysRebuilt == StoreSpec => []HistoryIsRebuilt
<1>1. StoreInv => HistoryIsRebuilt
  BY HistoryRebuilt DEF StoreInv
<1> QED BY <1>1, StoreIsSound, PTL
=============================================================================
