------------------------ MODULE FirstCycleWorkerProofs ------------------------
(***************************************************************************)
(* Proofs about FirstCycleWorker for every set of Workers, messages and    *)
(* objects, every fault set and any number of crashes.                     *)
(*                                                                         *)
(* TypeOK is inductive only together with what a Worker's job holds at     *)
(* each control point (JobShape).  The safety properties then rest on      *)
(* three groups of facts:                                                  *)
(*   Execution  - a Worker between acquire and commit owns the object's    *)
(*                lock and the object has no receipt;                      *)
(*   Coverage   - every object of a received message is still to do, in    *)
(*                hand, or receipted;                                      *)
(*   Archiving  - a publishing Worker works on the outbox payload, and     *)
(*                what S3 holds under a run is that payload.               *)
(***************************************************************************)
EXTENDS FirstCycleWorker, TLAPS

Executing  == {"execute", "stages", "persist", "commit"}
Publishing == {"publish", "put_evidence", "put_summary", "mark"}
Committed  == Publishing \cup {"complete"}

\* What a job holds at each control point.
JobShape ==
    \A w \in Workers :
        /\ pc[w] # "idle" => job[w].msg \in Messages
        /\ pc[w] \in Executing \cup Committed => job[w].obj \in Objects
        /\ pc[w] \in {"stages", "persist", "commit"} \cup Committed =>
              job[w].run \in Runs
        /\ pc[w] \in Publishing => /\ job[w].payload \in Payloads
                                   /\ job[w].status \in Statuses
                                   /\ pubs[job[w].run] # None

TypeInv == TypeOK /\ JobShape

\* The advisory locks and the absence of a receipt protect an open execution.
Execution ==
    /\ \A w \in Workers : pc[w] \in Executing =>
          lock[job[w].obj] = w /\ receipts[job[w].obj] = None
    /\ \A w \in Workers : pc[w] = "commit" =>
          /\ dlock[job[w].run] = w
          /\ job[w].writes <=> runs[job[w].run] = None
          /\ runs[job[w].run] # None =>
                SameDecision(runs[job[w].run], job[w].obj)
    /\ \A r \in Runs : runs[r] # None => receipts[runs[r]] # None

\* Where each object of a received message stands.
Coverage ==
    \A w \in Workers :
        /\ pc[w] # "idle" =>
              /\ job[w].msg \notin Malformed
              /\ \A o \in Records[job[w].msg] :
                    \/ o \in job[w].todo
                    \/ pc[w] \in Executing /\ o = job[w].obj
                    \/ receipts[o] # None
        /\ pc[w] \in Committed => receipts[job[w].obj] # None
        /\ pc[w] = "delete" => job[w].todo = {}

\* What S3 and the publishing Workers hold agrees with the outbox.
Archiving ==
    /\ \A w \in Workers :
          /\ pc[w] \in Publishing => job[w].payload = pubs[job[w].run].payload
          /\ pc[w] \in {"put_summary", "mark"} =>
                archive[job[w].run].evidence = job[w].payload
          /\ pc[w] = "mark" => archive[job[w].run].summary = job[w].payload
    /\ \A r \in Runs :
          /\ archive[r].summary # None =>
                /\ pubs[r] # None
                /\ archive[r].summary = pubs[r].payload
                /\ archive[r].evidence = pubs[r].payload
          /\ archive[r].evidence # None /\ r \notin Foreign =>
                pubs[r] # None /\ archive[r].evidence = pubs[r].payload

-----------------------------------------------------------------------------
(***************************************************************************)
(* Type correctness                                                        *)
(***************************************************************************)

USE DEF Executing, Publishing, Committed

LEMMA TypeInit == Init => TypeInv
  BY ConstantsAssumption
     DEF Init, TypeInv, TypeOK, JobShape, Scopes, Artifacts, Job, NoJob, PCs


LEMMA RetainTyped ==
    ASSUME TypeInv, NEW w \in Workers, Retain(w)
    PROVE  /\ lock' \in [Objects -> Workers \cup {None}]
           /\ dlock' \in [Runs -> Workers \cup {None}]
           /\ pc' \in [Workers -> PCs]
           /\ job' \in [Workers -> Job]
           /\ pc'[w] = "idle"
           /\ \A v \in Workers \ {w} : pc'[v] = pc[v] /\ job'[v] = job[v]
  BY DEF TypeInv, TypeOK, Retain, ReleaseLocks, NoJob, Job, PCs

LEMMA SaveRuntimeTyped ==
    ASSUME TypeInv, NEW w \in Workers, NEW state \in States,
           job[w].obj \in Objects, job[w].run \in Runs, SaveRuntime(w, state)
    PROVE  runtime' \in [Scopes -> RuntimeRow \cup {None}]
<1> DEFINE row == [exec |-> job[w].exec, state |-> state]
<1>1. row \in RuntimeRow
  BY DEF TypeInv, TypeOK, Job, RuntimeRow
<1>2. runtime \in [Scopes -> RuntimeRow \cup {None}]
  BY DEF TypeInv, TypeOK
<1>3. CASE UNCHANGED runtime
  BY <1>2, <1>3
<1> DEFINE s == <<job[w].run, Host[job[w].obj]>>
           ok == RuntimeAccepts(runtime[s], job[w].exec, state)
<1>4. CASE runtime' = [runtime EXCEPT ![s] = IF ok THEN row ELSE runtime[s]]
  <2> HIDE DEF row, s, ok
  <2> QED  BY <1>1, <1>2, <1>4
<1> QED  BY <1>3, <1>4 DEF SaveRuntime

LEMMA NextInputTyped ==
    ASSUME TypeInv, NEW w \in Workers, pc[w] # "idle", NextInput(w)
    PROVE  /\ pc' \in [Workers -> PCs]
           /\ job' \in [Workers -> Job]
           /\ pc'[w] \in {"acquire", "delete"}
           /\ job'[w].msg = job[w].msg
           /\ \A v \in Workers \ {w} : pc'[v] = pc[v] /\ job'[v] = job[v]
  BY DEF TypeInv, TypeOK, JobShape, NextInput, NoJob, Job, PCs

LEMMA CommitWritesTyped ==
    ASSUME TypeInv, NEW w \in Workers, pc[w] = "commit", CommitWrites(w)
    PROVE  /\ runs' \in [Runs -> Objects \cup {None}]
           /\ pubs' \in [Runs -> Publication \cup {None}]
           /\ receipts' \in [Objects -> Runs \cup {None}]
           /\ \A r \in Runs : pubs[r] # None => pubs'[r] # None
  BY ConstantsAssumption
     DEF TypeInv, TypeOK, JobShape, CommitWrites, Publication, Payloads, Job,
         Statuses

LEMMA MarkWritesTyped ==
    ASSUME TypeInv, NEW r \in Runs, pubs[r] # None, MarkWrites(r)
    PROVE  /\ pubs' \in [Runs -> Publication \cup {None}]
           /\ runtime' \in [Scopes -> RuntimeRow \cup {None}]
           /\ \A q \in Runs : pubs[q] # None => pubs'[q] # None
<1>1. [pubs[r] EXCEPT !.status = "published"] \in Publication
  BY DEF TypeInv, TypeOK, Publication, Statuses
<1>2. ASSUME NEW s \in Scopes, runtime[s] # None
      PROVE  [runtime[s] EXCEPT !.state = "completed"] \in RuntimeRow
  BY <1>2 DEF TypeInv, TypeOK, RuntimeRow, States
<1> QED  BY <1>1, <1>2, NoneIsNoRow DEF TypeInv, TypeOK, MarkWrites

\* The job of a received message.
LEMMA ReceivedJob ==
    ASSUME NEW m \in Messages, NEW t \in Nat, NEW S \in SUBSET Objects
    PROVE  [NoJob EXCEPT !.msg = m, !.tok = t, !.todo = S] \in Job
<1> DEFINE a == [NoJob EXCEPT !.msg = m]
           b == [a EXCEPT !.tok = t]
           c == [b EXCEPT !.todo = S]
<1>1. a \in Job
  BY DEF Job, NoJob
<1>2. b \in Job
  <2> HIDE DEF a
  <2> QED  BY <1>1 DEF Job
<1>3. c \in Job
  <2> HIDE DEF b
  <2> QED  BY <1>2 DEF Job
<1> QED  BY <1>3

\* The job of a Worker that takes up an input.
LEMMA AcquiredJob ==
    ASSUME NEW j \in Job, NEW o \in Objects, NEW S \in SUBSET Objects
    PROVE  [j EXCEPT !.obj = o, !.todo = S] \in Job
<1> DEFINE a == [j EXCEPT !.obj = o]
           b == [a EXCEPT !.todo = S]
<1>1. a \in Job
  BY DEF Job
<1>2. b \in Job
  <2> HIDE DEF a
  <2> QED  BY <1>1 DEF Job
<1> QED  BY <1>2

\* The job of a Worker that retries a stored publication.
LEMMA RecoveredJob ==
    ASSUME NEW j \in Job, NEW o \in Objects, NEW S \in SUBSET Objects,
           NEW r \in Runs, NEW x \in Payloads, NEW y \in Statuses
    PROVE  [j EXCEPT !.obj = o, !.todo = S, !.run = r,
                     !.payload = x, !.status = y] \in Job
<1> DEFINE a == [j EXCEPT !.obj = o]
           b == [a EXCEPT !.todo = S]
           c == [b EXCEPT !.run = r]
           d == [c EXCEPT !.payload = x]
           e == [d EXCEPT !.status = y]
<1>1. a \in Job
  BY DEF Job
<1>2. b \in Job
  <2> HIDE DEF a
  <2> QED  BY <1>1 DEF Job
<1>3. c \in Job
  <2> HIDE DEF b
  <2> QED  BY <1>2 DEF Job
<1>4. d \in Job
  <2> HIDE DEF c
  <2> QED  BY <1>3 DEF Job
<1>5. e \in Job
  <2> HIDE DEF d
  <2> QED  BY <1>4 DEF Job
<1> QED  BY <1>5

\* The job of a Worker with a run id.
LEMMA AllocatedJob ==
    ASSUME NEW j \in Job, NEW r \in Runs, NEW t \in Nat
    PROVE  [j EXCEPT !.run = r, !.exec = t] \in Job
<1> DEFINE a == [j EXCEPT !.run = r]
           b == [a EXCEPT !.exec = t]
<1>1. a \in Job
  BY DEF Job
<1>2. b \in Job
  <2> HIDE DEF a
  <2> QED  BY <1>1 DEF Job
<1> QED  BY <1>2

\* The job of a Worker whose commit succeeded.
LEMMA SavedJob ==
    ASSUME NEW j \in Job, NEW x \in Payloads, NEW y \in Statuses
    PROVE  [j EXCEPT !.fresh = TRUE, !.payload = x, !.status = y] \in Job
<1> DEFINE a == [j EXCEPT !.fresh = TRUE]
           b == [a EXCEPT !.payload = x]
           c == [b EXCEPT !.status = y]
<1>1. a \in Job
  BY DEF Job
<1>2. b \in Job
  <2> HIDE DEF a
  <2> QED  BY <1>1 DEF Job
<1>3. c \in Job
  <2> HIDE DEF b
  <2> QED  BY <1>2 DEF Job
<1> QED  BY <1>3

LEMMA UploadTyped ==
    ASSUME TypeInv, NEW w \in Workers, pc[w] \in Publishing, Upload(w)
    PROVE  archive' \in [Runs -> Artifacts]
<1> DEFINE r == job[w].run
<1>1. r \in Runs /\ job[w].payload \in Payloads
  BY DEF TypeInv, JobShape
<1>2. archive \in [Runs -> Artifacts]
  BY DEF TypeInv, TypeOK
<1>3. /\ [archive[r] EXCEPT !.evidence = job[w].payload] \in Artifacts
      /\ [archive[r] EXCEPT !.summary = job[w].payload] \in Artifacts
  BY <1>1, <1>2 DEF Artifacts
<1>4. CASE Part(w) = "evidence"
  BY <1>1, <1>2, <1>3, <1>4 DEF Upload
<1>5. CASE Part(w) = "summary"
  BY <1>1, <1>2, <1>3, <1>5 DEF Upload
<1> QED  BY <1>4, <1>5 DEF Part

LEMMA RecordFailureTyped ==
    ASSUME TypeInv, NEW w \in Workers, pc[w] \in Publishing,
           NEW status \in Statuses, RecordFailure(w, status)
    PROVE  /\ pubs' \in [Runs -> Publication \cup {None}]
           /\ \A q \in Runs : pubs[q] # None => pubs'[q] # None
<1>1. [pubs[job[w].run] EXCEPT !.status = status] \in Publication
  BY DEF TypeInv, TypeOK, JobShape, Publication
<1> QED  BY <1>1, NoneIsNoRow DEF TypeInv, TypeOK, JobShape, RecordFailure

\* What each job-changing step does, field by field.
LEMMA AcquireEffect ==
    ASSUME TypeInv, NEW w \in Workers, AcquireExecution(w)
    PROVE  /\ pc' \in [Workers -> PCs]
           /\ job' \in [Workers -> Job]
           /\ lock' \in [Objects -> Workers \cup {None}]
           /\ \A v \in Workers \ {w} : pc'[v] = pc[v] /\ job'[v] = job[v]
           /\ job'[w].msg = job[w].msg
           /\ \E o \in Objects :
                /\ o \in job[w].todo
                /\ LockFree(o)
                /\ job'[w].todo = job[w].todo \ {o}
                /\ \/ /\ receipts[o] = None
                      /\ pc'[w] = "execute"
                      /\ job'[w].obj = o
                      /\ lock' = [lock EXCEPT ![o] = w]
                   \/ /\ receipts[o] \in Runs
                      /\ pubs[receipts[o]] # None
                      /\ pc'[w] = "publish"
                      /\ job'[w].obj = o
                      /\ job'[w].run = receipts[o]
                      /\ job'[w].payload = pubs[receipts[o]].payload
                      /\ job'[w].status = pubs[receipts[o]].status
                      /\ lock' = [lock EXCEPT ![o] = w]
                   \/ /\ receipts[o] # None
                      /\ pc'[w] \in {"acquire", "delete"}
                      /\ pc'[w] = "delete" => job'[w].todo = {}
                      /\ lock' = lock
<1>1. PICK o \in job[w].todo : AcquireObject(w, o)
  BY DEF AcquireExecution
<1>2. o \in Objects
  BY <1>1 DEF TypeInv, TypeOK, Job
<1>3. /\ pc' \in [Workers -> PCs]
      /\ lock' \in [Objects -> Workers \cup {None}]
      /\ \A v \in Workers \ {w} : pc'[v] = pc[v] /\ job'[v] = job[v]
      /\ LockFree(o)
  BY <1>1, <1>2 DEF AcquireObject, TypeInv, TypeOK, PCs
<1> DEFINE rest == job[w].todo \ {o}
<1>4. job \in [Workers -> Job] /\ job[w] \in Job /\ rest \in SUBSET Objects
  BY DEF TypeInv, TypeOK, Job
<1>5. CASE receipts[o] = None
  <2> DEFINE new == [job[w] EXCEPT !.obj = o, !.todo = rest]
  <2>1. job' = [job EXCEPT ![w] = new] /\ lock' = [lock EXCEPT ![o] = w]
    BY <1>1, <1>5 DEF AcquireObject
  <2>2. pc'[w] = "execute"
    BY <1>1, <1>5 DEF AcquireObject, TypeInv, TypeOK
  <2>3. /\ new \in Job /\ new.msg = job[w].msg /\ new.obj = o
        /\ new.todo = rest
    BY <1>2, <1>4, AcquiredJob DEF Job
  <2>4. job'[w] = new /\ job' \in [Workers -> Job]
    <3> HIDE DEF new
    <3> QED  BY <1>4, <2>1, <2>3
  <2> HIDE DEF new
  <2> QED  BY <1>1, <1>2, <1>3, <1>5, <2>1, <2>2, <2>3, <2>4
<1>6. CASE receipts[o] # None /\ R1Enabled /\ pubs[receipts[o]] # None
  <2> DEFINE r == receipts[o]
             new == [job[w] EXCEPT !.obj = o, !.todo = rest, !.run = r,
                                   !.payload = pubs[r].payload,
                                   !.status = pubs[r].status]
  <2>1. job' = [job EXCEPT ![w] = new] /\ lock' = [lock EXCEPT ![o] = w]
    BY <1>1, <1>6 DEF AcquireObject
  <2>2. pc'[w] = "publish"
    BY <1>1, <1>6 DEF AcquireObject, TypeInv, TypeOK
  <2>3. r \in Runs /\ pubs[r].payload \in Payloads /\ pubs[r].status \in Statuses
    BY <1>2, <1>6 DEF TypeInv, TypeOK, Publication
  <2>4. /\ new \in Job /\ new.msg = job[w].msg /\ new.obj = o
        /\ new.todo = rest /\ new.run = r
        /\ new.payload = pubs[r].payload /\ new.status = pubs[r].status
    BY <1>2, <1>4, <2>3, RecoveredJob DEF Job
  <2>5. job'[w] = new /\ job' \in [Workers -> Job]
    <3> HIDE DEF new
    <3> QED  BY <1>4, <2>1, <2>4
  <2> HIDE DEF new
  <2> QED  BY <1>1, <1>2, <1>3, <1>6, <2>1, <2>2, <2>3, <2>4, <2>5
<1>7. CASE receipts[o] # None /\ ~(R1Enabled /\ pubs[receipts[o]] # None)
  <2>1. /\ job' = [job EXCEPT ![w] = [job[w] EXCEPT !.todo = rest]]
        /\ lock' = lock
    BY <1>1, <1>7 DEF AcquireObject
  <2>2. /\ pc'[w] \in {"acquire", "delete"}
        /\ pc'[w] = "delete" => rest = {}
    BY <1>1, <1>7 DEF AcquireObject, TypeInv, TypeOK
  <2>3. /\ [job[w] EXCEPT !.todo = rest] \in Job
        /\ [job[w] EXCEPT !.todo = rest].msg = job[w].msg
        /\ [job[w] EXCEPT !.todo = rest].todo = rest
    BY <1>4 DEF Job
  <2> QED  BY <1>1, <1>2, <1>3, <1>4, <1>7, <2>1, <2>2, <2>3
<1> QED  BY <1>5, <1>6, <1>7

LEMMA AllocateEffect ==
    ASSUME TypeInv, NEW w \in Workers, AllocateIdentifiers(w)
    PROVE  /\ job' \in [Workers -> Job]
           /\ job'[w].msg = job[w].msg
           /\ job'[w].obj = job[w].obj
           /\ job'[w].todo = job[w].todo
           /\ job'[w].run \in Runs
           /\ \A v \in Workers \ {w} : job'[v] = job[v]
<1>1. PICK r \in FreeRuns :
        job' = [job EXCEPT ![w] = [job[w] EXCEPT !.run = r, !.exec = execs + 1]]
  BY DEF AllocateIdentifiers
<1>2. r \in Runs
  BY DEF FreeRuns
<1> DEFINE new == [job[w] EXCEPT !.run = r, !.exec = execs + 1]
<1>3. job \in [Workers -> Job] /\ job[w] \in Job /\ execs + 1 \in Nat
  BY DEF TypeInv, TypeOK
<1>4. /\ new \in Job /\ new.msg = job[w].msg /\ new.obj = job[w].obj
      /\ new.todo = job[w].todo /\ new.run = r
  BY <1>2, <1>3, AllocatedJob DEF Job
<1>5. job' = [job EXCEPT ![w] = new]
  BY <1>1
<1> HIDE DEF new
<1> QED  BY <1>2, <1>3, <1>4, <1>5

LEMMA PersistEffect ==
    ASSUME TypeInv, NEW w \in Workers, Persist(w)
    PROVE  /\ job' \in [Workers -> Job]
           /\ job'[w].msg = job[w].msg
           /\ job'[w].obj = job[w].obj
           /\ job'[w].run = job[w].run
           /\ job'[w].todo = job[w].todo
           /\ job'[w].writes = (runs[job[w].run] = None)
           /\ \A v \in Workers \ {w} : job'[v] = job[v]
<1> DEFINE new == [job[w] EXCEPT !.writes = (runs[job[w].run] = None)]
<1>1. job' = [job EXCEPT ![w] = new]
  BY DEF Persist
<1>2. job \in [Workers -> Job]
  BY DEF TypeInv, TypeOK
<1>3. /\ new \in Job /\ new.msg = job[w].msg /\ new.obj = job[w].obj
      /\ new.run = job[w].run /\ new.todo = job[w].todo
      /\ new.writes = (runs[job[w].run] = None)
  BY <1>2 DEF Job
<1> HIDE DEF new
<1> QED  BY <1>1, <1>2, <1>3

LEMMA SaveEffect ==
    ASSUME TypeInv, NEW w \in Workers, SaveSuccess(w)
    PROVE  /\ pc[w] = "commit"
           /\ job' \in [Workers -> Job]
           /\ job'[w].msg = job[w].msg
           /\ job'[w].obj = job[w].obj
           /\ job'[w].run = job[w].run
           /\ job'[w].todo = job[w].todo
           /\ R1Enabled => /\ pubs'[job[w].run] # None
                           /\ pubs'[job[w].run] \in Publication
                           /\ job'[w].payload = pubs'[job[w].run].payload
                           /\ job'[w].status = pubs'[job[w].run].status
           /\ \A v \in Workers \ {w} : job'[v] = job[v]
<1>1. pc[w] = "commit" /\ job[w].run \in Runs /\ job[w].obj \in Objects
  BY DEF SaveSuccess, TypeInv, JobShape
<1>2. pubs' \in [Runs -> Publication \cup {None}]
  BY <1>1, CommitWritesTyped DEF SaveSuccess
<1>3. R1Enabled => pubs'[job[w].run] # None
  <2>1. [status |-> "pending", payload |-> Payload[job[w].obj]] \in Publication
    BY <1>1 DEF Publication, Statuses, Payloads
  <2> QED
    BY <1>1, <1>2, <2>1, NoneIsNoRow
       DEF SaveSuccess, CommitWrites, TypeInv, TypeOK
<1>4. R1Enabled => /\ pubs'[job[w].run] \in Publication
                   /\ pubs'[job[w].run].payload \in Payloads
                   /\ pubs'[job[w].run].status \in Statuses
  BY <1>1, <1>2, <1>3 DEF Publication
<1> DEFINE r == job[w].run
           new == [job[w] EXCEPT !.fresh = TRUE, !.payload = pubs'[r].payload,
                                 !.status = pubs'[r].status]
           plain == [job[w] EXCEPT !.fresh = TRUE]
<1>5. job \in [Workers -> Job] /\ job[w] \in Job
  BY DEF TypeInv, TypeOK
<1>6. CASE R1Enabled
  <2>1. job' = [job EXCEPT ![w] = new]
    BY <1>6 DEF SaveSuccess
  <2>2. /\ new \in Job /\ new.msg = job[w].msg /\ new.obj = job[w].obj
        /\ new.run = job[w].run /\ new.todo = job[w].todo
        /\ new.payload = pubs'[r].payload /\ new.status = pubs'[r].status
    BY <1>4, <1>5, <1>6, SavedJob DEF Job
  <2>3. /\ job' \in [Workers -> Job] /\ job'[w] = new
        /\ \A v \in Workers \ {w} : job'[v] = job[v]
    <3> HIDE DEF new
    <3> QED  BY <1>5, <2>1, <2>2
  <2> HIDE DEF new
  <2> QED  BY <1>1, <1>3, <1>4, <1>6, <2>2, <2>3
<1>7. CASE ~R1Enabled
  <2>1. job' = [job EXCEPT ![w] = plain]
    BY <1>7 DEF SaveSuccess
  <2>2. /\ plain \in Job /\ plain.msg = job[w].msg /\ plain.obj = job[w].obj
        /\ plain.run = job[w].run /\ plain.todo = job[w].todo
    BY <1>5 DEF Job
  <2> HIDE DEF plain
  <2> QED  BY <1>1, <1>5, <1>7, <2>1, <2>2
<1> QED  BY <1>6, <1>7

\* Every step preserves TypeInv; one step per action.
LEMMA TypeStep == TypeInv /\ [Next]_vars => TypeInv'
<1> SUFFICES ASSUME TypeInv, [Next]_vars PROVE TypeInv'
  OBVIOUS
<1>1. ASSUME NEW w \in Workers, NEW m \in Messages, ReceiveMessage(w, m)
      PROVE  TypeInv'
  <2>1. rcv' \in [Messages -> 0..MaxReceive]
    BY <1>1, ConstantsAssumption DEF ReceiveMessage, Receivable, TypeInv, TypeOK
  <2>2. CASE m \in Malformed
    BY <1>1, <2>1, <2>2
       DEF ReceiveMessage, TypeInv, TypeOK, JobShape, dbVars, lockVars
  <2>3. CASE m \notin Malformed
    <3> DEFINE new == [NoJob EXCEPT !.msg = m, !.tok = rcv[m] + 1,
                                    !.todo = Records[m]]
    <3>1. new \in Job /\ new.msg = m
      <4>1. rcv[m] + 1 \in Nat /\ Records[m] \in SUBSET Objects
        BY ConstantsAssumption DEF TypeInv, TypeOK
      <4> QED  BY <4>1, ReceivedJob DEF NoJob
    <3>2. pc' \in [Workers -> PCs] /\ pc'[w] \in {"delete", "acquire"}
      BY <1>1, <2>3 DEF ReceiveMessage, TypeInv, TypeOK, PCs
    <3>3. job' = [job EXCEPT ![w] = new]
      BY <1>1, <2>3 DEF ReceiveMessage
    <3>4. \A v \in Workers \ {w} : pc'[v] = pc[v]
      BY <1>1, <2>3 DEF ReceiveMessage, TypeInv, TypeOK
    <3> HIDE DEF new
    <3> QED
      BY <1>1, <2>1, <3>1, <3>2, <3>3, <3>4
         DEF ReceiveMessage, TypeInv, TypeOK, JobShape, dbVars, lockVars
  <2> QED  BY <2>2, <2>3
<1>2. ASSUME NEW m \in Messages, VisibilityTimeout(m) PROVE TypeInv'
  BY <1>2 DEF TypeInv, TypeOK, JobShape, VisibilityTimeout, dbVars, lockVars
<1>3. ASSUME NEW m \in Messages, Redrive(m) PROVE TypeInv'
  BY <1>3 DEF TypeInv, TypeOK, JobShape, Redrive, dbVars, lockVars
<1>4. ASSUME NEW w \in Workers, DeleteMessage(w) PROVE TypeInv'
  BY <1>4 DEF TypeInv, TypeOK, JobShape, DeleteMessage, NoJob, Job, PCs,
     dbVars, lockVars
<1>5. ASSUME NEW w \in Workers, AcquireExecution(w) PROVE TypeInv'
  BY <1>5, AcquireEffect
     DEF AcquireExecution, TypeInv, TypeOK, JobShape, Publication, queueVars,
         dbVars
<1>6. ASSUME NEW w \in Workers, DownloadFails(w) PROVE TypeInv'
  BY <1>6, RetainTyped DEF TypeInv, TypeOK, JobShape, DownloadFails,
     queueVars, dbVars
<1>7. ASSUME NEW w \in Workers, AllocateIdentifiers(w) PROVE TypeInv'
  <2>1. /\ pc[w] = "execute"
        /\ pc' = [pc EXCEPT ![w] = "stages"]
        /\ execs' = execs + 1
        /\ UNCHANGED <<queueVars, dbVars, runtime, lockVars, archive, crashes>>
    BY <1>7 DEF AllocateIdentifiers
  <2>2. pc' \in [Workers -> PCs] /\ execs' \in Nat
    BY <2>1 DEF TypeInv, TypeOK, PCs
  <2> QED
    BY <1>7, <2>1, <2>2, AllocateEffect
       DEF TypeInv, TypeOK, JobShape, queueVars, dbVars, lockVars
<1>8. ASSUME NEW w \in Workers, AllocationExhausted(w) PROVE TypeInv'
  BY <1>8, RetainTyped DEF TypeInv, TypeOK, JobShape, AllocationExhausted,
     queueVars, dbVars
<1>9. ASSUME NEW w \in Workers, RunStages(w) PROVE TypeInv'
  BY <1>9, SaveRuntimeTyped DEF TypeInv, TypeOK, JobShape, RunStages, PCs,
     States, queueVars, dbVars, lockVars
<1>10. ASSUME NEW w \in Workers, StageFails(w) PROVE TypeInv'
  BY <1>10, RetainTyped, SaveRuntimeTyped DEF TypeInv, TypeOK, JobShape,
     StageFails, States, queueVars, dbVars
<1>11. ASSUME NEW w \in Workers, ArchiveGenerationFails(w) PROVE TypeInv'
  BY <1>11, RetainTyped DEF TypeInv, TypeOK, JobShape,
     ArchiveGenerationFails, queueVars, dbVars
<1>12. ASSUME NEW w \in Workers, Persist(w) PROVE TypeInv'
  <2>1. dlock' \in [Runs -> Workers \cup {None}]
    BY <1>12 DEF Persist, TypeInv, TypeOK
  <2>2. /\ pc[w] = "persist" /\ pc' = [pc EXCEPT ![w] = "commit"]
        /\ UNCHANGED <<queueVars, dbVars, runtime, lock, archive, execs, crashes>>
    BY <1>12 DEF Persist
  <2>3. pc' \in [Workers -> PCs]
    BY <2>2 DEF TypeInv, TypeOK, PCs
  <2>4. JobShape'
    BY <1>12, <2>2, PersistEffect DEF TypeInv, TypeOK, JobShape, dbVars
  <2> QED
    BY <1>12, <2>1, <2>2, <2>3, <2>4, PersistEffect
       DEF TypeInv, TypeOK, queueVars, dbVars
<1>13. ASSUME NEW w \in Workers, PersistConflict(w) PROVE TypeInv'
  BY <1>13, RetainTyped, SaveRuntimeTyped DEF TypeInv, TypeOK, JobShape,
     PersistConflict, States, queueVars, dbVars
<1>14. ASSUME NEW w \in Workers, SavePendingConflict(w) PROVE TypeInv'
  BY <1>14, RetainTyped, SaveRuntimeTyped DEF TypeInv, TypeOK, JobShape,
     SavePendingConflict, States, queueVars, dbVars
<1>15. ASSUME NEW w \in Workers, SaveSuccess(w) PROVE TypeInv'
  <2>1. /\ runs' \in [Runs -> Objects \cup {None}]
        /\ pubs' \in [Runs -> Publication \cup {None}]
        /\ receipts' \in [Objects -> Runs \cup {None}]
        /\ \A r \in Runs : pubs[r] # None => pubs'[r] # None
    BY <1>15, CommitWritesTyped DEF SaveSuccess
  <2>2. /\ lock' \in [Objects -> Workers \cup {None}]
        /\ dlock' \in [Runs -> Workers \cup {None}]
    BY <1>15 DEF SaveSuccess, ReleaseLocks, TypeInv, TypeOK
  <2>3. /\ pc' \in [Workers -> PCs]
        /\ pc'[w] = IF R1Enabled THEN "publish" ELSE "complete"
        /\ \A v \in Workers \ {w} : pc'[v] = pc[v]
    BY <1>15 DEF SaveSuccess, TypeInv, TypeOK, PCs
  <2>4. JobShape'
    BY <1>15, <2>1, <2>3, SaveEffect DEF TypeInv, JobShape, Publication
  <2> QED
    BY <1>15, <2>1, <2>2, <2>3, <2>4, SaveEffect
       DEF SaveSuccess, TypeInv, TypeOK, queueVars
<1>16. ASSUME NEW w \in Workers, SaveSuccessFails(w) PROVE TypeInv'
  BY <1>16, RetainTyped, SaveRuntimeTyped, CommitWritesTyped DEF TypeInv,
     TypeOK, JobShape, SaveSuccessFails, States, queueVars, dbVars
<1>17. ASSUME NEW w \in Workers, RefuseFailedPublication(w) PROVE TypeInv'
  BY <1>17, RetainTyped, SaveRuntimeTyped DEF TypeInv, TypeOK, JobShape,
     RefuseFailedPublication, PublicationRejected, States, queueVars, dbVars
<1>18. ASSUME NEW w \in Workers, StartPublication(w) PROVE TypeInv'
  BY <1>18 DEF TypeInv, TypeOK, JobShape, StartPublication, PCs, queueVars,
     dbVars, lockVars
<1>19. ASSUME NEW w \in Workers, PutObject(w) PROVE TypeInv'
  BY <1>19, UploadTyped DEF TypeInv, TypeOK, JobShape, PutObject, AfterPut,
     PCs, queueVars, dbVars, lockVars
<1>20. ASSUME NEW w \in Workers, PutConflict(w) PROVE TypeInv'
  BY <1>20, RetainTyped, SaveRuntimeTyped, RecordFailureTyped DEF TypeInv,
     TypeOK, JobShape, PutConflict, PublicationRejected, States, Statuses,
     queueVars
<1>21. ASSUME NEW w \in Workers, PutFails(w) PROVE TypeInv'
  BY <1>21, RetainTyped, RecordFailureTyped, UploadTyped DEF TypeInv,
     TypeOK, JobShape, PutFails, Statuses, queueVars
<1>22. ASSUME NEW w \in Workers, MarkPublished(w) PROVE TypeInv'
  BY <1>22, MarkWritesTyped, NextInputTyped DEF TypeInv, TypeOK, JobShape,
     MarkPublished, ReleaseLocks, PCs, queueVars
<1>23. ASSUME NEW w \in Workers, MarkPublishedFails(w) PROVE TypeInv'
  BY <1>23, MarkWritesTyped, RetainTyped DEF TypeInv, TypeOK, JobShape,
     MarkPublishedFails, queueVars
<1>24. ASSUME NEW w \in Workers, CompleteRuntime(w) PROVE TypeInv'
  BY <1>24, SaveRuntimeTyped, NextInputTyped DEF TypeInv, TypeOK, JobShape,
     CompleteRuntime, States, queueVars, dbVars, lockVars
<1>25. ASSUME NEW w \in Workers, Crash(w) PROVE TypeInv'
  BY <1>25, RetainTyped, ConstantsAssumption
     DEF TypeInv, TypeOK, JobShape, Crash, queueVars, dbVars
<1>26. CASE UNCHANGED vars
  BY <1>26 DEF vars, TypeInv, TypeOK, JobShape
<1> QED
  BY <1>1, <1>2, <1>3, <1>4, <1>5, <1>6, <1>7, <1>8, <1>9, <1>10, <1>11,
     <1>12, <1>13, <1>14, <1>15, <1>16, <1>17, <1>18, <1>19, <1>20, <1>21,
     <1>22, <1>23, <1>24, <1>25, <1>26 DEF Next, Step, Queue

\* TypeOK: every store and every Worker of FirstCycleWorker holds values of
\* its kind in every reachable state.
THEOREM TypeCorrect == Spec => []TypeOK
<1>1. Init => TypeInv  BY TypeInit
<1>2. TypeInv /\ [Next]_vars => TypeInv'  BY TypeStep
<1> QED  BY <1>1, <1>2, PTL DEF Spec, TypeInv

LEMMA TypeInvariant == Spec => []TypeInv
  BY TypeInit, TypeStep, PTL DEF Spec

-----------------------------------------------------------------------------
(***************************************************************************)
(* The receipt protocol: locks, receipts, runs                             *)
(***************************************************************************)

\* Releasing a Worker's locks keeps every other Worker's.
LEMMA ReleaseOwnOnly ==
    ASSUME TypeInv, NEW w \in Workers, ReleaseLocks(w)
    PROVE  /\ \A o \in Objects : lock[o] # w => lock'[o] = lock[o]
           /\ \A r \in Runs : dlock[r] # w => dlock'[r] = dlock[r]
  BY DEF TypeInv, TypeOK, ReleaseLocks

\* Between acquire and commit a Worker writes nothing another Worker's
\* execution rests on; leaving the message does not either.
LEMMA RetainKeepsExecution ==
    ASSUME TypeInv, Execution, NEW w \in Workers, Retain(w),
           UNCHANGED <<receipts, runs>>
    PROVE  Execution'
<1>1. \A v \in Workers : pc'[v] # "idle" =>
          v # w /\ pc'[v] = pc[v] /\ job'[v] = job[v]
  BY RetainTyped
<1>2. /\ \A o \in Objects : lock[o] # w => lock'[o] = lock[o]
      /\ \A r \in Runs : dlock[r] # w => dlock'[r] = dlock[r]
  BY ReleaseOwnOnly DEF Retain
<1> QED  BY <1>1, <1>2 DEF TypeInv, JobShape, Execution, SameDecision

\* Committing under the object's lock and the run's lock.
LEMMA CommitKeepsExecution ==
    ASSUME TypeInv, Execution, NEW w \in Workers, pc[w] = "commit",
           CommitWrites(w), ReleaseLocks(w), pc'[w] \notin Executing,
           \A v \in Workers \ {w} : pc'[v] = pc[v] /\ job'[v] = job[v]
    PROVE  Execution'
<1> DEFINE r == job[w].run
           o == job[w].obj
<1>1. /\ r \in Runs /\ o \in Objects
      /\ lock[o] = w /\ dlock[r] = w /\ receipts[o] = None
      /\ job[w].writes <=> runs[r] = None
  BY DEF TypeInv, JobShape, Execution
<1>2. /\ \A q \in Objects : lock[q] # w => lock'[q] = lock[q]
      /\ \A q \in Runs : dlock[q] # w => dlock'[q] = dlock[q]
  BY ReleaseOwnOnly
<1>3. /\ receipts'[o] = r /\ r # None
      /\ \A q \in Objects \ {o} : receipts'[q] = receipts[q]
  BY <1>1, ConstantsAssumption DEF CommitWrites, TypeInv, TypeOK
<1>4. /\ \A q \in Runs \ {r} : runs'[q] = runs[q]
      /\ runs[r] # None => runs'[r] = runs[r]
      /\ runs'[r] \in {runs[r], o}
  BY <1>1 DEF CommitWrites, TypeInv, TypeOK
<1> HIDE DEF r, o
<1>5. ASSUME NEW v \in Workers, pc'[v] \in Executing
      PROVE  lock'[job'[v].obj] = v /\ receipts'[job'[v].obj] = None
  <2>1. v # w /\ pc[v] \in Executing /\ job'[v] = job[v]
    BY <1>5
  <2>2. job[v].obj \in Objects /\ lock[job[v].obj] = v
    BY <2>1 DEF TypeInv, JobShape, Execution
  <2>3. receipts[job[v].obj] = None /\ job[v].obj # o
    BY <1>1, <2>1, <2>2 DEF Execution
  <2> QED  BY <1>2, <1>3, <2>1, <2>2, <2>3
<1>6. ASSUME NEW v \in Workers, pc'[v] = "commit"
      PROVE  /\ dlock'[job'[v].run] = v
             /\ job'[v].writes <=> runs'[job'[v].run] = None
             /\ runs'[job'[v].run] # None =>
                   SameDecision(runs'[job'[v].run], job'[v].obj)
  <2>1. v # w /\ pc[v] = "commit" /\ job'[v] = job[v]
    BY <1>6
  <2>2. job[v].run \in Runs /\ dlock[job[v].run] = v /\ job[v].run # r
    BY <1>1, <2>1 DEF TypeInv, JobShape, Execution
  <2> QED  BY <1>2, <1>4, <2>1, <2>2 DEF Execution
<1>7. ASSUME NEW q \in Runs, runs'[q] # None
      PROVE  receipts'[runs'[q]] # None
  BY <1>3, <1>4, <1>7, ConstantsAssumption DEF Execution, TypeInv, TypeOK
<1> QED  BY <1>5, <1>6, <1>7 DEF Execution, SameDecision

\* The execution facts are inductive.
LEMMA ExecutionStep == TypeInv /\ Execution /\ [Next]_vars => Execution'
<1> SUFFICES ASSUME TypeInv, Execution, [Next]_vars PROVE Execution'
  OBVIOUS
<1>1. ASSUME NEW w \in Workers, NEW m \in Messages, ReceiveMessage(w, m)
      PROVE  Execution'
  BY <1>1 DEF ReceiveMessage, NoJob, dbVars, lockVars, SameDecision,
           TypeInv, TypeOK, JobShape, Execution
<1>2. ASSUME NEW m \in Messages, VisibilityTimeout(m) PROVE Execution'
  BY <1>2 DEF VisibilityTimeout, dbVars, lockVars, SameDecision, Execution
<1>3. ASSUME NEW m \in Messages, Redrive(m) PROVE Execution'
  BY <1>3 DEF Redrive, dbVars, lockVars, SameDecision, Execution
<1>4. ASSUME NEW w \in Workers, DownloadFails(w) PROVE Execution'
  BY <1>4, RetainKeepsExecution DEF DownloadFails, dbVars
<1>5. ASSUME NEW w \in Workers, AllocationExhausted(w) PROVE Execution'
  BY <1>5, RetainKeepsExecution DEF AllocationExhausted, dbVars
<1>6. ASSUME NEW w \in Workers, StageFails(w) PROVE Execution'
  BY <1>6, RetainKeepsExecution DEF StageFails, dbVars
<1>7. ASSUME NEW w \in Workers, ArchiveGenerationFails(w) PROVE Execution'
  BY <1>7, RetainKeepsExecution DEF ArchiveGenerationFails, dbVars
<1>8. ASSUME NEW w \in Workers, PersistConflict(w) PROVE Execution'
  BY <1>8, RetainKeepsExecution DEF PersistConflict, dbVars
<1>9. ASSUME NEW w \in Workers, SavePendingConflict(w) PROVE Execution'
  BY <1>9, RetainKeepsExecution DEF SavePendingConflict, dbVars
<1>10. ASSUME NEW w \in Workers, RefuseFailedPublication(w) PROVE Execution'
  BY <1>10, RetainKeepsExecution DEF RefuseFailedPublication, PublicationRejected, dbVars
<1>11. ASSUME NEW w \in Workers, PutConflict(w) PROVE Execution'
  BY <1>11, RetainKeepsExecution DEF PutConflict, PublicationRejected, dbVars
<1>12. ASSUME NEW w \in Workers, PutFails(w) PROVE Execution'
  BY <1>12, RetainKeepsExecution DEF PutFails, dbVars
<1>13. ASSUME NEW w \in Workers, MarkPublishedFails(w) PROVE Execution'
  BY <1>13, RetainKeepsExecution DEF MarkPublishedFails, dbVars
<1>14. ASSUME NEW w \in Workers, Crash(w) PROVE Execution'
  BY <1>14, RetainKeepsExecution DEF Crash, dbVars
<1>15. ASSUME NEW w \in Workers, DeleteMessage(w) PROVE Execution'
  BY <1>15 DEF DeleteMessage, NoJob, dbVars, lockVars, SameDecision, TypeInv,
     TypeOK, JobShape, Execution
<1>16. ASSUME NEW w \in Workers, RunStages(w) PROVE Execution'
  BY <1>16 DEF RunStages, dbVars, lockVars, SameDecision, TypeInv, TypeOK,
     JobShape, Execution
<1>17. ASSUME NEW w \in Workers, StartPublication(w) PROVE Execution'
  BY <1>17 DEF StartPublication, dbVars, lockVars, SameDecision, TypeInv,
     TypeOK, JobShape, Execution
<1>18. ASSUME NEW w \in Workers, PutObject(w) PROVE Execution'
  BY <1>18 DEF PutObject, AfterPut, dbVars, lockVars, SameDecision, TypeInv,
     TypeOK, JobShape, Execution
<1>19. ASSUME NEW w \in Workers, CompleteRuntime(w) PROVE Execution'
  BY <1>19 DEF CompleteRuntime, NextInput, NoJob, dbVars, lockVars,
     SameDecision, TypeInv, TypeOK, JobShape, Execution
<1>20. ASSUME NEW w \in Workers, AcquireExecution(w) PROVE Execution'
  <2>1. UNCHANGED <<receipts, runs, dlock>>
    BY <1>20 DEF AcquireExecution, dbVars
  <2>2. \A v \in Workers : pc'[v] \in Executing /\ v # w =>
            lock'[job'[v].obj] = v
    BY <1>20, AcquireEffect, ConstantsAssumption
       DEF TypeInv, TypeOK, JobShape, Execution, LockFree
  <2>3. pc'[w] \in Executing => /\ pc'[w] = "execute"
                                /\ lock'[job'[w].obj] = w
                                /\ receipts[job'[w].obj] = None
    BY <1>20, AcquireEffect DEF TypeInv, TypeOK
  <2>4. \A v \in Workers \ {w} : pc'[v] = pc[v] /\ job'[v] = job[v]
    BY <1>20, AcquireEffect
  <2> QED  BY <2>1, <2>2, <2>3, <2>4 DEF Execution, SameDecision
<1>21. ASSUME NEW w \in Workers, AllocateIdentifiers(w) PROVE Execution'
  <2>1. UNCHANGED <<receipts, runs, lock, dlock>>
    BY <1>21 DEF AllocateIdentifiers, dbVars, lockVars
  <2>2. /\ pc[w] = "execute" /\ pc'[w] = "stages"
        /\ \A v \in Workers \ {w} : pc'[v] = pc[v]
    BY <1>21 DEF AllocateIdentifiers, TypeInv, TypeOK
  <2> QED  BY <1>21, <2>1, <2>2, AllocateEffect DEF Execution, SameDecision
<1>22. ASSUME NEW w \in Workers, Persist(w) PROVE Execution'
  <2> DEFINE r == job[w].run
  <2>1. /\ UNCHANGED <<receipts, runs, lock>>
        /\ dlock[r] = None /\ dlock' = [dlock EXCEPT ![r] = w]
        /\ runs[r] # None => SameDecision(runs[r], job[w].obj)
    BY <1>22 DEF Persist, dbVars
  <2>2. /\ pc[w] = "persist" /\ pc'[w] = "commit"
        /\ \A v \in Workers \ {w} : pc'[v] = pc[v]
    BY <1>22 DEF Persist, TypeInv, TypeOK
  <2>3. r \in Runs /\ dlock \in [Runs -> Workers \cup {None}]
    BY <2>2 DEF TypeInv, TypeOK, JobShape
  <2>4. dlock'[r] = w /\ \A q \in Runs \ {r} : dlock'[q] = dlock[q]
    BY <2>1, <2>3
  <2>5. ASSUME NEW v \in Workers \ {w}, pc[v] = "commit"
        PROVE  job[v].run \in Runs \ {r}
    BY <2>1, <2>5, ConstantsAssumption DEF TypeInv, JobShape, Execution
  <2>6. /\ job'[w].run = r /\ job'[w].obj = job[w].obj
        /\ job'[w].writes <=> runs'[r] = None
        /\ \A v \in Workers \ {w} : job'[v] = job[v]
    BY <1>22, <2>1, PersistEffect
  <2>7. \A v \in Workers : pc'[v] \in Executing =>
            lock'[job'[v].obj] = v /\ receipts'[job'[v].obj] = None
    BY <2>1, <2>2, <2>6 DEF Execution
  <2>8. \A v \in Workers \ {w} : pc'[v] = "commit" =>
            /\ dlock'[job'[v].run] = v
            /\ job'[v].writes <=> runs'[job'[v].run] = None
            /\ runs'[job'[v].run] # None =>
                  SameDecision(runs'[job'[v].run], job'[v].obj)
    BY <2>1, <2>2, <2>4, <2>5, <2>6 DEF Execution
  <2> QED
    BY <2>1, <2>4, <2>6, <2>7, <2>8 DEF Execution, SameDecision
<1>23. ASSUME NEW w \in Workers, SaveSuccess(w) PROVE Execution'
  <2>1. /\ pc[w] = "commit" /\ pc'[w] \notin Executing
        /\ \A v \in Workers \ {w} : pc'[v] = pc[v]
    BY <1>23 DEF SaveSuccess, TypeInv, TypeOK
  <2> QED  BY <1>23, <2>1, SaveEffect, CommitKeepsExecution DEF SaveSuccess
<1>24. ASSUME NEW w \in Workers, SaveSuccessFails(w) PROVE Execution'
  <2>1. CASE UNCHANGED dbVars
    BY <1>24, <2>1, RetainKeepsExecution DEF SaveSuccessFails, dbVars
  <2>2. CASE CommitWrites(w)
    BY <1>24, <2>2, RetainTyped, CommitKeepsExecution DEF SaveSuccessFails, Retain
  <2> QED  BY <1>24, <2>1, <2>2 DEF SaveSuccessFails
<1>25. ASSUME NEW w \in Workers, MarkPublished(w) PROVE Execution'
  <2>1. /\ pc[w] = "mark" /\ ReleaseLocks(w) /\ UNCHANGED <<receipts, runs>>
    BY <1>25 DEF MarkPublished
  <2>2. /\ pc'[w] \notin Executing
        /\ \A v \in Workers \ {w} : pc'[v] = pc[v] /\ job'[v] = job[v]
    <3>1. CASE job[w].fresh
      BY <1>25, <3>1 DEF MarkPublished, TypeInv, TypeOK
    <3>2. CASE ~job[w].fresh
      BY <1>25, <2>1, <3>2, NextInputTyped DEF MarkPublished
    <3> QED  BY <3>1, <3>2
  <2>3. /\ \A o \in Objects : lock[o] # w => lock'[o] = lock[o]
        /\ \A r \in Runs : dlock[r] # w => dlock'[r] = dlock[r]
    BY <2>1, ReleaseOwnOnly
  <2> QED  BY <2>1, <2>2, <2>3 DEF TypeInv, JobShape, Execution, SameDecision
<1>26. CASE UNCHANGED vars
  BY <1>26 DEF vars, SameDecision, Execution
<1> QED
  BY <1>1, <1>2, <1>3, <1>4, <1>5, <1>6, <1>7, <1>8, <1>9, <1>10, <1>11,
     <1>12, <1>13, <1>14, <1>15, <1>16, <1>17, <1>18, <1>19, <1>20, <1>21,
     <1>22, <1>23, <1>24, <1>25, <1>26 DEF Next, Step, Queue

LEMMA ExecutionInvariant == Spec => []Execution
<1>1. Init => Execution
  BY DEF Init, Execution
<1> QED  BY <1>1, ExecutionStep, TypeInvariant, PTL DEF Spec

\* What a commit adds to the receipts and runs.
LEMMA CommitEffect ==
    ASSUME TypeInv, Execution, NEW w \in Workers, pc[w] = "commit",
           CommitWrites(w)
    PROVE  LET r == job[w].run
               o == job[w].obj
           IN  /\ r \in Runs /\ o \in Objects
               /\ receipts[o] = None /\ receipts'[o] = r
               /\ \A q \in Objects \ {o} : receipts'[q] = receipts[q]
               /\ \A q \in Runs \ {r} : runs'[q] = runs[q]
               /\ runs[r] = None => runs'[r] = o
               /\ runs[r] # None => runs'[r] = runs[r] /\ SameDecision(runs[r], o)
<1>1. /\ job[w].run \in Runs /\ job[w].obj \in Objects
      /\ receipts[job[w].obj] = None
      /\ job[w].writes <=> runs[job[w].run] = None
      /\ runs[job[w].run] # None => SameDecision(runs[job[w].run], job[w].obj)
  BY DEF TypeInv, JobShape, Execution
<1>2. /\ runs \in [Runs -> Objects \cup {None}]
      /\ receipts \in [Objects -> Runs \cup {None}]
  BY DEF TypeInv, TypeOK
<1> QED  BY <1>1, <1>2 DEF CommitWrites

\* Only the commit of save_success writes receipts or runs.
LEMMA OnlyCommitsWrite ==
    ASSUME [Next]_vars
    PROVE  \/ UNCHANGED <<receipts, runs>>
           \/ \E w \in Workers : pc[w] = "commit" /\ CommitWrites(w)
<1>1. ASSUME NEW w \in Workers, Step(w), ~SaveSuccess(w), ~SaveSuccessFails(w)
      PROVE  UNCHANGED <<receipts, runs>>
  BY <1>1 DEF Step, dbVars, ReceiveMessage, DownloadFails, AllocationExhausted,
     StageFails, ArchiveGenerationFails, PersistConflict,
     SavePendingConflict, RefuseFailedPublication, PutConflict, PutFails,
     MarkPublishedFails, DeleteMessage, RunStages, StartPublication,
     PutObject, CompleteRuntime, AcquireExecution, AllocateIdentifiers,
     Persist, MarkPublished
<1>2. ASSUME NEW w \in Workers, SaveSuccess(w) \/ SaveSuccessFails(w)
      PROVE  \/ UNCHANGED <<receipts, runs>>
             \/ pc[w] = "commit" /\ CommitWrites(w)
  BY <1>2 DEF SaveSuccess, SaveSuccessFails, dbVars
<1>3. ASSUME NEW w \in Workers, Crash(w) PROVE UNCHANGED <<receipts, runs>>
  BY <1>3 DEF Crash, dbVars
<1>4. ASSUME NEW m \in Messages, Queue(m) PROVE UNCHANGED <<receipts, runs>>
  BY <1>4 DEF Queue, VisibilityTimeout, Redrive, dbVars
<1>5. CASE UNCHANGED vars
  BY <1>5 DEF vars
<1> QED  BY <1>1, <1>2, <1>3, <1>4, <1>5 DEF Next

LEMMA ReceiptsGrow ==
    ASSUME TypeInv, Execution, [Next]_vars
    PROVE  \A o \in Objects : receipts[o] # None => receipts'[o] = receipts[o]
<1>1. CASE UNCHANGED <<receipts, runs>>
  BY <1>1
<1>2. ASSUME NEW w \in Workers, pc[w] = "commit", CommitWrites(w)
      PROVE  \A o \in Objects : receipts[o] # None => receipts'[o] = receipts[o]
  BY <1>2, CommitEffect
<1> QED  BY <1>1, <1>2, OnlyCommitsWrite

\* AtMostOneRunPerObject: however often an object version is announced, and
\* whatever fails or crashes, its results are persisted under one run at most.
THEOREM OneRunPerObject == Spec => []AtMostOneRunPerObject
<1>1. Init => AtMostOneRunPerObject
  BY DEF Init, AtMostOneRunPerObject
<1>2. TypeInv /\ Execution /\ AtMostOneRunPerObject /\ [Next]_vars
        => AtMostOneRunPerObject'
  <2> SUFFICES ASSUME TypeInv, Execution, AtMostOneRunPerObject, [Next]_vars
               PROVE  AtMostOneRunPerObject'
    OBVIOUS
  <2>1. CASE UNCHANGED <<receipts, runs>>
    BY <2>1 DEF AtMostOneRunPerObject
  <2>2. ASSUME NEW w \in Workers, pc[w] = "commit", CommitWrites(w)
        PROVE  AtMostOneRunPerObject'
    <3>1. \A q \in Runs : runs[q] # None => runs[q] # job[w].obj
      BY <2>2, CommitEffect DEF Execution
    <3> QED  BY <2>2, <3>1, CommitEffect DEF AtMostOneRunPerObject
  <2> QED  BY <2>1, <2>2, OnlyCommitsWrite
<1> QED
  BY <1>1, <1>2, TypeInvariant, ExecutionInvariant, PTL DEF Spec

\* ReceiptNamesDecision: a receipt never names an absent run, nor one that
\* holds another host's or another verdict's decision.
THEOREM ReceiptsNameDecisions == Spec => []ReceiptNamesDecision
<1>1. Init => ReceiptNamesDecision
  BY DEF Init, ReceiptNamesDecision
<1>2. TypeInv /\ Execution /\ ReceiptNamesDecision /\ [Next]_vars
        => ReceiptNamesDecision'
  <2> SUFFICES ASSUME TypeInv, Execution, ReceiptNamesDecision, [Next]_vars
               PROVE  ReceiptNamesDecision'
    OBVIOUS
  <2>1. CASE UNCHANGED <<receipts, runs>>
    BY <2>1 DEF ReceiptNamesDecision, SameDecision
  <2>2. ASSUME NEW w \in Workers, pc[w] = "commit", CommitWrites(w)
        PROVE  ReceiptNamesDecision'
    <3> SUFFICES ASSUME NEW o \in Objects, receipts'[o] # None
                 PROVE  /\ runs'[receipts'[o]] # None
                        /\ SameDecision(runs'[receipts'[o]], o)
      BY DEF ReceiptNamesDecision, SameDecision
    <3>1. CASE o = job[w].obj
      BY <2>2, <3>1, CommitEffect, ConstantsAssumption DEF SameDecision
    <3>2. CASE o # job[w].obj
      <4>1. receipts'[o] = receipts[o] /\ receipts[o] \in Runs
        BY <2>2, <3>2, CommitEffect DEF TypeInv, TypeOK
      <4>2. runs[receipts[o]] # None /\ SameDecision(runs[receipts[o]], o)
        BY <4>1 DEF ReceiptNamesDecision
      <4> QED  BY <2>2, <4>1, <4>2, CommitEffect
    <3> QED  BY <3>1, <3>2
  <2> QED  BY <2>1, <2>2, OnlyCommitsWrite
<1> QED
  BY <1>1, <1>2, TypeInvariant, ExecutionInvariant, PTL DEF Spec

-----------------------------------------------------------------------------
(***************************************************************************)
(* No upload is dropped                                                    *)
(***************************************************************************)

\* A step that moves one Worker keeps what Coverage says of the others.
LEMMA CoverageOfOthers ==
    ASSUME TypeInv, Execution, Coverage, [Next]_vars, NEW v \in Workers,
           pc'[v] = pc[v], job'[v] = job[v]
    PROVE  /\ pc'[v] # "idle" =>
                /\ job'[v].msg \notin Malformed
                /\ \A o \in Records[job'[v].msg] :
                      \/ o \in job'[v].todo
                      \/ pc'[v] \in Executing /\ o = job'[v].obj
                      \/ receipts'[o] # None
           /\ pc'[v] \in Committed => receipts'[job'[v].obj] # None
           /\ pc'[v] = "delete" => job'[v].todo = {}
<1>1. ASSUME pc[v] # "idle", NEW o \in Records[job[v].msg]
      PROVE  o \in Objects
  BY <1>1, ConstantsAssumption DEF TypeInv, JobShape
<1>2. pc[v] \in Committed => job[v].obj \in Objects
  BY DEF TypeInv, JobShape
<1> QED  BY <1>1, <1>2, ReceiptsGrow DEF Coverage

\* Leaving a message for the queue needs no coverage.
LEMMA RetainKeepsCoverage ==
    ASSUME TypeInv, Execution, Coverage, [Next]_vars, NEW w \in Workers, Retain(w)
    PROVE  Coverage'
<1>1. \A v \in Workers \ {w} : pc'[v] = pc[v] /\ job'[v] = job[v]
  BY RetainTyped
<1>2. pc'[w] = "idle"
  BY RetainTyped
<1> QED  BY <1>1, <1>2, CoverageOfOthers DEF Coverage

\* The loop over the inputs of a message leaves a receipted object behind.
LEMMA NextInputKeepsCoverage ==
    ASSUME TypeInv, Execution, Coverage, [Next]_vars, NEW w \in Workers,
           pc[w] \in Committed, NextInput(w)
    PROVE  Coverage'
<1>1. \A v \in Workers \ {w} : pc'[v] = pc[v] /\ job'[v] = job[v]
  BY NextInputTyped
<1>2. /\ pc'[w] = IF job[w].todo = {} THEN "delete" ELSE "acquire"
      /\ job'[w].msg = job[w].msg /\ job'[w].todo = job[w].todo
  BY DEF NextInput, NoJob, TypeInv, TypeOK
<1>3. \A o \in Records[job[w].msg] : o \in job[w].todo \/ receipts'[o] # None
  <2> SUFFICES ASSUME NEW o \in Records[job[w].msg], o \notin job[w].todo
               PROVE  receipts'[o] # None
    OBVIOUS
  <2>1. o \in Objects /\ receipts[o] # None
    BY ConstantsAssumption DEF Coverage, TypeInv, JobShape
  <2> QED  BY <2>1, ReceiptsGrow
<1>4. job[w].msg \notin Malformed
  BY DEF Coverage
<1> QED  BY <1>1, <1>2, <1>3, <1>4, CoverageOfOthers DEF Coverage

LEMMA CoverageStep ==
    TypeInv /\ Execution /\ Coverage /\ [Next]_vars => Coverage'
<1> SUFFICES ASSUME TypeInv, Execution, Coverage, [Next]_vars PROVE Coverage'
  OBVIOUS
<1>1. ASSUME NEW w \in Workers, NEW m \in Messages, ReceiveMessage(w, m)
      PROVE  Coverage'
  <2>1. CASE m \in Malformed
    BY <1>1, <2>1, CoverageOfOthers DEF ReceiveMessage, Coverage
  <2>2. CASE m \notin Malformed
    <3>1. \A v \in Workers \ {w} : pc'[v] = pc[v] /\ job'[v] = job[v]
      BY <1>1, <2>2 DEF ReceiveMessage, TypeInv, TypeOK
    <3>2. /\ pc'[w] = IF Records[m] = {} THEN "delete" ELSE "acquire"
          /\ job'[w].msg = m /\ job'[w].todo = Records[m]
      <4> DEFINE new == [NoJob EXCEPT !.msg = m, !.tok = rcv[m] + 1,
                                      !.todo = Records[m]]
      <4>1. new.msg = m /\ new.todo = Records[m]
        BY DEF NoJob
      <4>2. job' = [job EXCEPT ![w] = new]
        BY <1>1, <2>2 DEF ReceiveMessage
      <4> HIDE DEF new
      <4>3. job'[w] = new
        BY <4>2 DEF TypeInv, TypeOK
      <4>4. pc'[w] = IF Records[m] = {} THEN "delete" ELSE "acquire"
        BY <1>1, <2>2 DEF ReceiveMessage, TypeInv, TypeOK
      <4> QED  BY <4>1, <4>3, <4>4
    <3> QED  BY <2>2, <3>1, <3>2, CoverageOfOthers DEF Coverage
  <2> QED  BY <2>1, <2>2
<1>2. ASSUME NEW m \in Messages, Queue(m) PROVE Coverage'
  BY <1>2, CoverageOfOthers DEF Queue, VisibilityTimeout, Redrive, Coverage
<1>3. ASSUME NEW w \in Workers, DownloadFails(w) PROVE Coverage'
  BY <1>3, RetainKeepsCoverage DEF DownloadFails
<1>4. ASSUME NEW w \in Workers, AllocationExhausted(w) PROVE Coverage'
  BY <1>4, RetainKeepsCoverage DEF AllocationExhausted
<1>5. ASSUME NEW w \in Workers, StageFails(w) PROVE Coverage'
  BY <1>5, RetainKeepsCoverage DEF StageFails
<1>6. ASSUME NEW w \in Workers, ArchiveGenerationFails(w) PROVE Coverage'
  BY <1>6, RetainKeepsCoverage DEF ArchiveGenerationFails
<1>7. ASSUME NEW w \in Workers, PersistConflict(w) PROVE Coverage'
  BY <1>7, RetainKeepsCoverage DEF PersistConflict
<1>8. ASSUME NEW w \in Workers, SavePendingConflict(w) PROVE Coverage'
  BY <1>8, RetainKeepsCoverage DEF SavePendingConflict
<1>9. ASSUME NEW w \in Workers, SaveSuccessFails(w) PROVE Coverage'
  BY <1>9, RetainKeepsCoverage DEF SaveSuccessFails
<1>10. ASSUME NEW w \in Workers, RefuseFailedPublication(w) PROVE Coverage'
  BY <1>10, RetainKeepsCoverage DEF RefuseFailedPublication, PublicationRejected
<1>11. ASSUME NEW w \in Workers, PutConflict(w) PROVE Coverage'
  BY <1>11, RetainKeepsCoverage DEF PutConflict, PublicationRejected
<1>12. ASSUME NEW w \in Workers, PutFails(w) PROVE Coverage'
  BY <1>12, RetainKeepsCoverage DEF PutFails
<1>13. ASSUME NEW w \in Workers, MarkPublishedFails(w) PROVE Coverage'
  BY <1>13, RetainKeepsCoverage DEF MarkPublishedFails
<1>14. ASSUME NEW w \in Workers, Crash(w) PROVE Coverage'
  BY <1>14, RetainKeepsCoverage DEF Crash
<1>15. ASSUME NEW w \in Workers, DeleteMessage(w) PROVE Coverage'
  <2>1. /\ pc'[w] = "idle"
        /\ \A v \in Workers \ {w} : pc'[v] = pc[v] /\ job'[v] = job[v]
    BY <1>15 DEF DeleteMessage, TypeInv, TypeOK
  <2> QED  BY <2>1, CoverageOfOthers DEF Coverage
<1>16. ASSUME NEW w \in Workers, RunStages(w) PROVE Coverage'
  <2>1. /\ pc[w] = "stages" /\ pc'[w] = "persist" /\ job' = job
        /\ \A v \in Workers \ {w} : pc'[v] = pc[v]
        /\ receipts' = receipts
    BY <1>16 DEF RunStages, dbVars, TypeInv, TypeOK
  <2> QED  BY <2>1 DEF Coverage
<1>17. ASSUME NEW w \in Workers, StartPublication(w) PROVE Coverage'
  <2>1. /\ pc[w] = "publish" /\ pc'[w] = "put_evidence" /\ job' = job
        /\ \A v \in Workers \ {w} : pc'[v] = pc[v]
        /\ receipts' = receipts
    BY <1>17 DEF StartPublication, dbVars, TypeInv, TypeOK
  <2> QED  BY <2>1 DEF Coverage
<1>18. ASSUME NEW w \in Workers, PutObject(w) PROVE Coverage'
  <2>1. /\ pc[w] \in Publishing /\ pc'[w] \in Publishing /\ job' = job
        /\ \A v \in Workers \ {w} : pc'[v] = pc[v]
        /\ receipts' = receipts
    BY <1>18 DEF PutObject, AfterPut, dbVars, TypeInv, TypeOK
  <2> QED  BY <2>1 DEF Coverage
<1>19. ASSUME NEW w \in Workers, CompleteRuntime(w) PROVE Coverage'
  BY <1>19, NextInputKeepsCoverage DEF CompleteRuntime
<1>20. ASSUME NEW w \in Workers, MarkPublished(w) PROVE Coverage'
  <2>1. CASE job[w].fresh
    <3>1. /\ pc[w] = "mark" /\ pc'[w] = "complete" /\ job' = job
          /\ \A v \in Workers \ {w} : pc'[v] = pc[v]
          /\ receipts' = receipts
      BY <1>20, <2>1 DEF MarkPublished, TypeInv, TypeOK
    <3> QED  BY <3>1 DEF Coverage
  <2>2. CASE ~job[w].fresh
    BY <1>20, <2>2, NextInputKeepsCoverage DEF MarkPublished
  <2> QED  BY <2>1, <2>2
<1>21. ASSUME NEW w \in Workers, AcquireExecution(w) PROVE Coverage'
  <2>1. /\ \A v \in Workers \ {w} : pc'[v] = pc[v] /\ job'[v] = job[v]
        /\ job'[w].msg = job[w].msg /\ pc[w] = "acquire"
        /\ receipts' = receipts
    BY <1>21, AcquireEffect DEF AcquireExecution, dbVars
  <2>2. /\ job[w].msg \notin Malformed
        /\ \A o \in Records[job[w].msg] : o \in job[w].todo \/ receipts[o] # None
    BY <2>1 DEF Coverage
  <2>3. /\ \A o \in Records[job[w].msg] :
              \/ o \in job'[w].todo
              \/ pc'[w] \in Executing /\ o = job'[w].obj
              \/ receipts[o] # None
        /\ pc'[w] \in Committed => receipts[job'[w].obj] # None
        /\ pc'[w] = "delete" => job'[w].todo = {}
    BY <1>21, <2>2, AcquireEffect, ConstantsAssumption
  <2> QED  BY <2>1, <2>2, <2>3, CoverageOfOthers DEF Coverage
<1>22. ASSUME NEW w \in Workers, AllocateIdentifiers(w) PROVE Coverage'
  <2>1. /\ pc[w] = "execute" /\ pc'[w] = "stages"
        /\ \A v \in Workers \ {w} : pc'[v] = pc[v]
        /\ receipts' = receipts
    BY <1>22 DEF AllocateIdentifiers, dbVars, TypeInv, TypeOK
  <2>2. /\ job'[w].msg = job[w].msg /\ job'[w].obj = job[w].obj
        /\ job'[w].todo = job[w].todo
        /\ \A v \in Workers \ {w} : job'[v] = job[v]
    BY <1>22, AllocateEffect
  <2> QED  BY <2>1, <2>2 DEF Coverage
<1>23. ASSUME NEW w \in Workers, Persist(w) PROVE Coverage'
  <2>1. /\ pc[w] = "persist" /\ pc'[w] = "commit"
        /\ \A v \in Workers \ {w} : pc'[v] = pc[v]
        /\ receipts' = receipts
    BY <1>23 DEF Persist, dbVars, TypeInv, TypeOK
  <2>2. /\ job'[w].msg = job[w].msg /\ job'[w].obj = job[w].obj
        /\ job'[w].todo = job[w].todo
        /\ \A v \in Workers \ {w} : job'[v] = job[v]
    BY <1>23, PersistEffect
  <2> QED  BY <2>1, <2>2 DEF Coverage
<1>24. ASSUME NEW w \in Workers, SaveSuccess(w) PROVE Coverage'
  <2>1. /\ pc[w] = "commit" /\ pc'[w] \in Committed
        /\ job'[w].msg = job[w].msg /\ job'[w].obj = job[w].obj
        /\ job'[w].todo = job[w].todo
        /\ \A v \in Workers \ {w} : pc'[v] = pc[v] /\ job'[v] = job[v]
    BY <1>24, SaveEffect DEF SaveSuccess, TypeInv, TypeOK
  <2>2. receipts'[job[w].obj] # None
    BY <1>24, <2>1, CommitEffect, ConstantsAssumption DEF SaveSuccess
  <2>3. \A o \in Records[job[w].msg] : o \in job[w].todo \/ receipts'[o] # None
    <3> SUFFICES ASSUME NEW o \in Records[job[w].msg], o \notin job[w].todo,
                        o # job[w].obj
                 PROVE  receipts'[o] # None
      BY <2>2
    <3>1. o \in Objects /\ receipts[o] # None
      BY <2>1, ConstantsAssumption DEF Coverage, TypeInv, JobShape
    <3> QED  BY <3>1, ReceiptsGrow
  <2>4. job[w].msg \notin Malformed
    BY <2>1 DEF Coverage
  <2> QED  BY <2>1, <2>2, <2>3, <2>4, CoverageOfOthers DEF Coverage
<1>25. CASE UNCHANGED vars
  BY <1>25 DEF vars, Coverage
<1> QED
  BY <1>1, <1>2, <1>3, <1>4, <1>5, <1>6, <1>7, <1>8, <1>9, <1>10, <1>11,
     <1>12, <1>13, <1>14, <1>15, <1>16, <1>17, <1>18, <1>19, <1>20, <1>21,
     <1>22, <1>23, <1>24, <1>25 DEF Next, Step

LEMMA CoverageInvariant == Spec => []Coverage
<1>1. Init => Coverage
  BY DEF Init, Coverage
<1> QED
  BY <1>1, CoverageStep, TypeInvariant, ExecutionInvariant, PTL DEF Spec

\* DeletedIsReceipted: when a message is gone from the queue, every object it
\* announced has a success receipt.
THEOREM NoUploadDropped == Spec => []DeletedIsReceipted
<1>1. Init => DeletedIsReceipted
  BY DEF Init, DeletedIsReceipted
<1>2. TypeInv /\ Execution /\ Coverage /\ DeletedIsReceipted /\ [Next]_vars
        => DeletedIsReceipted'
  <2> SUFFICES ASSUME TypeInv, Execution, Coverage, DeletedIsReceipted,
                      [Next]_vars,
                      NEW m \in Messages, mst'[m] = "deleted"
               PROVE  m \notin Malformed /\ \A o \in Records[m] : receipts'[o] # None
    BY DEF DeletedIsReceipted
  <2>1. Records[m] \subseteq Objects
    BY ConstantsAssumption
  <2>2. CASE mst[m] = "deleted"
    BY <2>1, <2>2, ReceiptsGrow DEF DeletedIsReceipted
  <2>3. CASE mst[m] # "deleted"
    <3>1. PICK w \in Workers : DeleteMessage(w) /\ job[w].msg = m
      <4>1. ASSUME NEW w \in Workers, DeleteMessage(w)
            PROVE  job[w].msg = m
        BY <2>3, <4>1 DEF DeleteMessage, TypeInv, TypeOK
      <4>2. ASSUME NEW w \in Workers, NEW k \in Messages, ReceiveMessage(w, k)
            PROVE  FALSE
        BY <2>3, <4>2 DEF ReceiveMessage, TypeInv, TypeOK
      <4>3. ASSUME NEW w \in Workers, Step(w), ~DeleteMessage(w),
                   ~\E k \in Messages : ReceiveMessage(w, k)
            PROVE  UNCHANGED mst
        BY <4>3 DEF Step, queueVars, AcquireExecution, AllocateIdentifiers,
           RunStages, Persist, SaveSuccess, StartPublication, PutObject,
           MarkPublished, CompleteRuntime, DownloadFails,
           AllocationExhausted, StageFails, ArchiveGenerationFails,
           PersistConflict, SavePendingConflict, SaveSuccessFails,
           RefuseFailedPublication, PutConflict, PutFails,
           MarkPublishedFails
      <4>4. ASSUME NEW k \in Messages, Queue(k) PROVE FALSE
        BY <2>3, <4>4 DEF Queue, VisibilityTimeout, Redrive, TypeInv, TypeOK
      <4>5. ASSUME NEW w \in Workers, Crash(w) PROVE FALSE
        BY <2>3, <4>5 DEF Crash, queueVars
      <4> QED
        BY <2>3, <4>1, <4>2, <4>3, <4>4, <4>5 DEF Next, vars
    <3>2. pc[w] = "delete" /\ job[w].todo = {} /\ m \notin Malformed
      BY <3>1 DEF DeleteMessage, Coverage
    <3>3. \A o \in Records[m] : receipts[o] # None
      BY <3>1, <3>2 DEF Coverage
    <3> QED  BY <2>1, <3>2, <3>3, ReceiptsGrow
  <2> QED  BY <2>2, <2>3
<1> QED
  BY <1>1, <1>2, TypeInvariant, ExecutionInvariant, CoverageInvariant, PTL
     DEF Spec

-----------------------------------------------------------------------------
(***************************************************************************)
(* The archive and its outbox                                              *)
(***************************************************************************)

\* Only PutObject, or an upload that fails after reaching S3, writes to S3.
LEMMA OnlyUploadsWrite ==
    ASSUME [Next]_vars
    PROVE  \/ UNCHANGED archive
           \/ \E w \in Workers :
                pc[w] \in {"put_evidence", "put_summary"} /\ Upload(w)
<1>1. ASSUME NEW w \in Workers, Step(w), ~PutObject(w), ~PutFails(w)
      PROVE  UNCHANGED archive
  BY <1>1 DEF Step, ReceiveMessage, AcquireExecution, DownloadFails,
     AllocateIdentifiers, AllocationExhausted, RunStages, StageFails,
     ArchiveGenerationFails, Persist, PersistConflict, SavePendingConflict,
     SaveSuccess, SaveSuccessFails, RefuseFailedPublication,
     StartPublication, PutConflict, MarkPublished, MarkPublishedFails,
     CompleteRuntime, DeleteMessage
<1>2. ASSUME NEW w \in Workers, PutObject(w) \/ PutFails(w)
      PROVE  \/ UNCHANGED archive
             \/ pc[w] \in {"put_evidence", "put_summary"} /\ Upload(w)
  BY <1>2 DEF PutObject, PutFails
<1>3. ASSUME NEW w \in Workers, Crash(w) PROVE UNCHANGED archive
  BY <1>3 DEF Crash
<1>4. ASSUME NEW m \in Messages, Queue(m) PROVE UNCHANGED archive
  BY <1>4 DEF Queue, VisibilityTimeout, Redrive
<1>5. CASE UNCHANGED vars
  BY <1>5 DEF vars
<1> QED  BY <1>1, <1>2, <1>3, <1>4, <1>5 DEF Next

\* An upload fills at most one empty artifact of the Worker's run.
LEMMA UploadEffect ==
    ASSUME TypeInv, NEW w \in Workers,
           pc[w] \in {"put_evidence", "put_summary"}, Upload(w)
    PROVE  LET r == job[w].run
           IN  /\ r \in Runs
               /\ \A q \in Runs \ {r} : archive'[q] = archive[q]
               /\ pc[w] = "put_evidence" =>
                    /\ archive'[r].summary = archive[r].summary
                    /\ archive'[r].evidence = IF archive[r].evidence = None
                                              THEN job[w].payload
                                              ELSE archive[r].evidence
               /\ pc[w] = "put_summary" =>
                    /\ archive'[r].evidence = archive[r].evidence
                    /\ archive'[r].summary = IF archive[r].summary = None
                                             THEN job[w].payload
                                             ELSE archive[r].summary
<1> DEFINE r == job[w].run
<1>1. r \in Runs /\ archive \in [Runs -> Artifacts]
  BY DEF TypeInv, TypeOK, JobShape
<1>2. CASE pc[w] = "put_evidence"
  BY <1>1, <1>2 DEF Upload, Stored, Part, Artifacts
<1>3. CASE pc[w] = "put_summary"
  BY <1>1, <1>3 DEF Upload, Stored, Part, Artifacts
<1> QED  BY <1>2, <1>3

\* Archive objects are write-once.
LEMMA ArchiveGrows ==
    ASSUME TypeInv, [Next]_vars, NEW r \in Runs
    PROVE  /\ archive[r].evidence # None => archive'[r].evidence = archive[r].evidence
           /\ archive[r].summary # None => archive'[r].summary = archive[r].summary
<1>1. CASE UNCHANGED archive
  BY <1>1
<1>2. ASSUME NEW w \in Workers, pc[w] \in {"put_evidence", "put_summary"}, Upload(w)
      PROVE  /\ archive[r].evidence # None =>
                   archive'[r].evidence = archive[r].evidence
             /\ archive[r].summary # None =>
                   archive'[r].summary = archive[r].summary
  BY <1>2, UploadEffect
<1> QED  BY <1>1, <1>2, OnlyUploadsWrite

\* The ways the outbox is written: at the commit of a run, and when a
\* publication fails or succeeds.
LEMMA OnlyPublicationWrites ==
    ASSUME [Next]_vars
    PROVE  \/ UNCHANGED pubs
           \/ \E w \in Workers : pc[w] = "commit" /\ CommitWrites(w)
           \/ \E w \in Workers, status \in {"failed", "retryable"} :
                /\ pc[w] \in {"put_evidence", "put_summary"}
                /\ RecordFailure(w, status)
                /\ status = "failed" => ~Verified(w)
           \/ \E w \in Workers : pc[w] = "mark" /\ MarkWrites(job[w].run)
<1>1. ASSUME NEW w \in Workers, Step(w), ~SaveSuccess(w), ~SaveSuccessFails(w),
             ~PutConflict(w), ~PutFails(w), ~MarkPublished(w),
             ~MarkPublishedFails(w)
      PROVE  UNCHANGED pubs
  BY <1>1 DEF Step, dbVars, ReceiveMessage, AcquireExecution, DownloadFails,
     AllocateIdentifiers, AllocationExhausted, RunStages, StageFails,
     ArchiveGenerationFails, Persist, PersistConflict, SavePendingConflict,
     RefuseFailedPublication, StartPublication, PutObject, CompleteRuntime,
     DeleteMessage
<1>2. ASSUME NEW w \in Workers, SaveSuccess(w) \/ SaveSuccessFails(w)
      PROVE  UNCHANGED pubs \/ (pc[w] = "commit" /\ CommitWrites(w))
  BY <1>2 DEF SaveSuccess, SaveSuccessFails, dbVars
<1>3. ASSUME NEW w \in Workers, PutConflict(w)
      PROVE  /\ pc[w] \in {"put_evidence", "put_summary"}
             /\ RecordFailure(w, "failed") /\ ~Verified(w)
  BY <1>3 DEF PutConflict
<1>4. ASSUME NEW w \in Workers, PutFails(w)
      PROVE  /\ pc[w] \in {"put_evidence", "put_summary"}
             /\ RecordFailure(w, "retryable")
  BY <1>4 DEF PutFails
<1>5. ASSUME NEW w \in Workers, MarkPublished(w) \/ MarkPublishedFails(w)
      PROVE  UNCHANGED pubs \/ (pc[w] = "mark" /\ MarkWrites(job[w].run))
  BY <1>5 DEF MarkPublished, MarkPublishedFails
<1>6. ASSUME NEW w \in Workers, Crash(w) PROVE UNCHANGED pubs
  BY <1>6 DEF Crash, dbVars
<1>7. ASSUME NEW m \in Messages, Queue(m) PROVE UNCHANGED pubs
  BY <1>7 DEF Queue, VisibilityTimeout, Redrive, dbVars
<1>8. CASE UNCHANGED vars
  BY <1>8 DEF vars
<1>9. ASSUME NEW w \in Workers, Step(w)
      PROVE  \/ UNCHANGED pubs
             \/ pc[w] = "commit" /\ CommitWrites(w)
             \/ \E status \in {"failed", "retryable"} :
                  /\ pc[w] \in {"put_evidence", "put_summary"}
                  /\ RecordFailure(w, status)
                  /\ status = "failed" => ~Verified(w)
             \/ pc[w] = "mark" /\ MarkWrites(job[w].run)
  BY <1>1, <1>2, <1>3, <1>4, <1>5, <1>9
<1> QED  BY <1>6, <1>7, <1>8, <1>9 DEF Next

\* What each of those writes does to one outbox row.
LEMMA CommitOutbox ==
    ASSUME TypeInv, NEW w \in Workers, pc[w] = "commit", CommitWrites(w),
           NEW r \in Runs
    PROVE  /\ pubs[r] # None => pubs'[r] = pubs[r]
           /\ pubs[r] = None /\ pubs'[r] # None => pubs'[r].status = "pending"
<1>1. job[w].run \in Runs /\ pubs \in [Runs -> Publication \cup {None}]
  BY DEF TypeInv, TypeOK, JobShape
<1> QED  BY <1>1 DEF CommitWrites

LEMMA FailureOutbox ==
    ASSUME TypeInv, NEW w \in Workers, pc[w] \in Publishing,
           NEW status \in Statuses, RecordFailure(w, status), NEW r \in Runs
    PROVE  /\ r # job[w].run => pubs'[r] = pubs[r]
           /\ pubs[r] # None => /\ pubs'[r].payload = pubs[r].payload
                                /\ pubs'[r].status \in {pubs[r].status, status}
           /\ pubs[r] = None => pubs'[r] = None
<1>1. /\ job[w].run \in Runs /\ pubs[job[w].run] \in Publication
      /\ pubs[job[w].run] # None
      /\ pubs \in [Runs -> Publication \cup {None}]
  BY DEF TypeInv, TypeOK, JobShape
<1> QED  BY <1>1 DEF RecordFailure, Publication

LEMMA MarkOutbox ==
    ASSUME TypeInv, NEW w \in Workers, pc[w] = "mark", MarkWrites(job[w].run),
           NEW r \in Runs
    PROVE  /\ r # job[w].run => pubs'[r] = pubs[r]
           /\ pubs[r] # None => /\ pubs'[r].payload = pubs[r].payload
                                /\ pubs'[r].status \in {pubs[r].status, "published"}
           /\ pubs[r] = None => pubs'[r] = None
<1>1. /\ job[w].run \in Runs /\ pubs[job[w].run] \in Publication
      /\ pubs[job[w].run] # None
      /\ pubs \in [Runs -> Publication \cup {None}]
  BY DEF TypeInv, TypeOK, JobShape
<1> QED  BY <1>1 DEF MarkWrites, Publication

\* Outbox rows stay, with the payload they were created with.
LEMMA PayloadFinal ==
    ASSUME TypeInv, TypeInv', [Next]_vars, NEW r \in Runs, pubs[r] # None
    PROVE  pubs'[r] # None /\ pubs'[r].payload = pubs[r].payload
<1>1. CASE UNCHANGED pubs
  BY <1>1
<1>2. ASSUME NEW w \in Workers, pc[w] = "commit", CommitWrites(w)
      PROVE  pubs'[r] # None /\ pubs'[r].payload = pubs[r].payload
  BY <1>2, CommitOutbox
<1>3. ASSUME NEW w \in Workers, NEW status \in {"failed", "retryable"},
             pc[w] \in {"put_evidence", "put_summary"}, RecordFailure(w, status)
      PROVE  pubs'[r] # None /\ pubs'[r].payload = pubs[r].payload
  <2>1. status \in Statuses /\ pc[w] \in Publishing
    BY <1>3 DEF Statuses
  <2> QED  BY <1>3, <2>1, FailureOutbox, RecordFailureTyped
<1>4. ASSUME NEW w \in Workers, pc[w] = "mark", MarkWrites(job[w].run)
      PROVE  pubs'[r] # None /\ pubs'[r].payload = pubs[r].payload
  <2>1. job[w].run \in Runs /\ pubs[job[w].run] # None
    BY <1>4 DEF TypeInv, JobShape
  <2> QED  BY <1>4, <2>1, MarkOutbox, MarkWritesTyped
<1> QED  BY <1>1, <1>2, <1>3, <1>4, OnlyPublicationWrites

LEMMA PayloadIsSome == None \notin Payloads
  BY ConstantsAssumption DEF Payloads

\* A publishing Worker's facts survive the steps of the others.
LEMMA ArchivingOfOthers ==
    ASSUME TypeInv, TypeInv', Archiving, [Next]_vars, NEW v \in Workers,
           pc'[v] = pc[v], job'[v] = job[v]
    PROVE  /\ pc'[v] \in Publishing => job'[v].payload = pubs'[job'[v].run].payload
           /\ pc'[v] \in {"put_summary", "mark"} =>
                archive'[job'[v].run].evidence = job'[v].payload
           /\ pc'[v] = "mark" => archive'[job'[v].run].summary = job'[v].payload
<1>1. CASE pc[v] \in Publishing
  <2>1. /\ job[v].run \in Runs /\ job[v].payload \in Payloads
        /\ pubs[job[v].run] # None
        /\ job[v].payload = pubs[job[v].run].payload
    BY <1>1 DEF TypeInv, JobShape, Archiving
  <2>2. pubs'[job[v].run].payload = pubs[job[v].run].payload
    BY <2>1, PayloadFinal
  <2>3. pc[v] \in {"put_summary", "mark"} =>
           archive'[job[v].run].evidence = job[v].payload
    BY <2>1, ArchiveGrows, PayloadIsSome DEF Archiving
  <2>4. pc[v] = "mark" => archive'[job[v].run].summary = job[v].payload
    BY <2>1, ArchiveGrows, PayloadIsSome DEF Archiving
  <2> QED  BY <2>1, <2>2, <2>3, <2>4
<1>2. CASE pc[v] \notin Publishing
  BY <1>2
<1> QED  BY <1>1, <1>2

\* What S3 holds stays the payload of the outbox.
LEMMA ArchiveMatchesOutbox ==
    ASSUME TypeInv, TypeInv', Archiving, [Next]_vars, NEW r \in Runs
    PROVE  /\ archive'[r].summary # None =>
                /\ pubs'[r] # None
                /\ archive'[r].summary = pubs'[r].payload
                /\ archive'[r].evidence = pubs'[r].payload
           /\ archive'[r].evidence # None /\ r \notin Foreign =>
                pubs'[r] # None /\ archive'[r].evidence = pubs'[r].payload
<1>1. CASE archive'[r] = archive[r]
  BY <1>1, PayloadFinal DEF Archiving
<1>2. CASE archive'[r] # archive[r]
  <2>1. PICK w \in Workers : pc[w] \in {"put_evidence", "put_summary"} /\ Upload(w)
    BY <1>2, OnlyUploadsWrite
  <2>2. r = job[w].run
    BY <1>2, <2>1, UploadEffect
  <2>3. /\ pubs[r] # None /\ job[w].payload \in Payloads
        /\ job[w].payload = pubs[r].payload
        /\ pc[w] = "put_summary" => archive[r].evidence = job[w].payload
    BY <2>1, <2>2 DEF TypeInv, JobShape, Archiving
  <2>4. pubs'[r] # None /\ pubs'[r].payload = job[w].payload
    BY <2>3, PayloadFinal
  <2>5. /\ archive[r].summary # None => /\ archive[r].summary = job[w].payload
                                        /\ archive[r].evidence = job[w].payload
        /\ archive[r].evidence # None /\ r \notin Foreign =>
              archive[r].evidence = job[w].payload
    BY <2>3 DEF Archiving
  <2> QED  BY <2>1, <2>2, <2>3, <2>4, <2>5, UploadEffect, PayloadIsSome
<1> QED  BY <1>1, <1>2

LEMMA ArchivingStep ==
    TypeInv /\ TypeInv' /\ Archiving /\ [Next]_vars => Archiving'
<1> SUFFICES ASSUME TypeInv, TypeInv', Archiving, [Next]_vars PROVE Archiving'
  OBVIOUS
<1> DEFINE Facts(v) ==
      /\ pc'[v] \in Publishing => job'[v].payload = pubs'[job'[v].run].payload
      /\ pc'[v] \in {"put_summary", "mark"} =>
            archive'[job'[v].run].evidence = job'[v].payload
      /\ pc'[v] = "mark" => archive'[job'[v].run].summary = job'[v].payload
<1>1. SUFFICES \A v \in Workers : Facts(v)
  BY <1>1, ArchiveMatchesOutbox DEF Archiving
<1>2. ASSUME NEW v \in Workers, pc'[v] = pc[v], job'[v] = job[v] PROVE Facts(v)
  BY <1>2, ArchivingOfOthers
<1>3. ASSUME NEW v \in Workers, pc'[v] \notin Publishing PROVE Facts(v)
  BY <1>3
<1> HIDE DEF Facts
<1>4. ASSUME NEW w \in Workers, Retain(w) PROVE \A v \in Workers : Facts(v)
  BY <1>4, <1>2, <1>3, RetainTyped
<1>5. ASSUME NEW w \in Workers, DownloadFails(w) PROVE \A v \in Workers : Facts(v)
  BY <1>5, <1>4 DEF DownloadFails
<1>6. ASSUME NEW w \in Workers, AllocationExhausted(w) PROVE \A v \in Workers : Facts(v)
  BY <1>6, <1>4 DEF AllocationExhausted
<1>7. ASSUME NEW w \in Workers, StageFails(w) PROVE \A v \in Workers : Facts(v)
  BY <1>7, <1>4 DEF StageFails
<1>8. ASSUME NEW w \in Workers, ArchiveGenerationFails(w) PROVE \A v \in Workers : Facts(v)
  BY <1>8, <1>4 DEF ArchiveGenerationFails
<1>9. ASSUME NEW w \in Workers, PersistConflict(w) PROVE \A v \in Workers : Facts(v)
  BY <1>9, <1>4 DEF PersistConflict
<1>10. ASSUME NEW w \in Workers, SavePendingConflict(w) PROVE \A v \in Workers : Facts(v)
  BY <1>10, <1>4 DEF SavePendingConflict
<1>11. ASSUME NEW w \in Workers, SaveSuccessFails(w) PROVE \A v \in Workers : Facts(v)
  BY <1>11, <1>4 DEF SaveSuccessFails
<1>12. ASSUME NEW w \in Workers, RefuseFailedPublication(w) PROVE \A v \in Workers : Facts(v)
  BY <1>12, <1>4 DEF RefuseFailedPublication, PublicationRejected
<1>13. ASSUME NEW w \in Workers, PutConflict(w) PROVE \A v \in Workers : Facts(v)
  BY <1>13, <1>4 DEF PutConflict, PublicationRejected
<1>14. ASSUME NEW w \in Workers, PutFails(w) PROVE \A v \in Workers : Facts(v)
  BY <1>14, <1>4 DEF PutFails
<1>15. ASSUME NEW w \in Workers, MarkPublishedFails(w) PROVE \A v \in Workers : Facts(v)
  BY <1>15, <1>4 DEF MarkPublishedFails
<1>16. ASSUME NEW w \in Workers, Crash(w) PROVE \A v \in Workers : Facts(v)
  BY <1>16, <1>4 DEF Crash
<1>17. ASSUME NEW m \in Messages, Queue(m) PROVE \A v \in Workers : Facts(v)
  BY <1>17, <1>2 DEF Queue, VisibilityTimeout, Redrive
<1>18. ASSUME NEW w \in Workers, NEW m \in Messages, ReceiveMessage(w, m)
      PROVE  \A v \in Workers : Facts(v)
  <2>1. /\ \A v \in Workers \ {w} : pc'[v] = pc[v] /\ job'[v] = job[v]
        /\ pc'[w] \notin Publishing
    BY <1>18 DEF ReceiveMessage, TypeInv, TypeOK
  <2> QED  BY <2>1, <1>2, <1>3
<1>19. ASSUME NEW w \in Workers, DeleteMessage(w) PROVE \A v \in Workers : Facts(v)
  <2>1. /\ \A v \in Workers \ {w} : pc'[v] = pc[v] /\ job'[v] = job[v]
        /\ pc'[w] \notin Publishing
    BY <1>19 DEF DeleteMessage, TypeInv, TypeOK
  <2> QED  BY <2>1, <1>2, <1>3
<1>20. ASSUME NEW w \in Workers, RunStages(w) PROVE \A v \in Workers : Facts(v)
  <2>1. /\ \A v \in Workers \ {w} : pc'[v] = pc[v] /\ job'[v] = job[v]
        /\ pc'[w] \notin Publishing
    BY <1>20 DEF RunStages, TypeInv, TypeOK
  <2> QED  BY <2>1, <1>2, <1>3
<1>21. ASSUME NEW w \in Workers, AllocateIdentifiers(w) PROVE \A v \in Workers : Facts(v)
  <2>1. /\ \A v \in Workers \ {w} : pc'[v] = pc[v]
        /\ pc'[w] \notin Publishing
    BY <1>21 DEF AllocateIdentifiers, TypeInv, TypeOK
  <2> QED  BY <1>21, <2>1, <1>2, <1>3, AllocateEffect
<1>22. ASSUME NEW w \in Workers, Persist(w) PROVE \A v \in Workers : Facts(v)
  <2>1. /\ \A v \in Workers \ {w} : pc'[v] = pc[v]
        /\ pc'[w] \notin Publishing
    BY <1>22 DEF Persist, TypeInv, TypeOK
  <2> QED  BY <1>22, <2>1, <1>2, <1>3, PersistEffect
<1>23. ASSUME NEW w \in Workers, CompleteRuntime(w) PROVE \A v \in Workers : Facts(v)
  <2>1. pc[w] # "idle" /\ NextInput(w)
    BY <1>23 DEF CompleteRuntime
  <2> QED  BY <2>1, <1>2, <1>3, NextInputTyped
<1>24. ASSUME NEW w \in Workers, MarkPublished(w) PROVE \A v \in Workers : Facts(v)
  <2>1. CASE job[w].fresh
    <3>1. /\ job' = job /\ pc'[w] = "complete"
          /\ \A v \in Workers \ {w} : pc'[v] = pc[v]
      BY <1>24, <2>1 DEF MarkPublished, TypeInv, TypeOK
    <3> QED  BY <3>1, <1>2, <1>3
  <2>2. CASE ~job[w].fresh
    <3>1. pc[w] # "idle" /\ NextInput(w)
      BY <1>24, <2>2 DEF MarkPublished
    <3> QED  BY <3>1, <1>2, <1>3, NextInputTyped
  <2> QED  BY <2>1, <2>2
<1>25. ASSUME NEW w \in Workers, AcquireExecution(w) PROVE \A v \in Workers : Facts(v)
  <2>1. pubs' = pubs /\ \A v \in Workers \ {w} : pc'[v] = pc[v] /\ job'[v] = job[v]
    BY <1>25, AcquireEffect DEF AcquireExecution, dbVars
  <2>2. Facts(w)
    BY <1>25, <2>1, AcquireEffect DEF Facts
  <2> QED  BY <2>1, <2>2, <1>2
<1>26. ASSUME NEW w \in Workers, SaveSuccess(w) PROVE \A v \in Workers : Facts(v)
  <2>1. /\ pc'[w] = IF R1Enabled THEN "publish" ELSE "complete"
        /\ \A v \in Workers \ {w} : pc'[v] = pc[v] /\ job'[v] = job[v]
    BY <1>26, SaveEffect DEF SaveSuccess, TypeInv, TypeOK
  <2>2. Facts(w)
    BY <1>26, <2>1, SaveEffect DEF Facts
  <2> QED  BY <2>1, <2>2, <1>2
<1>27. ASSUME NEW w \in Workers, StartPublication(w) PROVE \A v \in Workers : Facts(v)
  <2>1. /\ pc[w] = "publish" /\ pc'[w] = "put_evidence" /\ job' = job
        /\ pubs' = pubs
        /\ \A v \in Workers \ {w} : pc'[v] = pc[v]
    BY <1>27 DEF StartPublication, dbVars, TypeInv, TypeOK
  <2>2. Facts(w)
    BY <2>1 DEF Facts, Archiving
  <2> QED  BY <2>1, <2>2, <1>2
<1>28. ASSUME NEW w \in Workers, PutObject(w) PROVE \A v \in Workers : Facts(v)
  <2>1. /\ pc[w] \in {"put_evidence", "put_summary"} /\ Upload(w) /\ Verified(w)
        /\ pc'[w] = AfterPut(w) /\ job' = job /\ pubs' = pubs
        /\ \A v \in Workers \ {w} : pc'[v] = pc[v]
    BY <1>28 DEF PutObject, dbVars, TypeInv, TypeOK
  <2>2. /\ job[w].payload = pubs[job[w].run].payload
        /\ pc[w] = "put_summary" => archive[job[w].run].evidence = job[w].payload
    BY <2>1 DEF Archiving
  <2>3. CASE pc[w] = "put_evidence"
    <3>1. archive'[job[w].run].evidence = job[w].payload
      BY <2>1, <2>3, UploadEffect DEF Verified, Stored, Part
    <3> QED  BY <2>1, <2>2, <2>3, <3>1, <1>2 DEF Facts, AfterPut
  <2>4. CASE pc[w] = "put_summary"
    <3>1. /\ archive'[job[w].run].summary = job[w].payload
          /\ archive'[job[w].run].evidence = job[w].payload
      BY <2>1, <2>2, <2>4, UploadEffect DEF Verified, Stored, Part
    <3> QED  BY <2>1, <2>2, <2>4, <3>1, <1>2 DEF Facts, AfterPut
  <2> QED  BY <2>1, <2>3, <2>4
<1>29. CASE UNCHANGED vars
  BY <1>29, <1>2 DEF vars
<1> QED
  BY <1>5, <1>6, <1>7, <1>8, <1>9, <1>10, <1>11, <1>12, <1>13, <1>14, <1>15,
     <1>16, <1>17, <1>18, <1>19, <1>20, <1>21, <1>22, <1>23, <1>24, <1>25,
     <1>26, <1>27, <1>28, <1>29 DEF Next, Step

LEMMA ArchivingInvariant == Spec => []Archiving
<1>1. Init => Archiving
  BY DEF Init, Archiving
<1> QED  BY <1>1, ArchivingStep, TypeInvariant, PTL DEF Spec

\* SummaryImpliesEvidence: a reader that finds a summary in the archive finds
\* the Evidence it summarises, wherever a Worker stopped.
THEOREM SummaryAfterEvidence == Spec => []SummaryImpliesEvidence
<1>1. Archiving => SummaryImpliesEvidence
  BY DEF Archiving, SummaryImpliesEvidence
<1> QED  BY <1>1, ArchivingInvariant, PTL

\* PublishedArchiveComplete: an outbox row is published only when both
\* artifacts in S3 are the durable payload.
THEOREM PublishedIsComplete == Spec => []PublishedArchiveComplete
<1>1. Init => PublishedArchiveComplete
  BY DEF Init, PublishedArchiveComplete
<1>2. TypeInv /\ TypeInv' /\ Archiving /\ PublishedArchiveComplete /\ [Next]_vars
        => PublishedArchiveComplete'
  <2> SUFFICES ASSUME TypeInv, TypeInv', Archiving, PublishedArchiveComplete,
                      [Next]_vars,
                      NEW r \in Runs, pubs'[r] # None,
                      pubs'[r].status = "published"
               PROVE  archive'[r] = [evidence |-> pubs'[r].payload,
                                     summary  |-> pubs'[r].payload]
    BY DEF PublishedArchiveComplete
  <2>1. archive[r] \in Artifacts /\ archive'[r] \in Artifacts
    BY DEF TypeInv, TypeOK
  <2>2. SUFFICES /\ archive'[r].evidence = pubs'[r].payload
                 /\ archive'[r].summary = pubs'[r].payload
    BY <2>1, <2>2 DEF Artifacts
  <2>3. CASE pubs[r] # None /\ pubs[r].status = "published"
    <3>1. /\ archive[r].evidence = pubs[r].payload
          /\ archive[r].summary = pubs[r].payload
      <4>1. archive[r] = [evidence |-> pubs[r].payload,
                          summary  |-> pubs[r].payload]
        BY <2>3 DEF PublishedArchiveComplete
      <4> QED  BY <4>1
    <3>2. pubs[r].payload \in Payloads
      BY <2>3 DEF TypeInv, TypeOK, Publication
    <3> QED  BY <2>3, <3>1, <3>2, ArchiveGrows, PayloadFinal, PayloadIsSome
  <2>4. CASE ~(pubs[r] # None /\ pubs[r].status = "published")
    <3>1. CASE UNCHANGED pubs
      BY <2>4, <3>1
    <3>2. ASSUME NEW w \in Workers, pc[w] = "commit", CommitWrites(w) PROVE FALSE
      BY <2>4, <3>2, CommitOutbox
    <3>3. ASSUME NEW w \in Workers, NEW status \in {"failed", "retryable"},
                 pc[w] \in {"put_evidence", "put_summary"},
                 RecordFailure(w, status)
          PROVE  FALSE
      <4>1. status \in Statuses /\ pc[w] \in Publishing
        BY <3>3 DEF Statuses
      <4> QED  BY <2>4, <3>3, <4>1, FailureOutbox
    <3>4. ASSUME NEW w \in Workers, pc[w] = "mark", MarkWrites(job[w].run)
          PROVE  /\ archive'[r].evidence = pubs'[r].payload
                 /\ archive'[r].summary = pubs'[r].payload
      <4>1. r = job[w].run /\ pubs[r] # None
        BY <2>4, <3>4, MarkOutbox
      <4>2. /\ archive[r].evidence = pubs[r].payload
            /\ archive[r].summary = pubs[r].payload
            /\ pubs[r].payload \in Payloads
        BY <3>4, <4>1 DEF Archiving, TypeInv, JobShape
      <4> QED  BY <4>1, <4>2, ArchiveGrows, PayloadFinal, PayloadIsSome
    <3> QED  BY <3>1, <3>2, <3>3, <3>4, OnlyPublicationWrites
  <2> QED  BY <2>3, <2>4
<1> QED  BY <1>1, <1>2, TypeInvariant, ArchivingInvariant, PTL DEF Spec

\* ConflictOnlyFromOutside: concurrent and repeated conditional uploads never
\* conflict with each other.
THEOREM ConflictsAreForeign == Spec => []ConflictOnlyFromOutside
<1>1. Init => ConflictOnlyFromOutside
  BY DEF Init, ConflictOnlyFromOutside
<1>2. TypeInv /\ Archiving /\ ConflictOnlyFromOutside /\ [Next]_vars
        => ConflictOnlyFromOutside'
  <2> SUFFICES ASSUME TypeInv, Archiving, ConflictOnlyFromOutside, [Next]_vars,
                      NEW r \in Runs, pubs'[r] # None, pubs'[r].status = "failed"
               PROVE  r \in Foreign
    BY DEF ConflictOnlyFromOutside
  <2>1. CASE pubs[r] # None /\ pubs[r].status = "failed"
    BY <2>1 DEF ConflictOnlyFromOutside
  <2>2. CASE ~(pubs[r] # None /\ pubs[r].status = "failed")
    <3>1. CASE UNCHANGED pubs
      BY <2>2, <3>1
    <3>2. ASSUME NEW w \in Workers, pc[w] = "commit", CommitWrites(w) PROVE FALSE
      BY <2>2, <3>2, CommitOutbox
    <3>3. ASSUME NEW w \in Workers, NEW status \in {"failed", "retryable"},
                 pc[w] \in {"put_evidence", "put_summary"},
                 RecordFailure(w, status), status = "failed" => ~Verified(w)
          PROVE  r \in Foreign
      <4>1. status \in Statuses /\ pc[w] \in Publishing
        BY <3>3 DEF Statuses
      <4>2. r = job[w].run /\ pubs[r] # None /\ ~Verified(w)
        BY <2>2, <3>3, <4>1, FailureOutbox
      <4>3. job[w].payload = pubs[r].payload
        BY <4>1, <4>2 DEF Archiving
      <4> QED  BY <3>3, <4>2, <4>3 DEF Archiving, Verified, Stored, Part
    <3>4. ASSUME NEW w \in Workers, pc[w] = "mark", MarkWrites(job[w].run)
          PROVE  FALSE
      BY <2>2, <3>4, MarkOutbox
    <3> QED  BY <3>1, <3>2, <3>3, <3>4, OnlyPublicationWrites
  <2> QED  BY <2>1, <2>2
<1> QED  BY <1>1, <1>2, TypeInvariant, ArchivingInvariant, PTL DEF Spec

-----------------------------------------------------------------------------
(***************************************************************************)
(* Nothing durable is rewritten                                            *)
(***************************************************************************)

\* Runtime rows are written by tracker snapshots and by mark_published.
LEMMA OnlySnapshotsWrite ==
    ASSUME TypeInv, [Next]_vars
    PROVE  \/ UNCHANGED runtime
           \/ \E w \in Workers, state \in States :
                job[w].exec \in Nat /\ SaveRuntime(w, state)
           \/ \E r \in Runs : MarkWrites(r)
<1>1. ASSUME NEW w \in Workers, Step(w), ~RunStages(w), ~StageFails(w),
             ~PersistConflict(w), ~SavePendingConflict(w), ~SaveSuccessFails(w),
             ~RefuseFailedPublication(w), ~PutConflict(w), ~CompleteRuntime(w),
             ~MarkPublished(w), ~MarkPublishedFails(w)
      PROVE  UNCHANGED runtime
  BY <1>1 DEF Step, ReceiveMessage, AcquireExecution, DownloadFails,
     AllocateIdentifiers, AllocationExhausted, ArchiveGenerationFails,
     Persist, SaveSuccess, StartPublication, PutObject, PutFails,
     DeleteMessage
<1>2. ASSUME NEW w \in Workers,
             \/ RunStages(w) \/ StageFails(w) \/ PersistConflict(w)
             \/ SavePendingConflict(w) \/ SaveSuccessFails(w)
             \/ RefuseFailedPublication(w) \/ PutConflict(w)
             \/ CompleteRuntime(w)
      PROVE  UNCHANGED runtime \/ \E state \in States : SaveRuntime(w, state)
  BY <1>2 DEF States, PublicationRejected, RunStages, StageFails,
     PersistConflict, SavePendingConflict, SaveSuccessFails,
     RefuseFailedPublication, PutConflict, CompleteRuntime
<1>3. ASSUME NEW w \in Workers, MarkPublished(w) \/ MarkPublishedFails(w)
      PROVE  UNCHANGED runtime \/ \E r \in Runs : MarkWrites(r)
  BY <1>3 DEF MarkPublished, MarkPublishedFails, TypeInv, JobShape
<1>4. ASSUME NEW w \in Workers, Crash(w) PROVE UNCHANGED runtime
  BY <1>4 DEF Crash
<1>5. ASSUME NEW m \in Messages, Queue(m) PROVE UNCHANGED runtime
  BY <1>5 DEF Queue, VisibilityTimeout, Redrive
<1>6. CASE UNCHANGED vars
  BY <1>6 DEF vars
<1>7. \A w \in Workers : job[w].exec \in Nat
  BY DEF TypeInv, TypeOK, Job
<1> QED  BY <1>1, <1>2, <1>3, <1>4, <1>5, <1>6, <1>7 DEF Next

\* A Runtime row is never replaced by an older execution's, and a terminal
\* state is final for its execution.
LEMMA RuntimeMonotone ==
    ASSUME TypeInv, [Next]_vars, NEW s \in Scopes, runtime[s] # None
    PROVE  /\ runtime'[s] # None
           /\ runtime'[s].exec >= runtime[s].exec
           /\ runtime'[s].exec = runtime[s].exec /\ runtime[s].state # "running"
                 => runtime'[s] = runtime[s]
<1> DEFINE Goal ==
      /\ runtime'[s] # None
      /\ runtime'[s].exec >= runtime[s].exec
      /\ runtime'[s].exec = runtime[s].exec /\ runtime[s].state # "running"
            => runtime'[s] = runtime[s]
<1>1. /\ runtime \in [Scopes -> RuntimeRow \cup {None}]
      /\ runtime[s] \in RuntimeRow /\ runtime[s].exec \in Nat
      /\ runtime[s] = [exec |-> runtime[s].exec, state |-> runtime[s].state]
  BY DEF TypeInv, TypeOK, RuntimeRow
<1>2. CASE runtime'[s] = runtime[s]
  BY <1>1, <1>2
<1>3. ASSUME NEW w \in Workers, NEW state \in States, job[w].exec \in Nat,
             SaveRuntime(w, state), runtime'[s] # runtime[s]
      PROVE  Goal
  <2> DEFINE row == [exec |-> job[w].exec, state |-> state]
  <2>1. /\ runtime'[s] = row
        /\ RuntimeAccepts(runtime[s], job[w].exec, state)
    BY <1>1, <1>3 DEF SaveRuntime
  <2>2. row \in RuntimeRow /\ row # None
    BY <1>3, NoneIsNoRow DEF RuntimeRow
  <2> QED  BY <1>1, <1>3, <2>1, <2>2 DEF RuntimeAccepts
<1>4. ASSUME NEW r \in Runs, MarkWrites(r), runtime'[s] # runtime[s]
      PROVE  Goal
  <2>1. /\ runtime[s].state = "running"
        /\ runtime'[s] = [runtime[s] EXCEPT !.state = "completed"]
    BY <1>1, <1>4 DEF MarkWrites
  <2>2. [runtime[s] EXCEPT !.state = "completed"] \in RuntimeRow
    BY <1>1 DEF RuntimeRow, States
  <2> QED  BY <1>1, <2>1, <2>2, NoneIsNoRow DEF RuntimeRow
<1> QED  BY <1>2, <1>3, <1>4, OnlySnapshotsWrite

\* DurableNeverRewritten: receipts, results, outbox payloads and archive
\* objects are write-once, and terminal Runtime snapshots are final.
THEOREM DurableIsFinal == Spec => DurableNeverRewritten
<1> DEFINE Final ==
      /\ \A o \in Objects : receipts[o] # None => receipts'[o] = receipts[o]
      /\ \A r \in Runs :
           /\ runs[r] # None => runs'[r] = runs[r]
           /\ pubs[r] # None =>
                pubs'[r] # None /\ pubs'[r].payload = pubs[r].payload
           /\ \A part \in {"evidence", "summary"} :
                archive[r][part] # None => archive'[r][part] = archive[r][part]
      /\ \A s \in Scopes : runtime[s] # None =>
           /\ runtime'[s] # None
           /\ runtime'[s].exec >= runtime[s].exec
           /\ runtime'[s].exec = runtime[s].exec /\ runtime[s].state # "running"
                 => runtime'[s] = runtime[s]
<1>1. TypeInv /\ TypeInv' /\ Execution /\ [Next]_vars => [Final]_vars
  <2> SUFFICES ASSUME TypeInv, TypeInv', Execution, [Next]_vars PROVE Final
    OBVIOUS
  <2>1. \A r \in Runs : runs[r] # None => runs'[r] = runs[r]
    <3>1. CASE UNCHANGED <<receipts, runs>>
      BY <3>1
    <3>2. ASSUME NEW w \in Workers, pc[w] = "commit", CommitWrites(w)
          PROVE  \A r \in Runs : runs[r] # None => runs'[r] = runs[r]
      BY <3>2, CommitEffect
    <3> QED  BY <3>1, <3>2, OnlyCommitsWrite
  <2>2. \A r \in Runs : \A part \in {"evidence", "summary"} :
           archive[r][part] # None => archive'[r][part] = archive[r][part]
    BY ArchiveGrows
  <2> QED  BY <2>1, <2>2, ReceiptsGrow, PayloadFinal, RuntimeMonotone
<1> QED
  BY <1>1, TypeInvariant, ExecutionInvariant, PTL DEF Spec, DurableNeverRewritten

-----------------------------------------------------------------------------
(***************************************************************************)
(* Receipts and Runtime rows point at committed results                    *)
(***************************************************************************)

\* Uploads whose decisions a replay would take for each other are one upload.
DecisionsDiffer == \A o, p \in Objects : SameDecision(o, p) => o = p

\* ReceiptHoldsOwnResults: where the decisions of two uploads always differ,
\* the run a receipt names holds the results of that very upload, also when
\* the run ids collide, a commit is lost or a Worker dies.  (Uploads with
\* equal decisions may share a run: the run worker_shared_run_id.)
THEOREM ReceiptsHoldOwnResults ==
    ASSUME DecisionsDiffer
    PROVE  Spec => []ReceiptHoldsOwnResults
<1>1. TypeOK /\ ReceiptNamesDecision => ReceiptHoldsOwnResults
  <2> SUFFICES ASSUME TypeOK, ReceiptNamesDecision, NEW o \in Objects,
                      receipts[o] # None
               PROVE  runs[receipts[o]] = o
    BY DEF ReceiptHoldsOwnResults
  <2>1. runs[receipts[o]] \in Objects
    BY DEF TypeOK, ReceiptNamesDecision
  <2>2. SameDecision(runs[receipts[o]], o)
    BY DEF ReceiptNamesDecision
  <2> QED  BY <2>1, <2>2 DEF DecisionsDiffer
<1> QED  BY <1>1, TypeCorrect, ReceiptsNameDecisions, PTL

\* A Worker past its commit, or taking up an earlier one's publication, has
\* the run in hand that the receipt of its object names; the outbox row of a
\* run exists only with the run's results, and only where R1 is configured.
Durability ==
    /\ \A w \in Workers : pc[w] \in Committed => receipts[job[w].obj] = job[w].run
    /\ \A r \in Runs : pubs[r] # None => R1Enabled /\ runs[r] # None

LEMMA DurabilityOfOthers ==
    ASSUME TypeInv, Execution, Durability, [Next]_vars, NEW v \in Workers,
           pc'[v] \in Committed => pc[v] \in Committed /\
               job'[v].obj = job[v].obj /\ job'[v].run = job[v].run
    PROVE  pc'[v] \in Committed => receipts'[job'[v].obj] = job'[v].run
<1> SUFFICES ASSUME pc'[v] \in Committed
             PROVE  receipts'[job'[v].obj] = job'[v].run
  OBVIOUS
<1>1. /\ job[v].obj \in Objects /\ job[v].run \in Runs
      /\ receipts[job[v].obj] = job[v].run
  BY DEF TypeInv, JobShape, Durability
<1>2. receipts[job[v].obj] # None
  BY <1>1, ConstantsAssumption
<1> QED  BY <1>1, <1>2, ReceiptsGrow

\* Only AcquireExecution and SaveSuccess put a Worker among the committed.
LEMMA CommittedEntry ==
    ASSUME TypeInv, [Next]_vars, NEW v \in Workers, pc'[v] \in Committed
    PROVE  \/ /\ pc[v] \in Committed
              /\ job'[v].obj = job[v].obj /\ job'[v].run = job[v].run
           \/ AcquireExecution(v)
           \/ SaveSuccess(v)
<1> DEFINE Stays == /\ pc[v] \in Committed
                    /\ job'[v].obj = job[v].obj /\ job'[v].run = job[v].run
           Elsewhere(w) == v # w /\ pc'[v] = pc[v] /\ job'[v] = job[v]
<1>1. ASSUME NEW w \in Workers, Retain(w) PROVE Stays
  BY <1>1, RetainTyped
<1>2. ASSUME NEW w \in Workers, pc[w] # "idle", NextInput(w) PROVE Stays
  <2>1. pc'[w] \in {"delete", "acquire"}
    BY <1>2 DEF NextInput, TypeInv, TypeOK
  <2> QED  BY <1>2, <2>1, NextInputTyped
<1>3. ASSUME NEW w \in Workers, NEW m \in Messages, ReceiveMessage(w, m)
      PROVE  Stays
  <2>1. CASE m \in Malformed
    BY <1>3, <2>1 DEF ReceiveMessage
  <2>2. CASE m \notin Malformed
    <3>1. /\ \A u \in Workers \ {w} : pc'[u] = pc[u] /\ job'[u] = job[u]
          /\ pc'[w] \in {"delete", "acquire"}
      BY <1>3, <2>2 DEF ReceiveMessage, TypeInv, TypeOK
    <3> QED  BY <3>1
  <2> QED  BY <2>1, <2>2
<1>4. ASSUME NEW w \in Workers, DeleteMessage(w) PROVE Stays
  BY <1>4 DEF DeleteMessage, TypeInv, TypeOK
<1>5. ASSUME NEW w \in Workers, AcquireExecution(w)
      PROVE  Stays \/ AcquireExecution(v)
  BY <1>5, AcquireEffect
<1>6. ASSUME NEW w \in Workers, SaveSuccess(w) PROVE Stays \/ SaveSuccess(v)
  <2>1. \A u \in Workers \ {w} : pc'[u] = pc[u]
    BY <1>6 DEF SaveSuccess, TypeInv, TypeOK
  <2>2. \A u \in Workers \ {w} : job'[u] = job[u]
    BY <1>6, SaveEffect
  <2> QED  BY <1>6, <2>1, <2>2
<1>7. ASSUME NEW w \in Workers, AllocateIdentifiers(w) PROVE Stays
  <2>1. /\ \A u \in Workers \ {w} : pc'[u] = pc[u] /\ job'[u] = job[u]
        /\ pc'[w] = "stages"
    BY <1>7, AllocateEffect DEF AllocateIdentifiers, TypeInv, TypeOK
  <2> QED  BY <2>1
<1>8. ASSUME NEW w \in Workers, Persist(w) PROVE Stays
  <2>1. /\ \A u \in Workers \ {w} : pc'[u] = pc[u] /\ job'[u] = job[u]
        /\ pc'[w] = "commit"
    BY <1>8, PersistEffect DEF Persist, TypeInv, TypeOK
  <2> QED  BY <2>1
<1>9. ASSUME NEW w \in Workers,
             RunStages(w) \/ StartPublication(w) \/ PutObject(w)
      PROVE  Stays
  BY <1>9 DEF RunStages, StartPublication, PutObject, AfterPut, TypeInv, TypeOK
<1>10. ASSUME NEW w \in Workers, MarkPublished(w) PROVE Stays
  <2>1. CASE job[w].fresh
    BY <1>10, <2>1 DEF MarkPublished, TypeInv, TypeOK
  <2>2. CASE ~job[w].fresh
    BY <1>2, <1>10, <2>2 DEF MarkPublished
  <2> QED  BY <2>1, <2>2
<1>11. ASSUME NEW w \in Workers, CompleteRuntime(w) PROVE Stays
  BY <1>2, <1>11 DEF CompleteRuntime
<1>12. ASSUME NEW w \in Workers,
              \/ DownloadFails(w) \/ AllocationExhausted(w) \/ StageFails(w)
              \/ ArchiveGenerationFails(w) \/ PersistConflict(w)
              \/ SavePendingConflict(w) \/ SaveSuccessFails(w)
              \/ RefuseFailedPublication(w) \/ PutConflict(w) \/ PutFails(w)
              \/ MarkPublishedFails(w) \/ Crash(w)
       PROVE  Stays
  BY <1>1, <1>12 DEF DownloadFails, AllocationExhausted, StageFails,
     ArchiveGenerationFails, PersistConflict, SavePendingConflict,
     SaveSuccessFails, RefuseFailedPublication, PutConflict, PutFails,
     MarkPublishedFails, Crash, PublicationRejected
<1>13. ASSUME NEW m \in Messages, Queue(m) PROVE Stays
  BY <1>13 DEF Queue, VisibilityTimeout, Redrive
<1>14. CASE UNCHANGED vars
  BY <1>14 DEF vars
<1> QED
  BY <1>3, <1>4, <1>5, <1>6, <1>7, <1>8, <1>9, <1>10, <1>11, <1>12, <1>13,
     <1>14 DEF Next, Step

LEMMA DurabilityStep ==
    TypeInv /\ Execution /\ Durability /\ [Next]_vars => Durability'
<1> SUFFICES ASSUME TypeInv, Execution, Durability, [Next]_vars
             PROVE  Durability'
  OBVIOUS
<1>1. ASSUME NEW v \in Workers, pc'[v] \in Committed
      PROVE  receipts'[job'[v].obj] = job'[v].run
  <2>1. CASE AcquireExecution(v)
    <3>1. receipts' = receipts
      BY <2>1 DEF AcquireExecution, dbVars
    <3> QED  BY <1>1, <2>1, <3>1, AcquireEffect
  <2>2. CASE SaveSuccess(v)
    <3>1. receipts'[job[v].obj] = job[v].run
      BY <2>2, CommitEffect DEF SaveSuccess
    <3> QED  BY <2>2, <3>1, SaveEffect
  <2> QED  BY <1>1, <2>1, <2>2, CommittedEntry, DurabilityOfOthers
<1>2. ASSUME NEW r \in Runs, pubs'[r] # None
      PROVE  R1Enabled /\ runs'[r] # None
  <2>1. \A q \in Runs : runs[q] # None => runs'[q] # None
    <3>1. CASE UNCHANGED <<receipts, runs>>
      BY <3>1
    <3>2. ASSUME NEW w \in Workers, pc[w] = "commit", CommitWrites(w)
          PROVE  \A q \in Runs : runs[q] # None => runs'[q] # None
      BY <3>2, CommitEffect
    <3> QED  BY <3>1, <3>2, OnlyCommitsWrite
  <2>2. CASE pubs[r] # None
    BY <2>1, <2>2 DEF Durability
  <2>3. ASSUME NEW w \in Workers, pc[w] = "commit", CommitWrites(w),
               pubs[r] = None
        PROVE  R1Enabled /\ runs'[r] # None
    <3>1. R1Enabled /\ r = job[w].run
      BY <1>2, <2>3 DEF CommitWrites, TypeInv, TypeOK
    <3>2. runs'[r] \in {runs[r], job[w].obj} /\ runs'[r] # None
      BY <2>3, <3>1, CommitEffect, ConstantsAssumption
    <3> QED  BY <3>1, <3>2
  <2>4. ASSUME NEW w \in Workers, NEW status \in {"failed", "retryable"},
               pc[w] \in {"put_evidence", "put_summary"},
               RecordFailure(w, status), pubs[r] = None
        PROVE  FALSE
    BY <1>2, <2>4, FailureOutbox DEF Statuses
  <2>5. ASSUME NEW w \in Workers, pc[w] = "mark", MarkWrites(job[w].run),
               pubs[r] = None
        PROVE  FALSE
    BY <1>2, <2>5, MarkOutbox
  <2> QED  BY <1>2, <2>2, <2>3, <2>4, <2>5, OnlyPublicationWrites
<1> QED  BY <1>1, <1>2 DEF Durability

LEMMA DurabilityInvariant == Spec => []Durability
<1>1. Init => Durability
  BY DEF Init, Durability
<1> QED
  BY <1>1, DurabilityStep, TypeInvariant, ExecutionInvariant, PTL DEF Spec

\* A Runtime row becomes completed at the end of its own Worker's run, or with
\* the outbox row of its run id.
LEMMA OnlyCompletionsComplete ==
    ASSUME TypeInv, [Next]_vars, NEW s \in Scopes, runtime'[s] # runtime[s],
           runtime'[s].state = "completed"
    PROVE  \/ \E w \in Workers : /\ pc[w] = "complete"
                                 /\ s = <<job[w].run, Host[job[w].obj]>>
           \/ \E w \in Workers : /\ pc[w] = "mark"
                                 /\ s[1] = job[w].run
<1> DEFINE Goal ==
      \/ \E w \in Workers : /\ pc[w] = "complete"
                            /\ s = <<job[w].run, Host[job[w].obj]>>
      \/ \E w \in Workers : pc[w] = "mark" /\ s[1] = job[w].run
<1>1. ASSUME NEW w \in Workers, NEW state \in States, SaveRuntime(w, state)
      PROVE  state = "completed" /\ s = <<job[w].run, Host[job[w].obj]>>
  BY <1>1 DEF SaveRuntime, TypeInv, TypeOK
<1>2. ASSUME NEW w \in Workers, MarkWrites(job[w].run) PROVE s[1] = job[w].run
  BY <1>2 DEF MarkWrites
<1>3. ASSUME NEW w \in Workers, Step(w), ~RunStages(w), ~StageFails(w),
             ~PersistConflict(w), ~SavePendingConflict(w), ~SaveSuccessFails(w),
             ~RefuseFailedPublication(w), ~PutConflict(w), ~CompleteRuntime(w),
             ~MarkPublished(w), ~MarkPublishedFails(w)
      PROVE  UNCHANGED runtime
  BY <1>3 DEF Step, ReceiveMessage, AcquireExecution, DownloadFails,
     AllocateIdentifiers, AllocationExhausted, ArchiveGenerationFails,
     Persist, SaveSuccess, StartPublication, PutObject, PutFails,
     DeleteMessage
<1>4. ASSUME NEW w \in Workers,
             \/ RunStages(w) \/ StageFails(w) \/ PersistConflict(w)
             \/ SavePendingConflict(w) \/ SaveSuccessFails(w)
             \/ RefuseFailedPublication(w) \/ PutConflict(w)
      PROVE  \/ UNCHANGED runtime
             \/ SaveRuntime(w, "running") \/ SaveRuntime(w, "failed")
  BY <1>4 DEF PublicationRejected, RunStages, StageFails,
     PersistConflict, SavePendingConflict, SaveSuccessFails,
     RefuseFailedPublication, PutConflict
<1>5. ASSUME NEW w \in Workers, CompleteRuntime(w) PROVE Goal
  BY <1>1, <1>5 DEF CompleteRuntime, States
<1>6. ASSUME NEW w \in Workers, MarkPublished(w) \/ MarkPublishedFails(w)
      PROVE  Goal
  <2>1. pc[w] = "mark" /\ (UNCHANGED runtime \/ MarkWrites(job[w].run))
    BY <1>6 DEF MarkPublished, MarkPublishedFails
  <2> QED  BY <1>2, <2>1
<1>7. ASSUME NEW w \in Workers, Step(w) PROVE Goal
  BY <1>1, <1>3, <1>4, <1>5, <1>6, <1>7 DEF States
<1>8. ASSUME NEW w \in Workers, Crash(w) PROVE UNCHANGED runtime
  BY <1>8 DEF Crash
<1>9. ASSUME NEW m \in Messages, Queue(m) PROVE UNCHANGED runtime
  BY <1>9 DEF Queue, VisibilityTimeout, Redrive
<1>10. CASE UNCHANGED vars
  BY <1>10 DEF vars
<1> QED  BY <1>7, <1>8, <1>9, <1>10 DEF Next

\* For every configuration: a completed Runtime row's run id has committed
\* results.  complete_runtime and mark_published come after the commit.
CompletedHasResults ==
    \A r \in Runs, h \in Hosts :
        runtime[<<r, h>>] # None /\ runtime[<<r, h>>].state = "completed" =>
            runs[r] # None

\* mark_published completes the running rows of every entity of the run id, so
\* a row agrees with the entity of the results where R1 is off, or where the
\* uploads come from one entity.
CompletionScoped == R1Enabled => \A o, p \in Objects : Host[o] = Host[p]

LEMMA CommittedScope ==
    ASSUME TypeInv, Durability, ReceiptNamesDecision,
           NEW w \in Workers, pc[w] \in Committed
    PROVE  /\ job[w].run \in Runs /\ runs[job[w].run] # None
           /\ runs[job[w].run] \in Objects /\ job[w].obj \in Objects
           /\ Host[runs[job[w].run]] = Host[job[w].obj]
<1>1. /\ job[w].obj \in Objects /\ job[w].run \in Runs
      /\ receipts[job[w].obj] = job[w].run
  BY DEF TypeInv, JobShape, Durability
<1>2. receipts[job[w].obj] # None
  BY <1>1, ConstantsAssumption
<1>3. /\ runs[job[w].run] # None
      /\ SameDecision(runs[job[w].run], job[w].obj)
  BY <1>1, <1>2 DEF ReceiptNamesDecision
<1> QED  BY <1>1, <1>3 DEF SameDecision, TypeInv, TypeOK

\* The results of a run are final.
LEMMA RunsFinal ==
    ASSUME TypeInv, Execution, [Next]_vars, NEW r \in Runs, runs[r] # None
    PROVE  runs'[r] = runs[r]
<1>1. CASE UNCHANGED <<receipts, runs>>
  BY <1>1
<1>2. ASSUME NEW w \in Workers, pc[w] = "commit", CommitWrites(w)
      PROVE  runs'[r] = runs[r]
  BY <1>2, CommitEffect
<1> QED  BY <1>1, <1>2, OnlyCommitsWrite

\* No Runtime row is completed before the results of its run are committed,
\* whatever fails and however the Workers interleave.
THEOREM CompletedRunsHaveResults == Spec => []CompletedHasResults
<1>1. Init => CompletedHasResults
  BY DEF Init, CompletedHasResults, Scopes
<1>2. TypeInv /\ Execution /\ Durability /\ ReceiptNamesDecision
        /\ CompletedHasResults /\ [Next]_vars => CompletedHasResults'
  <2> SUFFICES ASSUME TypeInv, Execution, Durability, ReceiptNamesDecision,
                      CompletedHasResults, [Next]_vars,
                      NEW r \in Runs, NEW h \in Hosts,
                      runtime'[<<r, h>>] # None,
                      runtime'[<<r, h>>].state = "completed"
               PROVE  runs'[r] # None
    BY DEF CompletedHasResults, Hosts
  <2>1. runs[r] # None
    <3>1. CASE runtime'[<<r, h>>] = runtime[<<r, h>>]
      BY <3>1 DEF CompletedHasResults
    <3>2. CASE runtime'[<<r, h>>] # runtime[<<r, h>>]
      <4>1. <<r, h>> \in Scopes
        BY DEF Scopes
      <4>2. PICK w \in Workers : pc[w] \in Committed /\ r = job[w].run
        BY <3>2, <4>1, OnlyCompletionsComplete
      <4> QED  BY <4>2, CommittedScope
    <3> QED  BY <3>1, <3>2
  <2> QED  BY <2>1, RunsFinal
<1> QED
  BY <1>1, <1>2, TypeInvariant, ExecutionInvariant, DurabilityInvariant,
     ReceiptsNameDecisions, PTL DEF Spec

\* CompletedIsCommitted: where mark_published cannot reach another entity's
\* row, a completed row's own (run, entity) scope has committed results.
THEOREM CompletedAreCommitted ==
    ASSUME CompletionScoped
    PROVE  Spec => []CompletedIsCommitted
<1>1. Init => CompletedIsCommitted
  BY DEF Init, CompletedIsCommitted, Scopes
<1>2. TypeInv /\ Execution /\ Durability /\ ReceiptNamesDecision
        /\ CompletedIsCommitted /\ [Next]_vars => CompletedIsCommitted'
  <2> SUFFICES ASSUME TypeInv, Execution, Durability, ReceiptNamesDecision,
                      CompletedIsCommitted, [Next]_vars,
                      NEW r \in Runs, NEW h \in Hosts,
                      runtime'[<<r, h>>] # None,
                      runtime'[<<r, h>>].state = "completed"
               PROVE  runs'[r] # None /\ Host[runs'[r]] = h
    BY DEF CompletedIsCommitted, Hosts
  <2>1. runs[r] # None /\ Host[runs[r]] = h
    <3>1. CASE runtime'[<<r, h>>] = runtime[<<r, h>>]
      BY <3>1 DEF CompletedIsCommitted
    <3>2. CASE runtime'[<<r, h>>] # runtime[<<r, h>>]
      <4>1. <<r, h>> \in Scopes
        BY DEF Scopes
      <4>2. \/ \E w \in Workers : /\ pc[w] = "complete"
                                  /\ <<r, h>> = <<job[w].run, Host[job[w].obj]>>
            \/ \E w \in Workers : pc[w] = "mark" /\ r = job[w].run
        BY <3>2, <4>1, OnlyCompletionsComplete
      <4>3. ASSUME NEW w \in Workers, pc[w] = "complete",
                   <<r, h>> = <<job[w].run, Host[job[w].obj]>>
            PROVE  runs[r] # None /\ Host[runs[r]] = h
        BY <4>3, CommittedScope
      <4>4. ASSUME NEW w \in Workers, pc[w] = "mark", r = job[w].run
            PROVE  runs[r] # None /\ Host[runs[r]] = h
        <5>1. runs[r] # None /\ runs[r] \in Objects
          BY <4>4, CommittedScope
        <5>2. pubs[r] # None
          BY <4>4 DEF TypeInv, JobShape
        <5>3. R1Enabled
          BY <5>2 DEF Durability
        <5> QED  BY <5>1, <5>3 DEF CompletionScoped, Hosts
      <4> QED  BY <4>2, <4>3, <4>4
    <3> QED  BY <3>1, <3>2
  <2> QED  BY <2>1, RunsFinal
<1> QED
  BY <1>1, <1>2, TypeInvariant, ExecutionInvariant, DurabilityInvariant,
     ReceiptsNameDecisions, PTL DEF Spec
=============================================================================
