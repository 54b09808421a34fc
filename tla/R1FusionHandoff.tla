---------------------------- MODULE R1FusionHandoff ----------------------------
(***************************************************************************)
(* consume_published_r1_evidence: the published set of a verified close is *)
(* validated, fused and recorded in an output directory and, with a        *)
(* connection, in the decision store.  A directory holds one execution     *)
(* identity; its hash-chained trace says how far the handoff got.          *)
(*                                                                         *)
(* A command is [dir, config, fast, connected].  The published set is      *)
(* [status, mode, trusted, restored, evidences, events, envelope, receipt, *)
(* at].  A directory is [trace, torn, result, stopping, decision]; torn    *)
(* says how the last line of the trace ends: "no" (with its newline),      *)
(* "newline" (a whole record, the newline is missing) or "partial".        *)
(* episode.clock is what the clock may read, episode.limit bounds the      *)
(* commands of a process.                                                  *)
(***************************************************************************)
EXTENDS R1CausalReplay, DecisionStore

CONSTANT Directories

VARIABLES dir,          \* output directory -> its files
          dirLock,      \* output directory -> the process that locked it, or None
          validation,   \* inputs_validated_at of the published set, or None
          ho            \* process -> its command

handoffVars == <<dir, dirLock, validation, ho>>

NoCommand ==
    [phase |-> "idle", cmd |-> None, at |-> None, out |-> None, decision |-> None,
     prior |-> None, count |-> 0]

Leave(p) ==
    /\ ho' = [ho EXCEPT ![p] = [NoCommand EXCEPT !.count = ho[p].count]]
    /\ dirLock' = [d \in Directories |-> IF dirLock[d] = p THEN None ELSE dirLock[d]]

Goto(p, phase) == ho' = [ho EXCEPT ![p].phase = phase] /\ UNCHANGED dirLock

\* r1_directory_lock.
Acquire(p, cmd) ==
    /\ ho[p].phase = "idle" /\ ho[p].count < episode.limit[p]
    /\ dirLock[cmd.dir] = None
    /\ dirLock' = [dirLock EXCEPT ![cmd.dir] = p]
    /\ ho' = [ho EXCEPT ![p] = [NoCommand EXCEPT !.phase = "input", !.cmd = cmd,
                                                 !.count = ho[p].count + 1]]
    /\ UNCHANGED <<dir, validation>>

-----------------------------------------------------------------------------
\* _validate_published_input and the strict incremental join.
IncrementalEnvelope(evidences, meta) ==
    [run |-> meta.run, entity |-> meta.target, start |-> meta.start, end |-> meta.end,
     ids |-> IdsOf(evidences)]

PublishedValid(pub, meta) ==
    /\ pub.status = "finalized" /\ pub.mode = "verified_close_proof"
    /\ meta.end # None
    /\ pub.trusted
    /\ pub.evidences = pub.restored
    /\ \A i \in DOMAIN pub.evidences :
          pub.evidences[i].events \subseteq {e.id : e \in pub.events}
    /\ pub.envelope = IncrementalEnvelope(pub.restored, meta)
    /\ pub.receipt = pub.envelope
    /\ \A i, j \in DOMAIN pub.restored : i # j => pub.restored[i].id # pub.restored[j].id

\* The first validation of a published set is recorded beside it and reused by
\* every later one, also from other directories.
CheckInput(p) ==
    /\ ho[p].phase = "input"
    /\ IF ~PublishedValid(episode.pub, episode.meta) THEN Goto(p, "reject")
       ELSE IF validation # None
         THEN ho' = [ho EXCEPT ![p].phase = "identity", ![p].at = validation]
       ELSE \E now \in episode.clock :
              IF now < episode.pub.at THEN Goto(p, "reject")
              ELSE ho' = [ho EXCEPT ![p].phase = "validated", ![p].at = now]
    /\ UNCHANGED <<dir, dirLock, validation>>

\* Two directories over one published set: the link of the later one fails.
RecordValidation(p) ==
    /\ ho[p].phase = "validated"
    /\ \/ /\ validation \in {None, ho[p].at}
          /\ validation' = ho[p].at
          /\ Goto(p, "identity")
       \/ /\ validation # None
          /\ UNCHANGED validation
          /\ Goto(p, "reject")
    /\ UNCHANGED dir

-----------------------------------------------------------------------------
\* The execution identity.  The decision id is a digest of the run, of it and of
\* the fusion result, which is a function of it: the model uses the identity.
Identity(h) == <<"R1", h.at, h.cmd.config.version, h.cmd.fast.detection.status>>

\* R1OperationalTrace: records() raises on a torn record, so every append does.
Readable(d) == dir[d].torn # "partial"

Accepted(d) == {dir[d].trace[i].identity : i \in {k \in DOMAIN dir[d].trace :
                                      dir[d].trace[k].stage = "handoff_accepted"}}

Recorded(d, identity) ==
    {i \in DOMAIN dir[d].trace : /\ dir[d].trace[i].stage = "decision_recorded"
                                 /\ dir[d].trace[i].identity = identity}

\* A handoff that does not look at who used its directory before.
AnyIdentity(d, identity) == TRUE

SingleIdentity(d, identity) == Accepted(d) \subseteq {identity}

\* _load_completed_handoff: the files must be the ones the last record names.
FilesMatch(d, r) ==
    /\ dir[d].result = r.result /\ dir[d].stopping = r.stopping
    /\ dir[d].decision = r.decision

CheckIdentity(p) ==
    LET h == ho[p]
        d == h.cmd.dir
        done == Recorded(d, Identity(h))
        last == dir[d].trace[Max(done)]
    IN  /\ h.phase = "identity"
        /\ IF ~Readable(d) THEN Leave(p)
           ELSE IF ~SingleIdentity(d, Identity(h)) THEN Goto(p, "reject")
           ELSE IF done = {} THEN Goto(p, "accept")
           ELSE IF ~FilesMatch(d, last) \/ ~h.cmd.connected THEN Leave(p)
           ELSE /\ ho' = [ho EXCEPT ![p].phase = "persist", ![p].prior = last,
                                    ![p].out = [fusion |-> dir[d].result, trace |-> dir[d].stopping],
                                    ![p].decision = last.decision]
                /\ UNCHANGED dirLock
        /\ UNCHANGED <<dir, validation>>

-----------------------------------------------------------------------------
\* The record a command is about to append, and where it goes from there.
StageOf(phase) ==
    CASE phase = "reject"    -> "handoff_rejected"
      [] phase = "accept"    -> "handoff_accepted"
      [] phase = "start"     -> "fusion_processing_started"
      [] phase = "fail"      -> "fusion_processing_failed"
      [] phase = "completed" -> "fusion_processing_completed"
      [] phase = "record"    -> "decision_recorded"

NewRecord(h) ==
    LET complete == h.phase \in {"completed", "record"}
    IN  [stage |-> StageOf(h.phase),
         identity |-> IF h.phase \in {"accept", "record"} THEN Identity(h) ELSE None,
         result |-> IF complete THEN FusionJson(h.out.fusion) ELSE None,
         stopping |-> IF complete THEN h.out.trace ELSE None,
         decision |-> h.decision,
         persisted |-> h.phase = "record" /\ h.cmd.connected]

\* A decision that was recorded without the database is recorded again as it was.
TraceRecord(h) ==
    IF h.phase = "record" /\ h.prior # None THEN [h.prior EXCEPT !.persisted = TRUE]
    ELSE NewRecord(h)

Appending == {"reject", "accept", "start", "fail", "completed", "record"}

AfterAppend(phase) ==
    CASE phase = "accept" -> "start" [] phase = "start" -> "fuse"
      [] phase = "completed" -> "decide" [] OTHER -> "idle"

\* An append after a record whose newline is missing glues two records into one
\* line: from then on the trace cannot be read.
AppendRecord(p) ==
    LET d == ho[p].cmd.dir
    IN  /\ ho[p].phase \in Appending
        /\ Readable(d)
        /\ dir' = [dir EXCEPT ![d].trace = Append(@, TraceRecord(ho[p])),
                              ![d].torn = IF @ = "newline" THEN "partial" ELSE "no"]
        /\ IF AfterAppend(ho[p].phase) = "idle" THEN Leave(p)
           ELSE Goto(p, AfterAppend(ho[p].phase))
        /\ UNCHANGED validation

AppendFails(p) ==
    /\ ho[p].phase \in Appending
    /\ ~Readable(ho[p].cmd.dir)
    /\ Leave(p)
    /\ UNCHANGED <<dir, validation>>

\* The process ends in the write of a record.
TornAppend(p) ==
    LET d == ho[p].cmd.dir
    IN  /\ ho[p].phase \in Appending
        /\ dir[d].torn = "no"
        /\ \/ dir' = [dir EXCEPT ![d].torn = "partial"]
           \/ dir' = [dir EXCEPT ![d].trace = Append(@, TraceRecord(ho[p])),
                                 ![d].torn = "newline"]
        /\ Leave(p)
        /\ UNCHANGED validation

-----------------------------------------------------------------------------
\* Causal fusion, and the results as immutable files.
Fuse(p) ==
    LET s == Scheduled(episode.pub.restored, ho[p].at)
        c == CausalOutput(ho[p].cmd.config, s, episode.meta)
    IN  /\ ho[p].phase = "fuse"
        /\ IF ~CausalAccepts(s, episode.meta.start, episode.meta.end) THEN Goto(p, "fail")
           ELSE IF c.valid /\ FusionResultValid(c.fusion)
             THEN /\ ho' = [ho EXCEPT ![p].phase = "result",
                                      ![p].out = [fusion |-> c.fusion, trace |-> c.trace]]
                  /\ UNCHANGED dirLock
           ELSE Leave(p)
        /\ UNCHANGED <<dir, validation>>

\* A publication that replaces what it finds.
Replacing(old, new) == TRUE

\* _publish_immutable_bytes: the same content again, or nothing there yet.
Publishable(old, new) == old \in {None, new}

\* _publish_immutable_bytes refuses to replace a file by a different one.
PublishFile(p, f, content, next) ==
    LET d == ho[p].cmd.dir
    IN  /\ IF Publishable(dir[d][f], content)
             THEN dir' = [dir EXCEPT ![d][f] = content] /\ Goto(p, next)
             ELSE Leave(p) /\ UNCHANGED dir
        /\ UNCHANGED validation

PublishResult(p) ==
    /\ ho[p].phase = "result"
    /\ PublishFile(p, "result", FusionJson(ho[p].out.fusion), "stopping")

PublishStopping(p) ==
    /\ ho[p].phase = "stopping"
    /\ PublishFile(p, "stopping", ho[p].out.trace, "completed")

\* Without a connection a decision supersedes nothing.
Scope == <<episode.meta.run, episode.meta.target>>

HandoffDecision(h) ==
    Combine(h.cmd.fast, h.out.fusion, Identity(h), "parallel",
            IF h.cmd.connected THEN ExpectedSupersedes(Identity(h), Scope) ELSE None)

Decide(p) ==
    LET h == ho[p]
    IN  /\ h.phase = "decide"
        /\ IF /\ h.cmd.connected => Resolvable(Identity(h), Scope)
              /\ CombineAccepts(h.cmd.fast, h.out.fusion)
              /\ DecisionValid(HandoffDecision(h))
             THEN /\ ho' = [ho EXCEPT ![p].phase = "decision", ![p].decision = HandoffDecision(h)]
                  /\ UNCHANGED dirLock
             ELSE Leave(p)
        /\ UNCHANGED <<dir, validation>>

PublishDecision(p) ==
    /\ ho[p].phase = "decision"
    /\ PublishFile(p, "decision", ho[p].decision,
                   IF ho[p].cmd.connected THEN "persist" ELSE "record")

-----------------------------------------------------------------------------
\* persist_r1_results: the run must be registered with the same bounds, and the
\* store decides the rest.
RunRegistered ==
    LET r == runs[episode.meta.run]
    IN  /\ r # None
        /\ r.target = episode.meta.target /\ r.start = episode.meta.start
        /\ r.end = episode.meta.end

HandoffRuntime(h) ==
    [detection |-> h.cmd.fast.detection, fusion |-> FusionJson(h.out.fusion),
     trace |-> h.out.trace,
     config |-> [run |-> episode.meta.run, entity |-> episode.meta.target,
                 version |-> h.cmd.config.version]]

HandoffSubmission(h) ==
    [id |-> h.decision.id, scope |-> Scope, supersedes |-> h.decision.supersedes,
     decision |-> h.decision, runtime |-> HandoffRuntime(h), run |-> episode.meta.run,
     meta |-> episode.meta, saveRun |-> FALSE, events |-> episode.pub.events,
     coherent |-> SnapshotValid(h.decision, HandoffRuntime(h)),
     basis |-> [path |-> "r1", at |-> h.at, config |-> h.cmd.config, fast |-> h.cmd.fast]]

PersistHandoff(p) ==
    /\ ho[p].phase = "persist"
    /\ IF /\ RunRegistered
          /\ ResultScopeValid(episode.meta.run, episode.meta.target, episode.pub.events,
                              HandoffRuntime(ho[p]), ho[p].decision)
         THEN Submit(p, HandoffSubmission(ho[p])) /\ Goto(p, "persisting")
         ELSE Leave(p) /\ UNCHANGED storeVars
    /\ UNCHANGED <<dir, validation>>

\* A handoff that records its decision whatever the transaction came to.
AnyOutcome(p) == TRUE

PersistSucceeded(p) == tx[p].phase = "committed"

AlreadyPersisted(h) == h.prior # None /\ h.prior.persisted

\* A recorded handoff whose record already says persisted appends nothing.
Persisted(p) ==
    /\ ho[p].phase = "persisting"
    /\ tx[p].phase \in {"committed", "failed"}
    /\ IF PersistSucceeded(p) /\ ~AlreadyPersisted(ho[p]) THEN Goto(p, "record") ELSE Leave(p)
    /\ UNCHANGED <<dir, validation>>

\* The process ends between two steps; a transaction of it has ended before.
CrashHandoff(p) ==
    /\ ho[p].phase # "idle"
    /\ tx[p].phase \in {"idle", "committed", "failed"}
    /\ Leave(p)
    /\ UNCHANGED <<dir, validation>>

EmptyDirectory ==
    [trace |-> <<>>, torn |-> "no", result |-> None, stopping |-> None, decision |-> None]

HandoffInit ==
    /\ dir = [d \in Directories |-> EmptyDirectory]
    /\ dirLock = [d \in Directories |-> None]
    /\ validation = None
    /\ ho = [p \in Procs |-> NoCommand]

-----------------------------------------------------------------------------
\* The fusion a handoff is meant to find: everything counts from the time of the
\* validation on, and only while its event time is in the window.
R1Expected(d, basis) ==
    LET c     == basis.config
        times == CausalPoints(c, episode.meta.start, episode.meta.end)
        items == episode.pub.restored
        hit   == [i \in 1..Len(times) |->
                    /\ times[i] >= basis.at
                    /\ ReferenceHit(c, items, times[i])]
        fused == IF c.k > Len(times) THEN None ELSE ReferenceTime(times, hit)[c.k]
        known == {d.detectorTime, d.fusionTime} \ {None}
    IN  /\ d.fusion = IF fused = None THEN "miss" ELSE "detected"
        /\ d.fusionTime = fused
        /\ d.fast = basis.fast.detection.status
        /\ d.te = IF known = {} \/ d.fast = "not_evaluated" THEN None ELSE Min(known)
=============================================================================
