--------------------------- MODULE R1EvidenceArtifacts ---------------------------
(***************************************************************************)
(* The Evidence and summary files of a Run (pipeline/r1_artifacts.py): a   *)
(* summary is [run, extractor, inputs, count, status, lineage, diagnostics,*)
(* error, digest, selector].  lineage is the canonical order of the given  *)
(* inputs, of which there is one here; a digest is what it is a digest of. *)
(***************************************************************************)
EXTENDS R1LineageEvidence

Extractor == "r1-v0.1"

\* R1SelectorProvenance, its policy being the selector's
SelectorProvenanceValid(s) == (s.status = "selected") <=> (s.diagnostics = {})

InputProvenance(in) ==
    [anchor |-> in.anchor, terminal |-> in.terminal, policy |-> in.policy.id,
     context |-> in.context]

LineageProvenanceValid(l) == LineageInputValid(l)

SummaryBase(run, batch, lineage, selector) ==
    [run |-> run, extractor |-> Extractor, inputs |-> Cardinality(batch), count |-> None,
     status |-> "failed", lineage |-> lineage, diagnostics |-> {}, error |-> TRUE,
     digest |-> None, selector |-> selector]

CompletedArtifacts(base, x) ==
    [evidence |-> x.evidences,
     summary |-> [base EXCEPT !.count = Cardinality(x.evidences), !.status = "completed",
                              !.error = FALSE, !.diagnostics = x.diagnostics,
                              !.digest = x.evidences]]

\* run_and_write_r1_evidence_artifacts: the files it publishes, evidence first.
\* One that raises publishes its failed summary alone.
ArtifactsOf(batch, run, in, selector) ==
    LET base == SummaryBase(run, batch, <<InputProvenance(in)>>, selector)
    IN  IF (\E e \in batch : e.run # run) \/ ExtractionRaises(batch, in)
          THEN [evidence |-> None, summary |-> base]
          ELSE CompletedArtifacts(base, Extract(batch, in))

SummaryContract(s) ==
    /\ \A i \in DOMAIN s.lineage : LineageProvenanceValid(s.lineage[i])
    /\ s.selector # None =>
          /\ SelectorProvenanceValid(s.selector)
          /\ (s.selector.status = "selected") <=> (s.lineage # <<>>)
          /\ s.selector.status = "failed" /\ s.status = "completed" => s.count = 0
    /\ IF s.status = "completed"
         THEN s.count # None /\ ~s.error /\ s.digest # None
         ELSE s.count = None /\ s.digest = None /\ s.diagnostics = {} /\ s.error

DeviationMatches(e, l) ==
    /\ Last(e.events) = l.terminal
    /\ IF l.context = <<>> THEN e.events[1] = l.anchor
       ELSE l.anchor \in Range(l.context) /\ Range(e.events) \cap Range(l.context) = {}
    /\ e.policy = l.policy

EvidenceMatches(e, lineage) ==
    \E i \in DOMAIN lineage :
        IF e.type = "deviation" THEN DeviationMatches(e, lineage[i])
        ELSE e.events[1] = lineage[i].terminal

CompletedArtifactsValid(evidences, s) ==
    /\ s.count = Cardinality(evidences) /\ s.extractor = Extractor
    /\ \A d, e \in evidences : d.id = e.id => d = e
    /\ \A e \in evidences : e.run = s.run /\ e.type \in {"follow_on", "deviation"}
    /\ \A e \in evidences : EvidenceMatches(e, s.lineage)

\* load_r1_evidence_artifacts
ArtifactsLoad(files) ==
    /\ files.summary # None /\ files.evidence # None
    /\ SummaryContract(files.summary) /\ files.summary.status = "completed"
    /\ files.summary.digest = files.evidence
    /\ CompletedArtifactsValid(files.evidence, files.summary)
=============================================================================
