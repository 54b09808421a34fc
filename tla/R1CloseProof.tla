------------------------------ MODULE R1CloseProof ------------------------------
(***************************************************************************)
(* The verified close proof that Role4 issues and Role2 validates          *)
(* (collection/r1_role2_verified_close_proof.py).                          *)
(*                                                                         *)
(* A close is [id, run, finals, emitted], a final [part, mark, covered], a *)
(* partition [run, host, source].  A seal is [id, run, family, policy,     *)
(* close, completed, sealed, emitted].  A digest is what it is a digest    *)
(* of: two differ when the contents do.                                    *)
(***************************************************************************)
EXTENDS Integers, Values

Without(r, f) == [x \in DOMAIN r \ {f} |-> r[x]]

\* R1AcceptedRunCloseReceipt, and _validate_accepted_close_receipt
Receipt(x) == [run |-> x.run, close |-> x.id, digest |-> x]

ReceiptMatches(r, x) == r.run = x.run /\ r.close = x.id /\ r.digest = x

\* The fields of a seal, or of a proof, that the projection digest covers.
Projection(seal, run, host, family, policy, close, boundary, sealed, at) ==
    <<seal, run, host, family, policy, close, boundary, sealed, at>>

BoundaryOf(projection) == projection[7]

SealProjection(s, host) ==
    Projection(s.id, s.run, host, s.family, s.policy, s.close, s.completed, s.sealed, s.emitted)

ProofProjection(p) ==
    Projection(p.seal, p.run, p.host, p.family, p.policy, p.close, p.boundary, p.sealed,
               p.verifiedAt)

HostSealed(sealed, host) == \E f \in sealed : f.part.host = host

BoundaryCovered(sealed, boundary) == \A f \in sealed : f.mark >= boundary

\* R1VerifiedCandidateBoundary of a seal
VerifiedBoundary(s) ==
    [run |-> s.run, seal |-> s.id, close |-> s.close, boundary |-> s.completed,
     verifiedAt |-> s.emitted]

SourceBound(b, s, x, policy, host) ==
    /\ b = VerifiedBoundary(s)
    /\ s.run = x.run /\ s.close = x.id /\ s.sealed = x.finals
    /\ s.family = policy.family /\ s.policy = policy.id
    /\ HostSealed(s.sealed, host)
    /\ BoundaryCovered(s.sealed, b.boundary)
    /\ b.verifiedAt >= x.emitted

\* The proof of a seal, and when one is issued.
CloseProof(id, host, s, x, at) ==
    LET p == [id |-> id, run |-> s.run, host |-> host, family |-> s.family, policy |-> s.policy,
              seal |-> s.id, projection |-> SealProjection(s, host), close |-> x.id,
              closeDigest |-> x, emitted |-> x.emitted, boundary |-> s.completed,
              sealed |-> x.finals, verifiedAt |-> s.emitted, createdAt |-> at]
    IN  [f \in DOMAIN p \cup {"digest"} |-> IF f = "digest" THEN p ELSE p[f]]

CloseProofValid(p) ==
    /\ \A f, g \in p.sealed : f.part = g.part => f = g
    /\ \A f \in p.sealed : f.part.run = p.run
    /\ HostSealed(p.sealed, p.host)
    /\ BoundaryCovered(p.sealed, p.boundary)
    /\ p.verifiedAt >= p.emitted /\ p.createdAt >= p.verifiedAt
    /\ p.digest = Without(p, "digest")

Issuable(host, b, s, x, receipt, policy, at) ==
    /\ ReceiptMatches(receipt, x)
    /\ SourceBound(b, s, x, policy, host)
    /\ CloseProofValid(CloseProof("", host, s, x, at))

\* The digest the proof carries and the one its fields give are both the one
\* that the operator trusts.
ProjectionTrusted(p, trust) ==
    p.projection = trust.projection /\ ProofProjection(p) = trust.projection

\* validate_r1_role2_verified_close_proof; trust is [close, receipt, policy,
\* seal, projection], part the partition the caller expects.
CloseProofAccepted(p, trust, run, family, part, at) ==
    /\ ReceiptMatches(trust.receipt, trust.close)
    /\ p.digest = Without(p, "digest")
    /\ p.run = run /\ trust.close.run = run /\ part.run = run
    /\ p.host = part.host
    /\ p.family = family /\ trust.policy.family = family
    /\ p.seal = trust.seal /\ ProjectionTrusted(p, trust)
    /\ p.close = trust.close.id /\ p.closeDigest = trust.close
    /\ p.emitted = trust.close.emitted /\ p.sealed = trust.close.finals
    /\ \E f \in p.sealed : f.part = part
    /\ p.policy = trust.policy.id
    /\ BoundaryCovered(p.sealed, p.boundary)
    /\ p.verifiedAt >= trust.close.emitted
    /\ at >= p.createdAt
=============================================================================
