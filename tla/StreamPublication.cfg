SPECIFICATION Spec
CONSTANTS
    Outboxes <- Short
    Ingresses = {i1}
    Sidecars = {s1}
    Finalizers = {f1}
    Proofs = {good}
    ValidProofs = {good}
    LateProofs = {}
    Contract = {"p"}
    WatermarkLock = TRUE
    MaxCrashes = 1
    MaxDeaths = 1
    None = None
PROPERTY FinalizedIsPublished
CHECK_DEADLOCK FALSE
