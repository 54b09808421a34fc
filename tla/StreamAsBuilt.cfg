SPECIFICATION Spec
CONSTANTS
    Outboxes <- AsBuilt
    Ingresses = {i1, i2}
    Sidecars = {s1}
    Finalizers = {f1}
    Proofs = {good}
    ValidProofs = {good}
    LateProofs = {}
    Contract = {"p"}
    WatermarkLock = FALSE
    MaxCrashes = 1
    MaxDeaths = 1
    None = None
PROPERTIES EventuallyAcked EventuallyConsumed
CHECK_DEADLOCK FALSE
