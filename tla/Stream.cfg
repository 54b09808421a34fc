SPECIFICATION Safety
CONSTANTS
    Outboxes <- Boxes
    Ingresses = {i1, i2}
    Sidecars = {s1}
    Finalizers = {f1}
    Proofs = {good, bad, tardy}
    ValidProofs = {good, tardy}
    LateProofs = {tardy}
    Contract = {"p"}
    WatermarkLock = TRUE
    MaxCrashes = 1
    MaxDeaths = 1
    None = None
INVARIANTS LedgerIsPrefix CheckpointIsPrefix FinalizedCoversClose ArtifactsMatchCheckpoint
PROPERTIES LedgerSpec TerminalIsFinal
CHECK_DEADLOCK FALSE
