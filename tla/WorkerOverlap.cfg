SPECIFICATION Spec
CONSTANTS
    m1 = m1
    m2 = m2
    m3 = m3
    o1 = o1
    o2 = o2
    w1 = w1
    w2 = w2
    None = None
    Workers = {w1, w2}
    Messages = {m1, m2}
    Objects = {o1, o2}
    Records <- OverlappingMessages
    Malformed = {}
    Host <- OneHost
    Verdict <- SameMiss
    Payload <- Distinct
    Foreign = {}
    RunCount = 2
    MaxReceive = 2
    R1Enabled = TRUE
    Faults = {"s3", "ambiguous"}
    MaxCrashes = 0
SYMMETRY WorkerSymmetry
INVARIANTS
    AtMostOneRunPerObject
    ReceiptNamesDecision
    DeletedIsReceipted
    ConflictOnlyFromOutside
PROPERTIES
    DurableNeverRewritten
CHECK_DEADLOCK FALSE
