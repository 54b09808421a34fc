SPECIFICATION Spec
CONSTANTS
    m1 = m1
    m2 = m2
    m3 = m3
    o1 = o1
    o2 = o2
    w1 = w1
    w2 = w2
    None = None
    Workers = {w1, w2}
    Messages = {m1, m2}
    Objects = {o1, o2}
    Records <- SeparateMessages
    Malformed = {}
    Host <- TwoHosts
    Verdict <- SameMiss
    Payload <- Distinct
    Foreign = {}
    RunCount = 1
    MaxReceive = 2
    R1Enabled = FALSE
    Faults = {"commit", "ambiguous"}
    MaxCrashes = 1
SYMMETRY WorkerSymmetry
INVARIANTS
    ReceiptHoldsOwnResults
CHECK_DEADLOCK FALSE
