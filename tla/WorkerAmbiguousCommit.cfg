SPECIFICATION Spec
CONSTANTS
    m1 = m1
    m2 = m2
    m3 = m3
    o1 = o1
    o2 = o2
    w1 = w1
    w2 = w2
    None = None
    Workers = {w1}
    Messages = {m1}
    Objects = {o1}
    Records <- SingleMessage
    Malformed = {}
    Host <- OneHost
    Verdict <- Distinct
    Payload <- Distinct
    Foreign = {}
    RunCount = 1
    MaxReceive = 3
    R1Enabled = TRUE
    Faults = {"ambiguous"}
    MaxCrashes = 0
INVARIANTS
    DurablePayloadPublishable
CHECK_DEADLOCK FALSE
