SPECIFICATION FairSpec
CONSTANTS
    m1 = m1
    m2 = m2
    m3 = m3
    o1 = o1
    o2 = o2
    w1 = w1
    w2 = w2
    None = None
    Workers = {w1, w2}
    Messages = {m1, m2}
    Objects = {o1}
    Records <- DuplicateMessages
    Malformed = {}
    Host <- OneHost
    Verdict <- Distinct
    Payload <- Distinct
    Foreign = {1}
    RunCount = 2
    MaxReceive = 2
    R1Enabled = TRUE
    Faults = {"s3", "stage", "telemetry", "commit"}
    MaxCrashes = 1
INVARIANTS
    PublishedArchiveComplete
    CompletedIsCommitted
PROPERTIES
    EventuallySettled
CHECK_DEADLOCK FALSE
