SPECIFICATION Spec
CONSTANTS
    None = None
    p1 = p1
    p2 = p2
    r1 = r1
    e1 = e1
    e2 = e2
    Ms = 2
    ReplayDuration = 4
    Ids <- MCIds
    Scopes <- MCScopes
    RunIds <- MCRuns
    Procs <- MCProcs
    Readers = {r1}
    MaxAttempts = 2
    Submissions <- MCSubmissions
    Directories = {"d1", "d2"}
    Scenarios <- MCScenarios
    Plans <- MCPlans
    Executions = {e1, e2}
    Second = 2
    MaxBuckets = 2
    MaxRecords = 2
    MaxFailures = 3
    StageFlushes = 2
    Queries <- MCQueries
    RecentSeconds = 1
    StaleAfter = 1
INVARIANTS
    HistoryIsRebuilt
    ViewIsConsistent
    DecisionIsReference
    MarkerImpliesContent
    TelemetryIsExact
    ClosedMeansStored
    EvidenceIsReference
    EvaluationIsReference
PROPERTIES
    HistoryKept
    TelemetryNeverRegresses
CHECK_DEADLOCK FALSE
