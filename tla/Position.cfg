SPECIFICATION Spec
CONSTANTS
    Instants <- MCInstants
    MaxRecord = 2
    MaxGeneration = 2
    MaxChunks = 2
    MaxFaults = 1
    None = None
    Torn = Torn
    Commands = {c1, c2}
    HandoffInputs <- MCInputs
    Expected <- MCExpected
    TerminalStates <- MCTerminal
    LastActionOf <- MCLastAction
INVARIANTS
    AckMeansDelivered
    CloseMeansCommitted
    StampsOrdered
    OutputsAgree
    BoundaryIsGroundTruth
PROPERTY
    KeepsPromise
SYMMETRY CommandSymmetry
CHECK_DEADLOCK FALSE
