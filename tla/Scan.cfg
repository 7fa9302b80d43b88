SPECIFICATION Spec
CONSTANTS
    MaxJobs = 2
    Epsg = {1, 2}
    a = a
    b = b
    c = c
    None = None
    Torn = Torn
    Contents <- MCContents
    FaultSteps <- AllSteps
    Disruptions = {"kill", "restart", "delete", "payload", "tasks"}
INVARIANTS TypeOK CompleteIsDrawn RowsAreWhole DeletedLeavesNothing
PROPERTY JobEnds
\* The bound on jobs is reached.
CHECK_DEADLOCK FALSE
