SPECIFICATION FairSpec
CONSTANTS
    Generation = {g1, g2}
    Proc = {p1, p2}
    Worker = {w1, w2}
    Seed = Seed
    None = None
    Open = Open
    Empty = Empty
    Down = Down
    FaultSteps <- ReportedFaults
    Disruptions <- OnlyRestarts
PROPERTIES WorkersReturn OutcomeIsReported
CHECK_DEADLOCK FALSE
