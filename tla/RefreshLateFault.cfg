SPECIFICATION Spec
CONSTANTS
    Generation = {g1, g2}
    Proc = {p1}
    Worker = {w1}
    Seed = Seed
    None = None
    Open = Open
    Empty = Empty
    Down = Down
    FaultSteps <- StatusFault
    Disruptions <- NoDisruptions
INVARIANT FailedRefreshKeepsPrior
CHECK_DEADLOCK FALSE
