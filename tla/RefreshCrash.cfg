SPECIFICATION Spec
CONSTANTS
    Generation = {g1, g2, g3}
    Proc = {p1, p2}
    Worker = {w1}
    Seed = Seed
    None = None
    Open = Open
    Empty = Empty
    Down = Down
    FaultSteps <- RollbackFaults
    Disruptions <- Crashes
INVARIANTS NoDanglingPointer SurvivingCopy
CHECK_DEADLOCK FALSE
SYMMETRY Symmetry
