SPECIFICATION Spec
CONSTANTS
    Generation = {g1, g2, g3}
    Proc = {p1, p2}
    Worker = {w1, w2}
    Seed = Seed
    None = None
    Open = Open
    Empty = Empty
    Down = Down
    FaultSteps <- RecoverableFaults
    Disruptions <- AdminEdits
INVARIANTS TypeOK ServedIsComplete CatalogMatchesMapfile ReadyIsActive NothingLeaked
PROPERTIES StagedBeforeStop ImplementsAbstract
\* The container may stop after a failed startup, and ids run out.
CHECK_DEADLOCK FALSE
SYMMETRY Symmetry
