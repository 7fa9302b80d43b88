SPECIFICATION Spec
CONSTANTS
    Collection = {c1, c2}
    Bundled = {}
    Torn = Torn
    None = None
    Task = {k1}
    Thread = {t1}
    Home <- Together
    FaultSteps <- EveryStepButStop
INVARIANTS TypeOK AcknowledgedIsDurable CatalogKeepsAcknowledged AcknowledgedIsServed DeletedIsGone
SYMMETRY Alike
