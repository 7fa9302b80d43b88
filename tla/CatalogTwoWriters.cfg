SPECIFICATION Spec
CONSTANTS
    Collection = {c1, c2}
    Bundled = {c1}
    Torn = Torn
    None = None
    Task = {k1}
    Thread = {t1, t2}
    Home <- Together
    FaultSteps <- NothingFails
INVARIANT CatalogKeepsAcknowledged
\* A truncated object in S3 keeps every replacement task from starting.
CHECK_DEADLOCK FALSE
