SPECIFICATION Spec
CONSTANTS
    Collection = {c1, c2}
    Bundled = {c1}
    Torn = Torn
    None = None
    Task = {k1}
    Thread = {t1}
    Home <- Together
    FaultSteps <- SyncFails
INVARIANT RepeatIsDurable
