SPECIFICATION Spec
CONSTANTS
    Thread = {t1, t2}
    d = d
    x = x
    Setting = {d, x}
    Default = d
    Payloads <- MCPayloads
    Layout = {l1, l2}
    Shipped = l1
    Procs = {4, 6}
    EnvProcs = 6
    MaxRequests = 3
    Keep = Keep
    Torn = Torn
    None = None
    FaultSteps <- CommandsFail
    Disruptions = {"admin", "container"}
INVARIANTS TypeOK AcknowledgedIsApplied QuietIsServed
PROPERTY MapfileIsServed
\* The bound on requests is reached.
CHECK_DEADLOCK FALSE
