SPECIFICATION Spec
CONSTANTS
    MaxJobs = 1
    Epsg = {1, 2}
    a = a
    b = b
    c = c
    None = None
    Torn = Torn
    Contents <- MCDropped
    FaultSteps = {}
    Disruptions = {}
INVARIANT DroppedFootprintIsDrawn
CHECK_DEADLOCK FALSE
