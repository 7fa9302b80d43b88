SPECIFICATION Spec
CONSTANTS
    Request = {r1, r2}
    Sources = {"file", "undated", "endpoint"}
    Life = 7
    Margin = 5
    Pause = 1
    MaxTime = 10
    Unreadable = Unreadable
    None = None
INVARIANTS TypeOK SignedAlive KeptOnlyUndated UnsignedMeansFailed RequiredIsSigned
