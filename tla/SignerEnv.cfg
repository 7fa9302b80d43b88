SPECIFICATION Spec
CONSTANTS
    Request = {r1, r2}
    Sources = {"file", "env"}
    Life = 7
    Margin = 5
    Pause = 1
    MaxTime = 10
    Unreadable = Unreadable
    None = None
INVARIANT FileIsPickedUp
