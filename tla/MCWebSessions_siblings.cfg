SPECIFICATION Spec
CONSTANTS
    r1 = r1
    r2 = r2
    Requests = {r1, r2}
    Operations = {"page"}
    Idle = 4
    Absolute = 6
    Threshold = 2
    Grace = 1
    Replays = FALSE
    Lossy = FALSE
    MaxLogins = 1
    MaxTime = 3
SYMMETRY Interchangeable
INVARIANT NeverBurnt
