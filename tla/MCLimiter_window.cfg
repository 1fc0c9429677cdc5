SPECIFICATION Spec
CONSTANTS
    Reqs = {r1, r2}
    Entries = {e1, e2, e3, e4}
    NoEntry = NoEntry
    Limit = 2
    Window = 3
    MaxTime = 6
    MaxKept = 4
SYMMETRY Interchangeable
CHECK_DEADLOCK FALSE
INVARIANT
    WithinLimit
PROPERTY
    QuietIsForgiven
