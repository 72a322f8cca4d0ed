SPECIFICATION Spec
CONSTANTS
    Case = {a, b}
    MaxEvals = 3
    MaxRuns = 3
CHECK_DEADLOCK FALSE
INVARIANTS
    NoStaleSnapshot
