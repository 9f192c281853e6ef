SPECIFICATION Spec
CONSTANTS
    Users = {a, b}
    Reqs = {r1, r2}
    MaxCalls = 2
    MaxRestarts = 0
    None = None
SYMMETRY Symmetry
INVARIANTS MissedWasUnanswered
CHECK_DEADLOCK FALSE
