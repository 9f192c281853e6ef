SPECIFICATION Spec
CONSTANTS
    Users = {a, b}
    Reqs = {r1, r2}
    MaxCalls = 2
    MaxRestarts = 1
    None = None
SYMMETRY Symmetry
INVARIANTS TypeOK InviteClearsStale CalleeRingsOnce
PROPERTY CallTimes
CHECK_DEADLOCK FALSE
