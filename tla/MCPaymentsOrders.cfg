\* Concurrent order creation with and without an idempotency key.
SPECIFICATION Spec
CONSTANTS
    None = None
    Orders = {o1, o2}
    Pays = {p1}
    Keys = {k1, n1}
    NullKeys = {n1}
    Reqs = {r1, r2}
    Amount = 1
    MaxAborts = 0
SYMMETRY Symmetry
INVARIANTS
    OrdersRecorded
    
