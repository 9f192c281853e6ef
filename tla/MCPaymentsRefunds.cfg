\* Concurrent refunds, verifications, failures and webhooks of one order.
SPECIFICATION Spec
CONSTANTS
    None = None
    Orders = {o1}
    Pays = {p1}
    Keys = {k1}
    NullKeys = {}
    Reqs = {r1, r2}
    Amount = 3
    MaxAborts = 1
SYMMETRY Symmetry
INVARIANTS
    TypeOK
    
    
    

    
