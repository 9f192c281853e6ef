SPECIFICATION Spec
CONSTANTS
    People = {user, merchant}
    merchant = merchant
    Offers = {o1}
    Owner <- MCOwner
    Vouchers = {v1}
    Codes = {}
    Reqs = {r1, r2}
    Sent = {}
    MaxStars = 0
    MaxAborts = 0
    None = None
SYMMETRY Symmetry
INVARIANTS RedeemedOnce
CHECK_DEADLOCK FALSE
