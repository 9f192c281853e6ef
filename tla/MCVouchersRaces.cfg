SPECIFICATION Spec
CONSTANTS
    People = {user, merchant}
    merchant = merchant
    Offers = {o1}
    Owner <- MCOwner
    Vouchers = {v1}
    Codes = {c1}
    Reqs = {r1, r2}
    Sent = {"pending", "accepted"}
    MaxStars = 1
    MaxAborts = 1
    None = None
SYMMETRY Symmetry
INVARIANTS TypeOK OrderHasVoucher  OrderHistory
PROPERTY NeverUsableAgain
CHECK_DEADLOCK FALSE
