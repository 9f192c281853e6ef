SPECIFICATION StorefrontSpec
CONSTANTS
    None = None
    Reqs = {r1, r2}
    Merchants = {m1}
    MaxPromos = 2
    MaxPays = 1
    MaxUpdates = 1
    Limit = 1
    Listed = {"home"}
    MaxProducts = 1
    Stocks = {0, 10, 11}
    MaxFailures = 1
    MaxAds = 1
    MaxMessages = 1
    MaxSilent = 1
    MaxAborts = 1
    customer = customer
    merchant = merchant
    Offers = {o1, o2}
    Vouchers = {v1, v2}
    VoucherReqs = {one}
SYMMETRY Symmetry
INVARIANTS
    StorefrontTypeOK
    
    
    StatusFollowsStock
    EditedOnce
    InTurn
PROPERTY
    ImplementsShowcase
CHECK_DEADLOCK FALSE
