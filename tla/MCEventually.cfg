SPECIFICATION FairSpec
CONSTANTS
    None = None
    Reqs = {r1, r2}
    MaxAborts = 1
    Users = {u1, u2}
    MaxCalls = 1
    MaxRestarts = 0
    Ads = {a1}
    Reporters = {u3}
    Threshold = 2
    EditStatus = {"active", "expired", "pending"}
    MaxResyncs = 1
    AdReqs = {r1}
    Merchants = {m1}
    MaxProducts = 1
    Stocks = {0, 10}
    MaxFailures = 1
    ProductReqs = {r1}
PROPERTIES
    RingingEnds
    AdsLeave
    
CHECK_DEADLOCK FALSE
