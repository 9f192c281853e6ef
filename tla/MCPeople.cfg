SPECIFICATION PeopleSpec
CONSTANTS
    None = None
    Reqs = {r1, r2}
    Users = {u1, u2}
    Sockets = {r1, r2, s3}
    MaxAsked = 4
    MaxRestarts = 1
    MaxAborts = 1
    Emails = {e1, e2}
    AdminEmails = {e2}
    MaxUsers = 2
    MaxSeconds = 2
    MaxChanges = 2
    Words = {w1, w2, w3, w4}
    MaxOtps = 3
    Kept = 2
    MaxConvs = 2
    MaxMessages = 2
    Customers = {c1, c2}
    Owner = c2
    Ads = {a1, a2}
    Viewed = {a1}
    MaxToggles = 4
    MaxViews = 1
    ReportedAds = {a3}
    Threshold = 2
    EditStatus = {"active"}
SYMMETRY Symmetry
INVARIANTS
    PeopleTypeOK
    
    
    OtpGuardsChange
    NoReuse
    ViewIsTrue
    MessagesAccounted
    ReadWasFound
    WishlistFollows
    
    PendingIsUnderReview
    DisabledAtThreshold
PROPERTY
    CleanupSparesReinstated
CHECK_DEADLOCK FALSE
