SPECIFICATION Spec
CONSTANTS
    None = None
    Emails = {e1}
    AdminEmails = {}
    Reqs = {r1, r2}
    MaxUsers = 1
    MaxSeconds = 1
    MaxChanges = 1
    MaxAborts = 0
SYMMETRY Symmetry
INVARIANTS BanIsPermanent
CHECK_DEADLOCK FALSE
