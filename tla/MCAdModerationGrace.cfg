SPECIFICATION Spec
CONSTANTS
    Ads = {a1}
    Reporters = {u1, u2}
    Reqs = {r1}
    Threshold = 2
    EditStatus = {"active"}
    MaxResyncs = 0
    MaxAborts = 0
    None = None
PROPERTY GraceRespected
