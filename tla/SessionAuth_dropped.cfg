SPECIFICATION Spec
CONSTANTS
    Req = {r1, r2}
    Session = {s1}
    NoReq = NoReq
    NoSession = NoSession
    TokenLimit = 2
    RefreshReuse = FALSE
    Faults = {}
INVARIANT
    RequestNotDropped
