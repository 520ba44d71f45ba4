SPECIFICATION FairSpec
CONSTANTS
    Req = {r1, r2}
    Session = {s1}
    NoReq = NoReq
    NoSession = NoSession
    TokenLimit = 4
    RefreshReuse = FALSE
    Faults = {"cleanup"}
INVARIANTS
    NoSessionLost
    NoDoubleExchange
    NeverStranded
PROPERTIES
    ImplementsLifecycle
    RequestsEnd
