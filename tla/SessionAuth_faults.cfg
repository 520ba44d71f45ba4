SPECIFICATION Spec
CONSTANTS
    Req = {r1, r2}
    Session = {s1, s2}
    NoReq = NoReq
    NoSession = NoSession
    TokenLimit = 3
    RefreshReuse = TRUE
    Faults = {"api", "oauth", "crash"}
SYMMETRY Symmetry
VIEW Undismissed
INVARIANTS
    TypeOK
    OwnTokens
    SingleStorer
    Inv
PROPERTY
    ImplementsLifecycle
