SPECIFICATION Spec
CONSTANTS
    Req = {r1, r2}
    Session = {s1, s2}
    NoReq = NoReq
    NoSession = NoSession
SYMMETRY Symmetry
CHECK_DEADLOCK FALSE
INVARIANT
    PasswordChangeEndsSession
