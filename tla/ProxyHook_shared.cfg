SPECIFICATION Spec
CONSTANTS
    Req = {r1, r2, r3, r4}
    Session = {s1, s2, s3}
    NoReq = NoReq
    NoSession = NoSession
SYMMETRY Symmetry
CHECK_DEADLOCK FALSE
INVARIANTS
    TypeOK
    OnlyAskersEnd
    EndsAreEarned
    AnswerGivenOnce
