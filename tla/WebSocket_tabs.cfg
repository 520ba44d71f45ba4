SPECIFICATION FairSpec
CONSTANTS
    Conn = {c1, c2}
    WsId = {w1, w2}
    Req = {r1, r2}
    NoConn = NoConn
    NoId = NoId
INVARIANTS
    TypeOK
    NotifiedOnce
PROPERTIES
    ImplementsLogout
    LoneTabReached
    DeadIsReaped
