SPECIFICATION Spec
CONSTANTS
    Conn = {c1, c2}
    WsId = {w1}
    Req = {r1}
    NoConn = NoConn
    NoId = NoId
PROPERTY
    LogoutReachesTab
