---------------------------- MODULE ForcedLogout ----------------------------
(***************************************************************************)
(* What the login-status connections are for, without cookies, map, writes *)
(* and races: a tab that has connected is online until it is logged out by *)
(* one request, or until it is lost, and a connection never comes back.    *)
(***************************************************************************)
CONSTANTS Conn, Req, NoConn

VARIABLES
    used,            \* the connections that were ever opened
    online,          \* those of them that are still open
    ended            \* of a request: the connection it has logged out

vars == <<used, online, ended>>

Init ==
    /\ used = {}
    /\ online = {}
    /\ ended = [r \in Req |-> NoConn]

Connect(c) ==
    /\ c \notin used
    /\ used' = used \union {c}
    /\ online' = online \union {c}
    /\ UNCHANGED ended

\* A request comes, and has ended nothing yet.
Ask(r) ==
    /\ ended' = [ended EXCEPT ![r] = NoConn]
    /\ UNCHANGED <<used, online>>

\* It ends a connection that was online until then.
Logout(r, c) ==
    /\ c \in online
    /\ online' = online \ {c}
    /\ ended' = [ended EXCEPT ![r] = c]
    /\ UNCHANGED used

\* Connections fail, or go down with the service.
Lose(C) ==
    /\ online' = online \ C
    /\ UNCHANGED <<used, ended>>

Next ==
    \/ \E c \in Conn : Connect(c)
    \/ \E r \in Req : Ask(r) \/ \E c \in Conn : Logout(r, c)
    \/ \E C \in SUBSET online : Lose(C)

Spec == Init /\ [][Next]_vars
=============================================================================
