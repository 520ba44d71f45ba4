--------------------------- MODULE WebSocketStatus ---------------------------
(***************************************************************************)
(* The login-status connections: every browser tab keeps a WebSocket open, *)
(* over which the service sends a heartbeat, and a logout message when a   *)
(* request of that browser turns out to have no valid session.             *)
(*                                                                         *)
(* The connections are registered by the browser's wsID cookie in wsStore, *)
(* a plain Go map that HTTP handlers and heartbeat goroutines read and     *)
(* write without a lock.  A process that stands at one of the labels of    *)
(* MapAccess is inside its access to the map; one at "writing" is inside   *)
(* WriteMessage.  A write to the map that overlaps another access may be   *)
(* detected by the Go runtime, which ends the process; an overlapping      *)
(* WriteMessage panics, which ends the process in a heartbeat goroutine    *)
(* and the request in a handler.  The server never reads a connection.     *)
(***************************************************************************)
EXTENDS Naturals, FiniteSets

CONSTANTS
    Conn,         \* the connections, each opened at most once
    WsId,         \* the values of the wsID cookie
    Req,          \* the requests that trigger a logout
    NoConn, NoId  \* no connection, no cookie value

ASSUME NullAssumption == NoConn \notin Conn /\ NoId \notin WsId

VARIABLES
    wsStore,      \* wsID -> the registered connection
    wsOf,         \* of a connection: the cookie it was opened with
    open,         \* the connections the server has not closed
    alive,        \* the connections whose tab is still there
    pc,           \* of a connection: its handler, then its heartbeat goroutine
    tpc,          \* of a request: where TriggerWSLogout is
    twid,         \* of a request: its wsID cookie
    tconn,        \* of a request: the connection it found
    reply         \* of a request: how it was answered

store   == <<wsStore>>
conns   == <<wsOf, open, alive, pc>>
request == <<tpc, twid, tconn, reply>>
vars    == <<store, conns, request>>

Label   == {"unused", "remove", "add", "beat", "writing", "drop", "stopped"}
TLabel  == {"idle", "get", "write", "writing", "close"}
Reply   == {"none", "notified", "notFound", "failed", "empty", "aborted"}

\* Type invariant.
TypeOK ==
    /\ wsStore \in [WsId -> Conn \union {NoConn}]
    /\ wsOf \in [Conn -> WsId \union {NoId}]
    /\ open \subseteq Conn
    /\ alive \subseteq Conn
    /\ pc \in [Conn -> Label]
    /\ tpc \in [Req -> TLabel]
    /\ twid \in [Req -> WsId \union {NoId}]
    /\ tconn \in [Req -> Conn \union {NoConn}]
    /\ reply \in [Req -> Reply]

Init ==
    /\ wsStore = [w \in WsId |-> NoConn]
    /\ wsOf = [c \in Conn |-> NoId]
    /\ open = {}
    /\ alive = {}
    /\ pc = [c \in Conn |-> "unused"]
    /\ tpc = [r \in Req |-> "idle"]
    /\ twid = [r \in Req |-> NoId]
    /\ tconn = [r \in Req |-> NoConn]
    /\ reply = [r \in Req |-> "none"]

Goto(c, l) == pc' = [pc EXCEPT ![c] = l]

AddWebSocketConnection(w, c) == wsStore' = [wsStore EXCEPT ![w] = c]

\* Mutant: a closed connection is left in the map.
RemoveNothing(w) == UNCHANGED wsStore

RemoveWebSocketConnection(w) == wsStore' = [wsStore EXCEPT ![w] = NoConn]

-----------------------------------------------------------------------------
(* A tab connects; its connection is registered and gets a heartbeat.      *)

\* The handshake is done, with the cookie of a browser that may have other tabs.
\* (Without one, or if the upgrade fails, the request is refused and nothing
\* changes.)
LoginStatus(c, w) ==
    /\ pc[c] = "unused"
    /\ Goto(c, "remove")
    /\ wsOf' = [wsOf EXCEPT ![c] = w]
    /\ open' = open \union {c}
    /\ alive' = alive \union {c}
    /\ UNCHANGED <<store, request>>

RegisterRemove(c) ==
    /\ pc[c] = "remove"
    /\ RemoveWebSocketConnection(wsOf[c])
    /\ Goto(c, "add")
    /\ UNCHANGED <<wsOf, open, alive, request>>

\* Mutant of RegisterAdd: the two calls are swapped, the removal comes last.
RegisterRemoveLast(c) ==
    /\ pc[c] = "add"
    /\ RemoveWebSocketConnection(wsOf[c])
    /\ Goto(c, "beat")
    /\ UNCHANGED <<wsOf, open, alive, request>>

RegisterAdd(c) ==
    /\ pc[c] = "add"
    /\ AddWebSocketConnection(wsOf[c], c)
    /\ Goto(c, "beat")
    /\ UNCHANGED <<wsOf, open, alive, request>>

\* The heartbeat goroutine begins a write: at once, then at every tick.
BeatBegin(c) ==
    /\ pc[c] = "beat"
    /\ \A r \in Req : tpc[r] = "writing" => tconn[r] # c
    /\ Goto(c, "writing")
    /\ UNCHANGED <<store, wsOf, open, alive, request>>

\* A write succeeds, also for a while when nobody is at the other end.
BeatSent(c) ==
    /\ pc[c] = "writing"
    /\ c \in open
    /\ Goto(c, "beat")
    /\ UNCHANGED <<store, wsOf, open, alive, request>>

\* A write fails: the goroutine closes its connection.
BeatFails(c) ==
    /\ pc[c] = "writing"
    /\ c \notin open \/ c \notin alive
    /\ open' = open \ {c}
    /\ Goto(c, "drop")
    /\ UNCHANGED <<store, wsOf, alive, request>>

\* The goroutine removes what its wsID is registered for, and ends.
BeatDrop(c) ==
    /\ pc[c] = "drop"
    /\ RemoveWebSocketConnection(wsOf[c])
    /\ Goto(c, "stopped")
    /\ UNCHANGED <<wsOf, open, alive, request>>

\* The tab is closed, or loses its network.
TabGone(c) ==
    /\ c \in alive
    /\ alive' = alive \ {c}
    /\ UNCHANGED <<store, wsOf, open, pc, request>>

-----------------------------------------------------------------------------
(* A request without a valid session triggers a logout.                    *)

Answer(r, a) ==
    /\ tpc' = [tpc EXCEPT ![r] = "idle"]
    /\ reply' = [reply EXCEPT ![r] = a]

TriggerWSLogout(r, w) ==
    /\ tpc[r] = "idle"
    /\ tpc' = [tpc EXCEPT ![r] = "get"]
    /\ twid' = [twid EXCEPT ![r] = w]
    /\ tconn' = [tconn EXCEPT ![r] = NoConn]
    /\ reply' = [reply EXCEPT ![r] = "none"]
    /\ UNCHANGED <<store, conns>>

TriggerGet(r) ==
    /\ tpc[r] = "get"
    /\ LET c == wsStore[twid[r]] IN
       \/ /\ c = NoConn
          /\ Answer(r, "notFound")
          /\ UNCHANGED tconn
       \/ /\ c # NoConn
          /\ tconn' = [tconn EXCEPT ![r] = c]
          /\ tpc' = [tpc EXCEPT ![r] = "write"]
          /\ UNCHANGED reply
    /\ UNCHANGED <<store, conns, twid>>

\* Somebody is inside WriteMessage for connection c.
Written(c) ==
    pc[c] = "writing" \/ \E r \in Req : tpc[r] = "writing" /\ tconn[r] = c

\* The write of the logout message begins; over another write it panics, and
\* the HTTP server ends this request.
TriggerWriteBegin(r) ==
    /\ tpc[r] = "write"
    /\ \/ /\ ~Written(tconn[r])
          /\ tpc' = [tpc EXCEPT ![r] = "writing"]
          /\ UNCHANGED reply
       \/ /\ Written(tconn[r])
          /\ Answer(r, "aborted")
    /\ UNCHANGED <<store, conns, twid, tconn>>

TriggerWriteEnd(r) ==
    /\ tpc[r] = "writing"
    /\ LET c == tconn[r] IN
       \/ /\ c \in open
          /\ tpc' = [tpc EXCEPT ![r] = "close"]
          /\ UNCHANGED reply
       \/ /\ c \notin open \/ c \notin alive
          /\ Answer(r, "failed")
    /\ UNCHANGED <<store, conns, twid, tconn>>

\* Mutants of TriggerClose: a close that fails is not answered for; closing
\* twice is not noticed.
TriggerCloseSilent(r) ==
    /\ tpc[r] = "close"
    /\ open' = open \ {tconn[r]}
    /\ Answer(r, IF tconn[r] \in open THEN "notified" ELSE "silence")
    /\ UNCHANGED <<store, wsOf, alive, pc, twid, tconn>>

TriggerCloseAgain(r) ==
    /\ tpc[r] = "close"
    /\ open' = open \ {tconn[r]}
    /\ Answer(r, "notified")
    /\ UNCHANGED <<store, wsOf, alive, pc, twid, tconn>>

\* The connection is closed and stays in the map.  When somebody else has
\* closed it the request returns with nothing written.
TriggerClose(r) ==
    /\ tpc[r] = "close"
    /\ open' = open \ {tconn[r]}
    /\ Answer(r, IF tconn[r] \in open THEN "notified" ELSE "empty")
    /\ UNCHANGED <<store, wsOf, alive, pc, twid, tconn>>

-----------------------------------------------------------------------------
(* Overlapping accesses end the process, and it restarts with nothing.     *)

MapWriters == {c \in Conn : pc[c] \in {"remove", "add", "drop"}}
MapReaders == {r \in Req : tpc[r] = "get"}

\* The Go runtime finds two overlapping accesses of the map, one a write.
MapRace == \E c \in MapWriters : MapWriters # {c} \/ MapReaders # {}

\* A heartbeat begins to write while a logout message is written.
BeatRace ==
    \E c \in Conn, r \in Req :
        pc[c] = "beat" /\ tpc[r] = "writing" /\ tconn[r] = c

Die ==
    /\ MapRace \/ BeatRace
    /\ wsStore' = [w \in WsId |-> NoConn]
    /\ open' = {}
    /\ pc' = [c \in Conn |-> IF pc[c] = "unused" THEN "unused" ELSE "stopped"]
    /\ tpc' = [r \in Req |-> "idle"]
    /\ reply' = [r \in Req |-> IF tpc[r] = "idle" THEN reply[r] ELSE "aborted"]
    /\ UNCHANGED <<wsOf, alive, twid, tconn>>

-----------------------------------------------------------------------------

Next ==
    \/ \E c \in Conn :
          \/ \E w \in WsId : LoginStatus(c, w)
          \/ RegisterRemove(c) \/ RegisterAdd(c)
          \/ BeatBegin(c) \/ BeatSent(c) \/ BeatFails(c) \/ BeatDrop(c)
          \/ TabGone(c)
    \/ \E r \in Req :
          \/ \E w \in WsId : TriggerWSLogout(r, w)
          \/ TriggerGet(r) \/ TriggerWriteBegin(r) \/ TriggerWriteEnd(r)
          \/ TriggerClose(r)
    \/ Die

Spec == Init /\ [][Next]_vars

\* Goroutines run, the ticker ticks, a write returns, and the network does
\* not accept data for a tab that is gone for ever.
Fairness ==
    /\ \A c \in Conn : /\ WF_vars(RegisterRemove(c) \/ RegisterAdd(c))
                       /\ WF_vars(BeatSent(c) \/ BeatFails(c) \/ BeatDrop(c))
                       /\ SF_vars(BeatBegin(c))
                       /\ SF_vars(BeatFails(c))
    /\ \A r \in Req : WF_vars(\/ TriggerGet(r) \/ TriggerWriteBegin(r)
                              \/ TriggerWriteEnd(r) \/ TriggerClose(r))

FairSpec == Spec /\ Fairness

-----------------------------------------------------------------------------
(* Properties.                                                             *)

\* A tab that has its heartbeat and was not logged out.
Listening(c) == c \in open \cap alive /\ pc[c] \in {"beat", "writing"}

\* Of all the requests that find a connection, one logs it out: the others
\* are told that it was gone.
NotifiedOnce ==
    \A r1, r2 \in Req :
        /\ reply[r1] = "notified" /\ reply[r2] = "notified"
        /\ tconn[r1] = tconn[r2]
        => r1 = r2

\* The connections implement ForcedLogout: whatever the requests, the heartbeats
\* and the races do to the map, a connection is logged out while it is open, by
\* the one request that is told so, and is never open again.
Logouts == INSTANCE ForcedLogout WITH
    used <- {c \in Conn : pc[c] # "unused"},
    online <- open,
    ended <- [r \in Req |-> IF reply[r] = "notified" THEN tconn[r] ELSE NoConn]

ImplementsLogout == Logouts!Spec

\* No tab with cookie w is just being registered.
Settled(w) == \A c \in Conn : wsOf[c] = w => pc[c] \notin {"remove", "add"}

\* Request r has looked for a connection and found none, although a tab with
\* its cookie is listening.
Missed(r) ==
    /\ TriggerGet(r) /\ reply'[r] = "notFound" /\ Settled(twid[r])
    /\ \E c \in Conn : wsOf[c] = twid[r] /\ Listening(c)

\* A tab that has its cookie for itself is reached by a logout, whatever the
\* registrations, heartbeats and failures of the other tabs do to the map.
LoneTabReached == [][
    \A r \in Req :
        Missed(r) => Cardinality({c \in Conn : wsOf[c] = twid[r]}) > 1]_vars

\* A connection that was closed, or whose tab is gone, does not stay: its
\* goroutine ends, and it leaves the map.
DeadIsReaped ==
    \A c \in Conn :
        (pc[c] = "beat" /\ c \notin open \cap alive)
            ~> (pc[c] = "stopped" /\ wsStore[wsOf[c]] # c)

\* design.md: the pool of connections supports a forced logout.  A request that
\* triggers one finds a connection if a tab of that browser is listening.
LogoutReachesTab == [][\A r \in Req : ~Missed(r)]_vars

=============================================================================
