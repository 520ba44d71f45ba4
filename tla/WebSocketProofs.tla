--------------------------- MODULE WebSocketProofs ---------------------------
(***************************************************************************)
(* Theorems about WebSocketStatus, for every set of connections, cookies   *)
(* and requests.                                                           *)
(*                                                                         *)
(* NotifiedOnce rests on what the connection of a request that was told    *)
(* "notified" is from then on: closed, and never open again, although it   *)
(* stays in the map where other requests find it.                          *)
(***************************************************************************)
EXTENDS WebSocketStatus, FiniteSetTheorems, TLAPS

\* A connection that anybody refers to was opened.
Opened ==
    /\ \A w \in WsId : wsStore[w] # NoConn => pc[wsStore[w]] # "unused"
    /\ \A r \in Req : tconn[r] # NoConn => pc[tconn[r]] # "unused"

\* What a request that triggers a logout has, at each point of its way.
Triggered ==
    \A r \in Req :
        /\ tpc[r] \in {"write", "writing", "close"} => tconn[r] \in Conn
        /\ tpc[r] # "idle" => twid[r] \in WsId /\ reply[r] = "none"
        /\ reply[r] = "notified" => tconn[r] \in Conn \ open

WsInv == TypeOK /\ Opened /\ Triggered /\ NotifiedOnce

LEMMA AtTheBeginning == Init => WsInv
BY DEF Init, WsInv, TypeOK, Opened, Triggered, NotifiedOnce, Label, TLabel,
       Reply

\* The steps of a tab and of its heartbeat.
LEMMA ConnKeeps ==
    ASSUME WsInv, NEW c \in Conn,
           \/ \E w \in WsId : LoginStatus(c, w)
           \/ RegisterRemove(c) \/ RegisterAdd(c) \/ BeatBegin(c)
           \/ BeatSent(c) \/ BeatFails(c) \/ BeatDrop(c) \/ TabGone(c)
    PROVE  WsInv'
<1>. USE NullAssumption
     DEF WsInv, TypeOK, Opened, Triggered, NotifiedOnce, Label, Goto, store,
         request
<1>1. ASSUME NEW w \in WsId, LoginStatus(c, w) PROVE WsInv'
  BY <1>1 DEF LoginStatus
<1>2. CASE RegisterRemove(c) \/ BeatDrop(c)
  <2>1. wsStore' = [wsStore EXCEPT ![wsOf[c]] = NoConn]
    BY <1>2 DEF RegisterRemove, BeatDrop, RemoveWebSocketConnection
  <2>2. CASE RegisterRemove(c)
    BY <2>1, <2>2 DEF RegisterRemove
  <2>3. CASE BeatDrop(c)
    BY <2>1, <2>3 DEF BeatDrop
  <2>. QED BY <1>2, <2>2, <2>3
<1>3. CASE RegisterAdd(c)
  <2>1. wsStore' = [wsStore EXCEPT ![wsOf[c]] = c]
    BY <1>3 DEF RegisterAdd, AddWebSocketConnection
  <2>. QED BY <1>3, <2>1 DEF RegisterAdd
<1>4. CASE BeatBegin(c) \/ BeatSent(c)
  BY <1>4 DEF BeatBegin, BeatSent
<1>5. CASE BeatFails(c)
  BY <1>5 DEF BeatFails
<1>6. CASE TabGone(c)
  BY <1>6 DEF TabGone
<1>. QED BY <1>1, <1>2, <1>3, <1>4, <1>5, <1>6

\* The steps of a request that triggers a logout.
LEMMA RequestKeeps ==
    ASSUME WsInv, NEW r \in Req,
           \/ \E w \in WsId : TriggerWSLogout(r, w)
           \/ TriggerGet(r) \/ TriggerWriteBegin(r) \/ TriggerWriteEnd(r)
           \/ TriggerClose(r)
    PROVE  WsInv'
<1>. USE NullAssumption
     DEF WsInv, TypeOK, Opened, Triggered, NotifiedOnce, TLabel, Reply, Answer,
         store, conns
<1>1. ASSUME NEW w \in WsId, TriggerWSLogout(r, w) PROVE WsInv'
  BY <1>1 DEF TriggerWSLogout
<1>2. CASE TriggerGet(r)
  <2>1. twid[r] \in WsId
    BY <1>2 DEF TriggerGet
  <2>. QED BY <1>2, <2>1 DEF TriggerGet
<1>3. CASE TriggerWriteBegin(r)
  BY <1>3 DEF TriggerWriteBegin
<1>4. CASE TriggerWriteEnd(r)
  BY <1>4 DEF TriggerWriteEnd
<1>5. CASE TriggerClose(r)
  BY <1>5 DEF TriggerClose
<1>. QED BY <1>1, <1>2, <1>3, <1>4, <1>5

LEMMA DieKeeps == ASSUME WsInv, Die PROVE WsInv'
BY DEF WsInv, TypeOK, Opened, Triggered, NotifiedOnce, Label, TLabel, Reply, Die

LEMMA StutterKeeps == ASSUME WsInv, UNCHANGED vars PROVE WsInv'
BY DEF WsInv, TypeOK, Opened, Triggered, NotifiedOnce, vars, store, conns,
       request

LEMMA Inductive == ASSUME WsInv, [Next]_vars PROVE WsInv'
BY ConnKeeps, RequestKeeps, DieKeeps, StutterKeeps DEF Next

LEMMA Invariance == Spec => []WsInv
BY AtTheBeginning, Inductive, PTL DEF Spec

\* Type correctness.
THEOREM SocketTypes == Spec => []TypeOK
<1>1. WsInv => TypeOK
  BY DEF WsInv
<1>. QED BY <1>1, Invariance, PTL

\* One of the requests that find a connection logs it out, however they and the
\* heartbeats overlap, and whether or not the process dies of it
\* (websocketstore.go and TriggerWSLogout in handler.go).
THEOREM LoggedOutOnce == Spec => []NotifiedOnce
<1>1. WsInv => NotifiedOnce
  BY DEF WsInv
<1>. QED BY <1>1, Invariance, PTL

-----------------------------------------------------------------------------
(* Which tabs a logout does not find.                                      *)

\* A cookie is set when the tab connects, and then for good.
Cookies ==
    \A c \in Conn : IF pc[c] = "unused" THEN wsOf[c] = NoId
                                        ELSE wsOf[c] \in WsId

\* A tab with a heartbeat is registered, or another has been opened with its
\* cookie: it alone can have taken the place, or have cleared it.
Registered ==
    \A c \in Conn :
        pc[c] \in {"beat", "writing"}
            => \/ wsStore[wsOf[c]] = c
               \/ \E d \in Conn \ {c} : wsOf[d] = wsOf[c]

Used == {c \in Conn : pc[c] # "unused"}

TabInv == Cookies /\ Registered /\ IsFiniteSet(Used)

LEMMA TabsAtTheBeginning == Init => TabInv
<1>. SUFFICES ASSUME Init PROVE TabInv
  OBVIOUS
<1>1. Cookies /\ Registered
  BY DEF Init, Cookies, Registered
<1>2. Used = {}
  BY DEF Init, Used
<1>. QED BY <1>1, <1>2, FS_EmptySet DEF TabInv

\* The steps that open no connection keep the cookies and the open ones.
LEMMA SameTabs ==
    ASSUME TypeOK, TabInv, wsOf' = wsOf, Registered',
           \A c \in Conn : pc'[c] = "unused" <=> pc[c] = "unused"
    PROVE  TabInv'
<1>1. Used' = Used
  BY DEF Used
<1>. QED BY <1>1 DEF TabInv, Cookies

LEMMA ConnectKeepsTabs ==
    ASSUME WsInv, TabInv, NEW c \in Conn, NEW w \in WsId, LoginStatus(c, w)
    PROVE  TabInv'
<1>. USE DEF LoginStatus, Goto, store
<1>1. /\ pc[c] = "unused" /\ wsOf[c] = NoId /\ wsStore' = wsStore
      /\ pc' = [pc EXCEPT ![c] = "remove"] /\ wsOf' = [wsOf EXCEPT ![c] = w]
      /\ pc \in [Conn -> Label] /\ wsOf \in [Conn -> WsId \union {NoId}]
  BY DEF TabInv, Cookies, WsInv, TypeOK
<1>. HIDE DEF LoginStatus
<1>2. Cookies'
  BY <1>1 DEF TabInv, Cookies
<1>3. Registered'
  <2>. SUFFICES ASSUME NEW d \in Conn, pc'[d] \in {"beat", "writing"}
                PROVE  \/ wsStore'[wsOf'[d]] = d
                       \/ \E e \in Conn \ {d} : wsOf'[e] = wsOf'[d]
    BY DEF Registered
  <2>1. d # c /\ pc[d] \in {"beat", "writing"} /\ wsOf'[d] = wsOf[d]
    BY <1>1
  <2>2. CASE wsStore[wsOf[d]] = d
    BY <1>1, <2>1, <2>2
  <2>3. ASSUME NEW e \in Conn \ {d}, wsOf[e] = wsOf[d]
        PROVE  wsOf'[e] = wsOf'[d]
    <3>1. wsOf[d] \in WsId
      BY <2>1 DEF TabInv, Cookies
    <3>. QED BY <1>1, <2>1, <2>3, <3>1, NullAssumption
  <2>. QED BY <2>1, <2>2, <2>3 DEF TabInv, Registered
<1>4. Used' = Used \union {c}
  BY <1>1 DEF Used, Label
<1>. QED BY <1>2, <1>3, <1>4, FS_AddElement DEF TabInv

\* Registering a connection, and dropping one, is about its own cookie.
LEMMA MapStepsKeepTabs ==
    ASSUME WsInv, TabInv, NEW c \in Conn,
           RegisterRemove(c) \/ RegisterAdd(c) \/ BeatDrop(c)
    PROVE  TabInv'
<1>. USE DEF RegisterRemove, RegisterAdd, BeatDrop, Goto,
             RemoveWebSocketConnection, AddWebSocketConnection
<1>1. /\ wsOf' = wsOf /\ wsOf[c] \in WsId
      /\ pc \in [Conn -> Label] /\ wsStore \in [WsId -> Conn \union {NoConn}]
  BY DEF TabInv, Cookies, WsInv, TypeOK
<1>2. /\ pc[c] \in {"remove", "add", "drop"}
      /\ pc' = [pc EXCEPT ![c] = pc'[c]]
      /\ pc'[c] \in {"add", "beat", "stopped"}
      /\ wsStore' = [wsStore EXCEPT ![wsOf[c]] = wsStore'[wsOf[c]]]
      /\ pc'[c] = "beat" => wsStore'[wsOf[c]] = c
  BY <1>1
<1>. HIDE DEF RegisterRemove, RegisterAdd, BeatDrop
<1>3. Registered'
  <2>. SUFFICES ASSUME NEW d \in Conn, pc'[d] \in {"beat", "writing"}
                PROVE  \/ wsStore'[wsOf[d]] = d
                       \/ \E e \in Conn \ {d} : wsOf[e] = wsOf[d]
    BY <1>1 DEF Registered
  <2>1. CASE d = c
    BY <1>1, <1>2, <2>1
  <2>2. CASE d # c /\ wsOf[d] = wsOf[c]
    BY <2>2
  <2>3. CASE d # c /\ wsOf[d] # wsOf[c]
    <3>1. pc[d] \in {"beat", "writing"} /\ wsOf[d] \in WsId
      BY <1>1, <1>2, <2>3 DEF TabInv, Cookies
    <3>2. wsStore'[wsOf[d]] = wsStore[wsOf[d]]
      BY <1>1, <1>2, <2>3, <3>1
    <3>. QED BY <3>1, <3>2 DEF TabInv, Registered
  <2>. QED BY <2>1, <2>2, <2>3
<1>. QED BY <1>1, <1>2, <1>3, SameTabs DEF WsInv

LEMMA OthersKeepTabs ==
    ASSUME WsInv, TabInv,
           \/ \E c \in Conn : BeatBegin(c) \/ BeatSent(c) \/ BeatFails(c)
                              \/ TabGone(c)
           \/ \E r \in Req :
                 \/ \E w \in WsId : TriggerWSLogout(r, w)
                 \/ TriggerGet(r) \/ TriggerWriteBegin(r) \/ TriggerWriteEnd(r)
                 \/ TriggerClose(r)
           \/ Die \/ UNCHANGED vars
    PROVE  TabInv'
<1>1. pc \in [Conn -> Label]
  BY DEF WsInv, TypeOK
<1>2. CASE Die
  <2>1. /\ wsOf' = wsOf
        /\ \A c \in Conn : pc'[c] = IF pc[c] = "unused" THEN "unused"
                                                         ELSE "stopped"
    BY <1>2 DEF Die
  <2>. QED BY <2>1, SameTabs DEF Registered, WsInv
<1>3. CASE ~Die
  <2>1. /\ wsOf' = wsOf /\ wsStore' = wsStore
        /\ \A c \in Conn :
              /\ pc'[c] = "unused" <=> pc[c] = "unused"
              /\ pc'[c] \in {"beat", "writing"} => pc[c] \in {"beat", "writing"}
    BY <1>1, <1>3
       DEF BeatBegin, BeatSent, BeatFails, TabGone, TriggerWSLogout,
           TriggerGet, TriggerWriteBegin, TriggerWriteEnd, TriggerClose, vars,
           store, conns, Goto
  <2>. QED BY <2>1, SameTabs DEF TabInv, Registered, WsInv
<1>. QED BY <1>2, <1>3

LEMMA TabsInductive == ASSUME WsInv, TabInv, [Next]_vars PROVE TabInv'
BY ConnectKeepsTabs, MapStepsKeepTabs, OthersKeepTabs DEF Next

\* A request that finds no connection although a tab is listening has found
\* the place of two tabs.
LEMMA MissedShared ==
    ASSUME WsInv, TabInv, NEW r \in Req, Missed(r)
    PROVE  Cardinality({c \in Conn : wsOf[c] = twid[r]}) > 1
<1>. DEFINE Sharing == {c \in Conn : wsOf[c] = twid[r]}
<1>1. PICK c \in Conn : wsOf[c] = twid[r] /\ Listening(c)
  BY DEF Missed
<1>2. twid[r] \in WsId /\ wsStore[twid[r]] = NoConn
  BY DEF Missed, TriggerGet, WsInv, TypeOK, Triggered, Answer, TLabel
<1>3. PICK d \in Conn \ {c} : wsOf[d] = wsOf[c]
  BY <1>1, <1>2, NullAssumption DEF TabInv, Registered, Listening
<1>4. IsFiniteSet(Sharing)
  <2>1. Sharing \subseteq Used
    BY <1>2, NullAssumption DEF TabInv, Cookies, Used
  <2>. QED BY <2>1, FS_Subset DEF TabInv
<1>5. {c, d} \subseteq Sharing
  BY <1>1, <1>3
<1>6. Cardinality({c, d}) = 2
  <2>1. IsFiniteSet({c}) /\ Cardinality({c}) = 1
    BY FS_Singleton
  <2>2. Cardinality({c} \union {d}) = Cardinality({c}) + 1
    BY <1>3, <2>1, FS_AddElement
  <2>. QED BY <2>1, <2>2
<1>7. Cardinality({c, d}) <= Cardinality(Sharing) /\ Cardinality(Sharing) \in Nat
  BY <1>4, <1>5, FS_Subset, FS_CardinalityType
<1>. QED BY <1>6, <1>7

\* A tab that shares its cookie with no other is found by every logout, through
\* all registrations, heartbeats, failures and restarts: the removals of
\* others never reach its place (websocketstore.go, HandleLoginStatus).
THEOREM LoneTab == Spec => LoneTabReached
<1>1. WsInv /\ TabInv /\ [Next]_vars => TabInv'
  BY TabsInductive
<1>2. WsInv /\ TabInv /\ [Next]_vars
         => [\A r \in Req :
                Missed(r) => Cardinality({c \in Conn : wsOf[c] = twid[r]}) > 1
            ]_vars
  BY MissedShared
<1>. QED BY <1>1, <1>2, TabsAtTheBeginning, Invariance, PTL
        DEF Spec, LoneTabReached

-----------------------------------------------------------------------------
(* The connections implement ForcedLogout.                                 *)

Ended == [r \in Req |-> IF reply[r] = "notified" THEN tconn[r] ELSE NoConn]

\* A step that connects nothing and tells nobody closes connections, if
\* anything.
LEMMA LosingStep ==
    ASSUME Used' = Used, open' \subseteq open, Ended' = Ended
    PROVE  [Logouts!Next]_(Logouts!vars)
<1>1. open \ open' \in SUBSET open /\ open' = open \ (open \ open')
  OBVIOUS
<1>2. Logouts!Lose(open \ open')
  BY <1>1 DEF Logouts!Lose, Used, Ended
<1>. QED BY <1>1, <1>2 DEF Logouts!Next

LEMMA ConnRefines ==
    ASSUME WsInv, NEW c \in Conn,
           \/ \E w \in WsId : LoginStatus(c, w)
           \/ RegisterRemove(c) \/ RegisterAdd(c) \/ BeatBegin(c)
           \/ BeatSent(c) \/ BeatFails(c) \/ BeatDrop(c) \/ TabGone(c)
    PROVE  [Logouts!Next]_(Logouts!vars)
<1>1. Ended' = Ended /\ pc \in [Conn -> Label]
  BY DEF Ended, LoginStatus, RegisterRemove, RegisterAdd, BeatBegin, BeatSent,
         BeatFails, BeatDrop, TabGone, request, WsInv, TypeOK
<1>2. ASSUME NEW w \in WsId, LoginStatus(c, w)
      PROVE  [Logouts!Next]_(Logouts!vars)
  <2>1. Used' = Used \union {c} /\ c \notin Used /\ open' = open \union {c}
    BY <1>1, <1>2 DEF LoginStatus, Goto, Used
  <2>2. Logouts!Connect(c)
    BY <1>1, <2>1 DEF Logouts!Connect, Used, Ended
  <2>. QED BY <2>2 DEF Logouts!Next
<1>3. CASE ~\E w \in WsId : LoginStatus(c, w)
  <2>1. open' \subseteq open /\ \A d \in Conn : pc'[d] = "unused" <=> pc[d] = "unused"
    BY <1>1, <1>3 DEF RegisterRemove, RegisterAdd, BeatBegin, BeatSent,
                      BeatFails, BeatDrop, TabGone, Goto
  <2>. QED BY <1>1, <2>1, LosingStep DEF Used
<1>. QED BY <1>2, <1>3

\* A request on its way has told nothing; it does when it closes what is open.
LEMMA RequestRefines ==
    ASSUME WsInv, NEW r \in Req,
           \/ \E w \in WsId : TriggerWSLogout(r, w)
           \/ TriggerGet(r) \/ TriggerWriteBegin(r) \/ TriggerWriteEnd(r)
           \/ TriggerClose(r)
    PROVE  [Logouts!Next]_(Logouts!vars)
<1>1. /\ reply \in [Req -> Reply] /\ tconn \in [Req -> Conn \union {NoConn}]
      /\ tpc \in [Req -> TLabel]
  BY DEF WsInv, TypeOK
<1>2. Used' = Used
  BY DEF Used, TriggerWSLogout, TriggerGet, TriggerWriteBegin,
         TriggerWriteEnd, TriggerClose, conns
<1>3. ASSUME NEW w \in WsId, TriggerWSLogout(r, w)
      PROVE  [Logouts!Next]_(Logouts!vars)
  <2>1. Ended' = [Ended EXCEPT ![r] = NoConn] /\ open' = open
    BY <1>1, <1>3 DEF Ended, TriggerWSLogout, conns, Reply
  <2>2. Logouts!Ask(r)
    BY <1>2, <2>1 DEF Logouts!Ask, Used, Ended
  <2>. QED BY <2>2 DEF Logouts!Next
<1>4. CASE TriggerGet(r) \/ TriggerWriteBegin(r) \/ TriggerWriteEnd(r)
  <2>1. reply[r] = "none" /\ open' = open
    BY <1>4 DEF TriggerGet, TriggerWriteBegin, TriggerWriteEnd, conns, WsInv,
                Triggered
  <2>2. /\ reply'[r] # "notified"
        /\ \A q \in Req \ {r} : reply'[q] = reply[q] /\ tconn'[q] = tconn[q]
    BY <1>1, <1>4, <2>1
       DEF TriggerGet, TriggerWriteBegin, TriggerWriteEnd, Answer
  <2>3. Ended' = Ended
    BY <2>1, <2>2 DEF Ended
  <2>. QED BY <1>2, <2>1, <2>3, LosingStep
<1>5. CASE TriggerClose(r) /\ tconn[r] \in open
  <2>1. Ended' = [Ended EXCEPT ![r] = tconn[r]] /\ open' = open \ {tconn[r]}
    BY <1>1, <1>5 DEF Ended, TriggerClose, Answer
  <2>2. PICK c \in Conn : c = tconn[r]
    BY <1>5 DEF WsInv, TypeOK
  <2>3. Logouts!Logout(r, c)
    BY <1>2, <1>5, <2>1, <2>2 DEF Logouts!Logout, Used, Ended
  <2>4. Logouts!Next
    BY <2>3 DEF Logouts!Next
  <2>. QED BY <2>4
<1>6. CASE TriggerClose(r) /\ tconn[r] \notin open
  <2>1. reply[r] = "none" /\ reply' = [reply EXCEPT ![r] = "empty"]
        /\ tconn' = tconn /\ open' \subseteq open
    BY <1>6 DEF TriggerClose, Answer, WsInv, Triggered
  <2>2. Ended' = Ended
    BY <1>1, <2>1 DEF Ended
  <2>. QED BY <1>2, <2>1, <2>2, LosingStep
<1>. QED BY <1>3, <1>4, <1>5, <1>6

\* All connections go down with the service; who was told before stays told.
LEMMA DieRefines ==
    ASSUME WsInv, Die
    PROVE  [Logouts!Next]_(Logouts!vars)
<1>1. Used' = Used /\ open' \subseteq open
  BY DEF Die, Used, WsInv, TypeOK
<1>2. \A r \in Req : reply'[r] = "notified" <=> reply[r] = "notified"
  BY DEF Die, WsInv, Triggered, TypeOK
<1>3. Ended' = Ended
  BY <1>2 DEF Ended, Die
<1>. QED BY <1>1, <1>3, LosingStep

\* The registrations, heartbeats, logouts, races and restarts together are an
\* implementation of ForcedLogout: what is closed stays closed, and a request
\* that is told "notified" has itself closed a connection that was open.
THEOREM LogoutRefinement == Spec => ImplementsLogout
<1>1. Init => Logouts!Init
  BY DEF Init, Logouts!Init
<1>2. WsInv /\ [Next]_vars => [Logouts!Next]_(Logouts!vars)
  <2>1. UNCHANGED vars => UNCHANGED Logouts!vars
    BY DEF vars, Logouts!vars, store, conns, request
  <2>. QED BY <2>1, ConnRefines, RequestRefines, DieRefines DEF Next
<1>. QED BY <1>1, <1>2, Invariance, PTL DEF Spec, ImplementsLogout, Logouts!Spec

=============================================================================
