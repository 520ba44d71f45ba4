----------------------------- MODULE LoginProofs -----------------------------
(***************************************************************************)
(* Theorems about LoginFlow, for every set of tabs and browsers.           *)
(*                                                                         *)
(* The service compares two copies of a login state and remembers nothing. *)
(* What makes that enough is where a login state can be: first in one      *)
(* answer only, then in the cookie of the browser it was drawn for, and in *)
(* any URL.                                                                *)
(***************************************************************************)
EXTENDS LoginFlow, TLAPS

\* Whose the cookies are, now and when the answers under way arrive.
Ours ==
    /\ \A b \in Browser : stateCookie[b] # None => stateCookie[b].for = b
    /\ OwnLogin
    /\ \A t \in Tab :
        /\ answer[t].state \in State => answer[t].state.for = home[t]
        /\ answer[t].session \in Session => answer[t].session.for = home[t]
        /\ sentSession[t] \in Session => sentSession[t].for = home[t]

\* What a tab has in its URL, and where it is.
Placed ==
    \A t \in Tab :
        /\ page[t] = "authorize" => url[t] \in State
        /\ matching[t] => page[t] = "callback"
        /\ \/ matching[t] \/ page[t] \in {"exchange", "store"}
           \/ OpensSession(answer[t])
           => url[t] \in State /\ url[t].for = home[t]
        /\ answer[t] # NoAnswer => page[t] = "answered"
        /\ answer[t].to = "authorize" => answer[t].state \in State
        /\ answer[t].to \notin {"exchange", "store"}
        /\ answer[t].session \in Session => answer[t].state \in {None, Keep}
        /\ OpensSession(answer[t]) => answer[t].state = None

\* A login state that is on its way to its browser is nowhere else.
Drawn ==
    \A t \in Tab : answer[t].state \in State =>
        /\ \A b \in Browser : stateCookie[b] # answer[t].state
        /\ \A u \in Tab : url[u] # answer[t].state
        /\ \A u \in Tab \ {t} : answer[u].state # answer[t].state
        /\ answer[t].state \notin spent

\* A session that is on its way to its browser for the first time is nowhere
\* else; any other session that a browser has or is given has arrived before.
Carried ==
    /\ \A b \in Browser :
          sessionCookie[b] \in Session => sessionCookie[b] \in known
    /\ \A t \in Tab :
        /\ sentSession[t] \in Session => sentSession[t] \in known
        /\ answer[t].session \in Session
              => (OpensSession(answer[t]) <=> answer[t].session \notin known)
        /\ \A u \in Tab \ {t} :
              OpensSession(answer[t]) => answer[u].session # answer[t].session

LoginInv == TypeOK /\ Ours /\ Placed /\ Drawn /\ StateSpent /\ Carried

LEMMA FreshState ==
    ASSUME NEW t \in Tab, NEW x \in createLoginState(t)
    PROVE  x \in State /\ x.for = home[t] /\ StateFree(x, t)
BY DEF createLoginState, Fresh

LEMMA FreshSession ==
    ASSUME NEW b, NEW s \in Fresh(b, Session, SessionFree)
    PROVE  s \in Session /\ s.for = b /\ SessionFree(s)
BY DEF Fresh

LEMMA AtTheBeginning == Init => LoginInv
BY HomesAssumption, NullAssumption
DEF Init, LoginInv, TypeOK, Ours, OwnLogin, Placed, Drawn, StateSpent, Carried,
    OpensSession, Page, Answers, NoAnswer

-----------------------------------------------------------------------------
(* The handlers.                                                           *)

\* An answer of the service keeps the invariant, if a login state in it is a
\* new one of the browser's, and a session in it is a new one that comes from
\* such a state, or the one that the request had.
LEMMA AnswerKeeps ==
    ASSUME LoginInv, NEW t \in Tab, NEW p \in Page,
           NEW x \in State \union {None, Keep},
           NEW s \in Session \union {None, Keep}, Answer(t, p, x, s),
           UNCHANGED <<home, cookies, settled>>,
           live' \subseteq Session, redeemed' \subseteq State,
           spent' \subseteq spent,
           url' = url \/ url' = [url EXCEPT ![t] = None],
           x \in State => /\ x.for = home[t] /\ StateFree(x, t)
                          /\ x \notin spent'
                          /\ url' = [url EXCEPT ![t] = None],
           \/ /\ s \in Session /\ s.for = home[t] /\ SessionFree(s)
              /\ p = "site" /\ x = None /\ url[t] \in State /\ url[t].for = home[t]
              /\ url' = url /\ known' = known \ {s}
           \/ /\ s \in Session /\ s = sentSession[t]
              /\ p = "user" /\ x = Keep /\ url' = url /\ known' = known
           \/ s \notin Session /\ known' = known,
           p = "authorize" => x \in State, p \notin {"exchange", "store"}
    PROVE  LoginInv'
<1>. DEFINE a == [to |-> p, state |-> x, session |-> s]
<1>1. /\ page' = [page EXCEPT ![t] = "answered"]
      /\ answer' = [answer EXCEPT ![t] = a]
      /\ matching' = [matching EXCEPT ![t] = FALSE]
      /\ sentSession' = [sentSession EXCEPT ![t] = None]
  BY DEF Answer, Done, Goto
<1>2. a \in Answers /\ a.to = p /\ a.state = x /\ a.session = s
  BY DEF Answers
<1>. HIDE DEF a
<1>3. /\ answer \in [Tab -> Answers] /\ page \in [Tab -> Page]
      /\ matching \in [Tab -> BOOLEAN] /\ url \in [Tab -> State \union {None}]
  BY DEF LoginInv, TypeOK
<1>4. TypeOK'
  BY <1>1, <1>2 DEF LoginInv, TypeOK, cookies, Page
<1>5. /\ answer'[t] = a /\ page'[t] = "answered" /\ ~matching'[t]
      /\ \A u \in Tab \ {t} : /\ answer'[u] = answer[u] /\ page'[u] = page[u]
                              /\ matching'[u] = matching[u]
                              /\ url'[u] = url[u]
      /\ url'[t] \in {url[t], None}
  BY <1>1, <1>3
<1>10. /\ sentSession \in [Tab -> Session \union {None}]
       /\ sentSession'[t] = None
       /\ \A u \in Tab \ {t} : sentSession'[u] = sentSession[u]
  BY <1>1 DEF LoginInv, TypeOK
<1>6. Ours'
  BY <1>2, <1>5, <1>10, NullAssumption DEF LoginInv, Ours, OwnLogin, cookies
<1>7. Placed'
  BY <1>1, <1>2, <1>3, <1>5, NullAssumption DEF LoginInv, Placed, OpensSession
<1>8. Drawn'
  <2>1. ASSUME NEW v \in Tab, answer'[v].state \in State
        PROVE  /\ \A b \in Browser : stateCookie'[b] # answer'[v].state
               /\ \A u \in Tab : url'[u] # answer'[v].state
               /\ \A u \in Tab \ {v} : answer'[u].state # answer'[v].state
               /\ answer'[v].state \notin spent'
    <3>1. CASE v = t
      <4>1. url'[t] = None
        BY <1>1, <1>2, <1>3, <1>5, <2>1, <3>1
      <4>. QED
        BY <1>2, <1>5, <2>1, <3>1, <4>1, NullAssumption
        DEF StateFree, cookies
    <3>2. CASE v # t
      <4>1. answer'[t].state # answer[v].state
        BY <1>2, <1>5, <2>1, <3>2, NullAssumption DEF StateFree
      <4>2. url'[t] # answer[v].state
        BY <1>5, <2>1, <3>2, NullAssumption DEF LoginInv, Drawn
      <4>. QED
        BY <1>5, <2>1, <3>2, <4>1, <4>2 DEF LoginInv, Drawn, cookies
    <3>. QED BY <3>1, <3>2
  <2>. QED BY <2>1 DEF Drawn
<1>9. StateSpent'
  BY DEF LoginInv, StateSpent, cookies
<1>11. Carried'
  <2>1. CASE s \in Session /\ SessionFree(s) /\ p = "site" /\ known' = known \ {s}
    BY <1>2, <1>5, <1>10, <2>1, NullAssumption
    DEF LoginInv, Carried, OpensSession, SessionFree, cookies
  <2>2. CASE s \in Session /\ s = sentSession[t] /\ p = "user" /\ known' = known
    BY <1>2, <1>5, <1>10, <2>2, NullAssumption
    DEF LoginInv, Carried, OpensSession, cookies
  <2>3. CASE s \notin Session /\ known' = known
    BY <1>2, <1>5, <1>10, <2>3, NullAssumption
    DEF LoginInv, Carried, OpensSession, cookies
  <2>. QED BY <2>1, <2>2, <2>3
<1>. QED BY <1>4, <1>6, <1>7, <1>8, <1>9, <1>11 DEF LoginInv

\* A tab moves on without an answer.
LEMMA TabMoves ==
    ASSUME LoginInv, TypeOK', NEW t \in Tab, page[t] # "answered",
           UNCHANGED <<home, cookies, answer, history>>,
           \A u \in Tab \ {t} : /\ page'[u] = page[u] /\ url'[u] = url[u]
                                /\ matching'[u] = matching[u]
                                /\ sentSession'[u] = sentSession[u],
           sentSession'[t] \in {sentSession[t], sessionCookie[home[t]], None},
           url'[t] \in {url[u] : u \in Tab} \union {None},
           page'[t] # "authorize",
           matching'[t] => page'[t] = "callback",
           matching'[t] \/ page'[t] \in {"exchange", "store"}
               => url'[t] \in State /\ url'[t].for = home[t]
    PROVE  LoginInv'
<1>1. answer[t] = NoAnswer
  BY DEF LoginInv, Placed
<1>2. /\ NoAnswer.session = Keep /\ NoAnswer.state = Keep
      /\ NoAnswer.to = "closed"
  BY DEF NoAnswer
<1>3. StateSpent'
  BY DEF LoginInv, StateSpent, cookies, history
<1>4. Placed'
  BY <1>1, <1>2, NullAssumption DEF LoginInv, Placed, OpensSession
<1>5. Drawn'
  BY NullAssumption DEF LoginInv, Drawn, cookies, history
<1>6. home[t] \in Browser
  BY DEF LoginInv, TypeOK
<1>7. Ours'
  BY <1>6, NullAssumption DEF LoginInv, Ours, OwnLogin, cookies
<1>8. Carried'
  BY <1>6, NullAssumption
  DEF LoginInv, Carried, OpensSession, cookies, history
<1>. QED BY <1>3, <1>4, <1>5, <1>7, <1>8 DEF LoginInv

LEMMA LoginKeeps ==
    ASSUME LoginInv, NEW t \in Tab, LoginHandler(t)
    PROVE  LoginInv'
<1>1. /\ UNCHANGED <<home, cookies, live, known, settled>>
      /\ url' = [url EXCEPT ![t] = None]
  BY DEF LoginHandler
<1>2. live \subseteq Session /\ redeemed \subseteq State
  BY DEF LoginInv, TypeOK
<1>3. /\ {"site", "authorize"} \subseteq Page \ {"exchange", "store"}
      /\ {None, Keep} \cap (State \union Session) = {}
  BY NullAssumption DEF Page
<1>4. CASE Answer(t, "site", Keep, Keep) /\ UNCHANGED <<redeemed, spent>>
  BY <1>1, <1>2, <1>3, <1>4, AnswerKeeps
<1>5. ASSUME NEW x \in createLoginState(t),
             NEW c \in {Keep, None}, Answer(t, "authorize", x, c),
             redeemed' = redeemed \ {x}, spent' = spent \ {x}
      PROVE  LoginInv'
  <2>1. x \in State /\ x.for = home[t] /\ StateFree(x, t)
    BY FreshState
  <2>2. redeemed' \subseteq State /\ spent' \subseteq spent /\ x \notin spent'
    BY <1>2, <1>5
  <2>. QED BY <1>1, <1>2, <1>3, <1>5, <2>1, <2>2, AnswerKeeps
<1>. QED BY <1>4, <1>5 DEF LoginHandler

LEMMA CallbackKeeps ==
    ASSUME LoginInv, NEW t \in Tab, CallbackHandler(t)
    PROVE  LoginInv'
<1>1. CASE StateMatches(t)
  <2>1. TypeOK'
    BY <1>1 DEF CallbackHandler, StateMatches, Goto, Done, LoginInv, TypeOK,
                Page, cookies, service, history
  <2>2. url[t] \in State /\ url[t].for = home[t]
    BY <1>1 DEF StateMatches, LoginInv, Placed
  <2>3. /\ page' = [page EXCEPT ![t] = "exchange"]
        /\ matching' = [matching EXCEPT ![t] = FALSE]
        /\ sentSession' = [sentSession EXCEPT ![t] = None]
        /\ UNCHANGED <<home, cookies, answer, history, url>>
    BY <1>1 DEF CallbackHandler, StateMatches, Goto, Done
  <2>4. /\ page'[t] = "exchange" /\ ~matching'[t]
        /\ sentSession'[t] = None /\ url'[t] = url[t]
        /\ \A u \in Tab \ {t} : /\ page'[u] = page[u] /\ url'[u] = url[u]
                                /\ matching'[u] = matching[u]
                                /\ sentSession'[u] = sentSession[u]
    BY <2>3 DEF LoginInv, TypeOK
  <2>5. page[t] # "answered"
    BY DEF CallbackHandler
  <2>6. url'[t] \in {url[u] : u \in Tab} \union {None} /\ url'[t].for = home[t]
    BY <2>2, <2>4
  <2>. QED BY <2>1, <2>2, <2>3, <2>4, <2>5, <2>6, TabMoves
<1>2. CASE ~StateMatches(t)
  <2>1. /\ Answer(t, "site", Keep, Keep)
        /\ UNCHANGED <<home, cookies, live, redeemed, spent, known, settled>>
        /\ url' = [url EXCEPT ![t] = None]
    BY <1>2 DEF CallbackHandler, service, history
  <2>2. live \subseteq Session /\ redeemed \subseteq State
    BY DEF LoginInv, TypeOK
  <2>3. "site" \in Page /\ Keep \notin State \union Session
    BY NullAssumption DEF Page
  <2>. QED BY <2>1, <2>2, <2>3, AnswerKeeps
<1>. QED BY <1>1, <1>2

LEMMA ExchangeKeeps ==
    ASSUME LoginInv, NEW t \in Tab, ExchangeCode(t)
    PROVE  LoginInv'
<1>1. CASE Answer(t, "error", Keep, Keep) /\ UNCHANGED redeemed
  <2>1. UNCHANGED <<home, cookies, live, spent, known, url, settled>>
    BY DEF ExchangeCode, history
  <2>2. live \subseteq Session /\ redeemed \subseteq State
    BY DEF LoginInv, TypeOK
  <2>3. "error" \in Page /\ Keep \notin State \union Session
    BY NullAssumption DEF Page
  <2>. QED BY <1>1, <2>1, <2>2, <2>3, AnswerKeeps
<1>2. CASE /\ redeemed' = redeemed \union {url[t]}
           /\ Goto(t, "store") /\ UNCHANGED <<answer, request>>
  BY <1>2, NullAssumption
  DEF ExchangeCode, Goto, LoginInv, TypeOK, Ours, OwnLogin, Placed, Drawn,
      StateSpent, Carried, OpensSession, Page, NoAnswer, cookies, request,
      history
<1>. QED BY <1>1, <1>2 DEF ExchangeCode

\* The session is that of the login state in the URL, and that is the
\* browser's own.
LEMMA OpenKeeps ==
    ASSUME LoginInv, NEW t \in Tab, OpenSession(t)
    PROVE  LoginInv'
<1>1. UNCHANGED <<home, cookies, redeemed, spent, url, settled>>
  BY DEF OpenSession
<1>2. live \subseteq Session /\ redeemed \subseteq State
  BY DEF LoginInv, TypeOK
<1>3. /\ {"site", "error"} \subseteq Page
      /\ {None, Keep} \cap (State \union Session) = {}
  BY NullAssumption DEF Page
<1>4. ASSUME NEW s \in Fresh(url[t].for, Session, SessionFree),
             live' = live \union {s}, known' = known \ {s},
             Answer(t, "site", None, s)
      PROVE  LoginInv'
  <2>1. s \in Session /\ s.for = url[t].for /\ SessionFree(s)
    BY FreshSession
  <2>2. url[t] \in State /\ url[t].for = home[t]
    BY DEF OpenSession, LoginInv, Placed
  <2>3. live' \subseteq Session /\ s.for = home[t]
    BY <1>2, <1>4, <2>1, <2>2
  <2>. QED BY <1>1, <1>2, <1>3, <1>4, <2>1, <2>2, <2>3, AnswerKeeps
<1>5. CASE Answer(t, "error", Keep, Keep) /\ UNCHANGED <<live, known>>
  BY <1>1, <1>2, <1>3, <1>5, AnswerKeeps
<1>. QED BY <1>4, <1>5 DEF OpenSession

LEMMA LogoutKeeps ==
    ASSUME LoginInv, NEW t \in Tab, LogoutHandler(t)
    PROVE  LoginInv'
<1>1. PICK c \in {Keep, None} : Answer(t, "login", Keep, c)
  BY DEF LogoutHandler
<1>2. UNCHANGED <<home, cookies, redeemed, spent, known, url, settled>>
  BY DEF LogoutHandler, history
<1>3. live' \subseteq Session /\ redeemed \subseteq State
  BY DEF LogoutHandler, LoginInv, TypeOK
<1>4. /\ "login" \in Page
      /\ {None, Keep} \cap (State \union Session) = {}
  BY NullAssumption DEF Page
<1>. QED BY <1>1, <1>2, <1>3, <1>4, AnswerKeeps

\* The answer of a rotation gives back the session that came with the request.
LEMMA RotationKeeps ==
    ASSUME LoginInv, NEW t \in Tab, LoadSite(t),
           Answer(t, "user", Keep, sentSession[t]), sentSession[t] \in live
    PROVE  LoginInv'
<1>1. UNCHANGED <<home, cookies, live, redeemed, spent, known, url, settled>>
  BY DEF LoadSite, service, history
<1>2. /\ live \subseteq Session /\ redeemed \subseteq State
      /\ sentSession[t] \in Session
  BY DEF LoginInv, TypeOK
<1>3. "user" \in Page /\ Keep \notin State \union Session
  BY NullAssumption DEF Page
<1>. QED BY <1>1, <1>2, <1>3, AnswerKeeps

-----------------------------------------------------------------------------
(* Browsers, users and the environment.                                    *)

\* An answer arrives.  A login state comes from nowhere else, and the one whose
\* session arrives is cleared in the only browser that can have it.
LEMMA ReceiveKeeps ==
    ASSUME LoginInv, NEW t \in Tab, Receive(t)
    PROVE  LoginInv'
<1>. DEFINE a == answer[t]
            b == home[t]
<1>1. /\ a \in Answers /\ b \in Browser
      /\ stateCookie \in [Browser -> State \union {None}]
      /\ sessionCookie \in [Browser -> Session \union {None}]
  BY DEF LoginInv, TypeOK
<1>2. /\ a.to \in Page
      /\ a.state \in State \union {None, Keep}
      /\ a.session \in Session \union {None, Keep}
  BY <1>1 DEF Answers
<1>3. /\ stateCookie' =
            [stateCookie EXCEPT ![b] = Applied(a.state, stateCookie[b])]
      /\ sessionCookie' =
            [sessionCookie EXCEPT ![b] = Applied(a.session, sessionCookie[b])]
      /\ page' = [page EXCEPT ![t] = a.to]
      /\ url' = [url EXCEPT ![t] = IF a.to = "authorize" THEN a.state ELSE @]
      /\ spent' = spent \union {x \in {url[t]} : OpensSession(a)}
      /\ known' = known \union {x \in {a.session} : OpensSession(a)}
      /\ answer' = [answer EXCEPT ![t] = NoAnswer]
      /\ UNCHANGED <<home, service, matching, settled>>
  BY DEF Receive, Goto
<1>12. \/ OpensSession(a) /\ spent' = spent \union {url[t]}
                           /\ known' = known \union {a.session}
       \/ ~OpensSession(a) /\ spent' = spent /\ known' = known
  BY <1>3
<1>13. /\ sentSession'[t] \in {sessionCookie'[b], None}
       /\ \A u \in Tab \ {t} : sentSession'[u] = sentSession[u]
  BY <1>1, <1>3 DEF Receive, LoginInv, TypeOK
<1>4. page[t] = "answered"
  BY DEF Receive
<1>5. TypeOK'
  <2>1. sentSession' \in [Tab -> Session \union {None}]
    BY <1>1, <1>2 DEF Receive, Applied, LoginInv, TypeOK
  <2>2. spent' \subseteq State /\ known' \subseteq Session
    BY <1>1, <1>12 DEF LoginInv, TypeOK, Placed, OpensSession
  <2>3. url' \in [Tab -> State \union {None}]
    BY <1>1, <1>3 DEF LoginInv, TypeOK, Placed
  <2>4. NoAnswer \in Answers
    BY DEF NoAnswer, Answers, Page
  <2>. QED
    BY <1>1, <1>2, <1>3, <2>1, <2>2, <2>3, <2>4
    DEF LoginInv, TypeOK, Applied, service
<1>6. NoAnswer.state = Keep /\ NoAnswer.session = Keep /\ NoAnswer.to = "closed"
  BY DEF NoAnswer
<1>7. /\ answer'[t] = NoAnswer
      /\ \A u \in Tab \ {t} : answer'[u] = answer[u] /\ url'[u] = url[u]
      /\ url'[t] = IF a.to = "authorize" THEN a.state ELSE url[t]
  BY <1>3 DEF LoginInv, TypeOK
<1>8. Ours'
  <2>1. \A c \in Browser : stateCookie'[c] # None => stateCookie'[c].for = c
    BY <1>1, <1>2, <1>3, NullAssumption DEF LoginInv, Ours, Applied
  <2>2. OwnLogin'
    BY <1>1, <1>2, <1>3, NullAssumption DEF LoginInv, Ours, OwnLogin, Applied
  <2>3. \A u \in Tab :
           sentSession'[u] \in Session => sentSession'[u].for = home[u]
    BY <1>1, <1>13, <2>2, NullAssumption DEF LoginInv, Ours, OwnLogin
  <2>. QED
    BY <1>3, <1>6, <1>7, <2>1, <2>2, <2>3, NullAssumption DEF LoginInv, Ours
<1>9. Placed'
  <2>1. /\ \A u \in Tab : matching'[u] = matching[u] /\ home'[u] = home[u]
        /\ \A u \in Tab \ {t} : page'[u] = page[u]
        /\ page'[t] = a.to
    BY <1>3 DEF LoginInv, TypeOK
  <2>2. ~matching[t]
    BY <1>4 DEF LoginInv, Placed
  <2>3. a.to \notin {"exchange", "store"}
    BY DEF LoginInv, Placed
  <2>4. a.to = "authorize" => url'[t] \in State
    BY <1>7 DEF LoginInv, Placed
  <2>. QED
    BY <1>6, <1>7, <2>1, <2>2, <2>3, <2>4, NullAssumption
    DEF LoginInv, Placed, OpensSession
<1>10. Drawn'
  <2>1. ASSUME NEW v \in Tab, answer'[v].state \in State
        PROVE  /\ \A c \in Browser : stateCookie'[c] # answer'[v].state
               /\ \A u \in Tab : url'[u] # answer'[v].state
               /\ \A u \in Tab \ {v} : answer'[u].state # answer'[v].state
               /\ answer'[v].state \notin spent'
    <3>1. v # t /\ answer'[v] = answer[v]
      BY <1>6, <1>7, <2>1, NullAssumption
    <3>2. a.state # answer[v].state /\ url[t] # answer[v].state
      BY <2>1, <3>1 DEF LoginInv, Drawn
    <3>3. \A c \in Browser : stateCookie'[c] # answer[v].state
      BY <1>1, <1>3, <2>1, <3>1, <3>2 DEF LoginInv, Drawn, Applied
    <3>4. \A u \in Tab \ {v} : answer'[u].state # answer[v].state
      BY <1>6, <1>7, <2>1, <3>1, NullAssumption DEF LoginInv, Drawn
    <3>. QED
      BY <1>12, <1>7, <2>1, <3>1, <3>2, <3>3, <3>4 DEF LoginInv, Drawn
  <2>. QED BY <2>1 DEF Drawn
<1>11. StateSpent'
  <2>1. ASSUME NEW c \in Browser PROVE stateCookie'[c] \notin spent'
    <3>1. None \notin spent'
      BY <1>5, NullAssumption DEF TypeOK
    <3>2. CASE OpensSession(a)
      <4>1. a.state = None /\ url[t] \in State /\ url[t].for = b
        BY <3>2 DEF LoginInv, Placed, OpensSession
      <4>. QED
        BY <1>1, <1>3, <1>12, <3>1, <3>2, <4>1, NullAssumption
        DEF LoginInv, Ours, StateSpent, Applied
    <3>3. CASE ~OpensSession(a)
      BY <1>1, <1>2, <1>3, <1>12, <3>1, <3>3
      DEF LoginInv, Drawn, StateSpent, Applied
    <3>. QED BY <3>2, <3>3
  <2>. QED BY <2>1 DEF StateSpent
<1>14. Carried'
  <2>1. a.session \in Session => a.session \in known'
    BY <1>12 DEF LoginInv, Carried
  <2>2. \A c \in Browser :
           sessionCookie'[c] \in Session => sessionCookie'[c] \in known'
    BY <1>1, <1>3, <1>12, <2>1 DEF LoginInv, Carried, Applied
  <2>3. \A u \in Tab : sentSession'[u] \in Session => sentSession'[u] \in known'
    BY <1>1, <1>12, <1>13, <2>2, NullAssumption DEF LoginInv, Carried
  <2>4. /\ ~OpensSession(answer'[t])
        /\ \A u \in Tab \ {t} :
              OpensSession(answer'[u]) => answer[u].session # a.session
    BY <1>6, <1>7, NullAssumption DEF LoginInv, Carried, OpensSession
  <2>5. ASSUME NEW u \in Tab, answer'[u].session \in Session
        PROVE  OpensSession(answer'[u]) <=> answer'[u].session \notin known'
    <3>1. u # t /\ answer'[u] = answer[u]
      BY <1>6, <1>7, <2>5, NullAssumption
    <3>. QED BY <1>12, <2>4, <2>5, <3>1 DEF LoginInv, Carried
  <2>6. \A u \in Tab : \A v \in Tab \ {u} :
           OpensSession(answer'[u]) => answer'[v].session # answer'[u].session
    BY <1>6, <1>7, <2>4, NullAssumption DEF LoginInv, Carried, OpensSession
  <2>. QED BY <2>2, <2>3, <2>5, <2>6 DEF Carried
<1>. QED BY <1>5, <1>8, <1>9, <1>10, <1>11, <1>14 DEF LoginInv

\* What users do to a tab that waits for no answer.
LEMMA UserKeeps ==
    ASSUME LoginInv, NEW t \in Tab,
           \/ LoadSite(t) \/ Retry(t) \/ AuthorizeFails(t)
           \/ \E p \in {"site", "login", "logout"} : Visit(t, p)
    PROVE  LoginInv'
<1>1. CASE /\ LoadSite(t) /\ sentSession[t] \in live
           /\ Answer(t, "user", Keep, sentSession[t])
  BY <1>1, RotationKeeps
<1>2. CASE ~(/\ LoadSite(t) /\ sentSession[t] \in live
             /\ Answer(t, "user", Keep, sentSession[t]))
  <2>1. PICK p \in {"site", "login", "logout", "user", "error"} :
           /\ page' = [page EXCEPT ![t] = p]
           /\ matching' = matching \/ matching' = [matching EXCEPT ![t] = FALSE]
           /\ url' = url \/ url' = [url EXCEPT ![t] = None]
           /\ page[t] \notin {"answered", "callback"}
           /\ \/ sentSession' = sentSession
              \/ sentSession' = [sentSession EXCEPT ![t] = None]
              \/ sentSession' =
                    [sentSession EXCEPT ![t] = sessionCookie[home[t]]]
           /\ UNCHANGED <<home, cookies, service, history, answer, settled>>
    BY <1>2 DEF LoadSite, SessionValid, Retry, AuthorizeFails, Visit, Send,
                Done, Goto, request
  <2>2. home[t] \in Browser
    BY DEF LoginInv, TypeOK
  <2>3. /\ sentSession' \in [Tab -> Session \union {None}]
        /\ sentSession'[t] \in {sentSession[t], sessionCookie[home[t]], None}
        /\ \A u \in Tab \ {t} : sentSession'[u] = sentSession[u]
    BY <2>1, <2>2 DEF LoginInv, TypeOK
  <2>4. TypeOK'
    BY <2>1, <2>3 DEF LoginInv, TypeOK, Page, cookies, service, history
  <2>5. ~matching'[t]
    BY <2>1 DEF LoginInv, TypeOK, Placed
  <2>. QED BY <2>1, <2>3, <2>4, <2>5, TabMoves DEF LoginInv, TypeOK
<1>. QED BY <1>1, <1>2

\* A callback URL is opened, for the first time or again.  If it matches the
\* cookie, its login state is one of this browser.
LEMMA CallbackOpened ==
    ASSUME LoginInv, NEW t \in Tab,
           Authorize(t) \/ \E u \in Tab : Revisit(t, u)
    PROVE  LoginInv'
<1>1. PICK u \in Tab :
         /\ SendCallback(t, url[u]) /\ url[u] \in State
         /\ page[t] # "answered"
         /\ UNCHANGED <<home, cookies, service, history, answer, settled>>
  <2>1. \A u \in Tab : url[u] \in State \union {None}
    BY DEF LoginInv, TypeOK
  <2>2. CASE Authorize(t)
    BY <2>2 DEF Authorize, LoginInv, Placed
  <2>3. CASE \E u \in Tab : Revisit(t, u)
    BY <2>1, <2>3 DEF Revisit
  <2>. QED BY <2>2, <2>3
<1>2. /\ page' = [page EXCEPT ![t] = "callback"]
      /\ url' = [url EXCEPT ![t] = url[u]]
      /\ matching' = [matching EXCEPT ![t] = stateCookie[home[t]] = url[u]]
      /\ UNCHANGED sentSession
  BY <1>1 DEF SendCallback, Goto
<1>3. TypeOK'
  BY <1>1, <1>2 DEF LoginInv, TypeOK, Page, cookies, service, history
<1>4. matching'[t] => url[u].for = home[t]
  <2>1. matching'[t] = (stateCookie[home[t]] = url[u])
    BY <1>2, Zenon DEF LoginInv, TypeOK
  <2>2. url[u] # None
    BY <1>1, NullAssumption
  <2>3. home[t] \in Browser
    BY DEF LoginInv, TypeOK
  <2>4. stateCookie[home[t]] # None => stateCookie[home[t]].for = home[t]
    BY <2>3 DEF LoginInv, Ours
  <2>. QED BY <2>1, <2>2, <2>4, Zenon
<1>. QED BY <1>1, <1>2, <1>3, <1>4, TabMoves DEF LoginInv, TypeOK

LEMMA EnvironmentKeeps ==
    ASSUME LoginInv,
           \/ \E t \in Tab : Close(t) \/ Settle(t)
           \/ \E s \in Session : SessionEnds(s)
           \/ \E b \in Browser : CookieExpires(b)
           \/ UNCHANGED vars
    PROVE  LoginInv'
<1>. USE NullAssumption
     DEF LoginInv, TypeOK, Ours, OwnLogin, Placed, Drawn, StateSpent, Carried,
         OpensSession, Page, NoAnswer, cookies, service, history, request
<1>1. ASSUME NEW t \in Tab, Close(t) PROVE LoginInv'
  BY <1>1 DEF Close, Goto, Done, Answers
<1>2. ASSUME NEW t \in Tab, Settle(t) PROVE LoginInv'
  BY <1>2 DEF Settle
<1>3. ASSUME NEW s \in Session, SessionEnds(s) PROVE LoginInv'
  BY <1>3 DEF SessionEnds
<1>4. ASSUME NEW b \in Browser, CookieExpires(b) PROVE LoginInv'
  <2>1. /\ b \in Browser
        /\ stateCookie' \in {stateCookie, [stateCookie EXCEPT ![b] = None]}
        /\ sessionCookie' \in {sessionCookie, [sessionCookie EXCEPT ![b] = None]}
        /\ UNCHANGED <<home, service, history, page, url, request, answer,
                       settled>>
    BY <1>4 DEF CookieExpires
  <2>2. /\ stateCookie' \in [Browser -> State \union {None}]
        /\ sessionCookie' \in [Browser -> Session \union {None}]
        /\ \A c \in Browser : /\ stateCookie'[c] \in {stateCookie[c], None}
                               /\ sessionCookie'[c] \in {sessionCookie[c], None}
    BY <2>1
  <2>3. TypeOK' /\ Placed'
    BY <2>1, <2>2
  <2>4. Ours' /\ Carried'
    BY <2>1, <2>2
  <2>5. Drawn'
    BY <2>1, <2>2
  <2>6. StateSpent'
    BY <2>1, <2>2
  <2>. QED BY <2>3, <2>4, <2>5, <2>6
<1>5. CASE UNCHANGED vars
  BY <1>5 DEF vars
<1>. QED BY <1>1, <1>2, <1>3, <1>4, <1>5

-----------------------------------------------------------------------------
(* The theorems.                                                           *)

LEMMA Invariance == Spec => []LoginInv
<1>1. LoginInv /\ [Next]_vars => LoginInv'
  BY LoginKeeps, CallbackKeeps, ExchangeKeeps, OpenKeeps, LogoutKeeps,
     ReceiveKeeps, UserKeeps, CallbackOpened, EnvironmentKeeps
  DEF Next, Follow
<1>. QED BY <1>1, AtTheBeginning, PTL DEF Spec

\* Every variable of the login keeps its type.
THEOREM LoginTypes == Spec => []TypeOK
<1>1. LoginInv => TypeOK
  BY DEF LoginInv
<1>. QED BY <1>1, Invariance, PTL

\* A browser only gets the session of a login it began (handler.go,
\* checkLoginState), wherever callback URLs are carried.
THEOREM SessionIsOwn == Spec => []OwnLogin
<1>1. LoginInv => OwnLogin
  BY DEF LoginInv, Ours
<1>. QED BY <1>1, Invariance, PTL

\* A login state whose session has arrived is in no browser again (handler.go,
\* clearCookie in callbackHandler), for any number of tabs that log in at once.
THEOREM SpentForGood == Spec => []StateSpent
<1>1. LoginInv => StateSpent
  BY DEF LoginInv
<1>. QED BY <1>1, Invariance, PTL

-----------------------------------------------------------------------------
(* Logging in implements SignIn.                                           *)

\* A session for tab t is about to be opened, or is on its way.
Bringing(t) == page[t] = "store" \/ OpensSession(answer[t])

\* What a login may still bring: the code of each such tab is redeemed, its
\* session has not arrived, and no two of the tabs carry on the same login.
Delivery ==
    /\ spent \subseteq redeemed
    /\ \A t \in Tab : Bringing(t) =>
         /\ url[t] \in redeemed \ spent
         /\ \A u \in Tab \ {t} : Bringing(u) => url[u] # url[t]

\* A step that the abstract login does not see, and that lets no tab bring a
\* session that did not before.
LEMMA Unseen ==
    ASSUME Delivery, UNCHANGED <<sessionCookie, redeemed, history>>,
           \A t \in Tab : Bringing(t)' => Bringing(t) /\ url'[t] = url[t]
    PROVE  Delivery' /\ [Login!Next]_(Login!vars)
BY DEF Delivery, history, Login!vars

\* An answer of the service to tab t.
LEMMA Answered ==
    ASSUME LoginInv, NEW t \in Tab, NEW p, NEW x, NEW s, Answer(t, p, x, s)
    PROVE  /\ page'[t] = "answered"
           /\ answer'[t].session = s /\ answer'[t].to = p
           /\ \A u \in Tab \ {t} : page'[u] = page[u] /\ answer'[u] = answer[u]
BY DEF Answer, Goto, LoginInv, TypeOK

LEMMA LoginBegins ==
    ASSUME LoginInv, Delivery, NEW t \in Tab, LoginHandler(t)
    PROVE  Delivery' /\ [Login!Next]_(Login!vars)
<1>1. /\ UNCHANGED <<sessionCookie, known>>
      /\ \A u \in Tab \ {t} : url'[u] = url[u]
  BY DEF LoginHandler, LoginInv, TypeOK, cookies
<1>2. {None, Keep} \cap Session = {}
  BY NullAssumption
<1>3. CASE Answer(t, "site", Keep, Keep) /\ UNCHANGED <<redeemed, spent>>
  BY <1>1, <1>2, <1>3, Answered, Unseen DEF Bringing, OpensSession, history
<1>4. ASSUME NEW x \in createLoginState(t),
             NEW c \in {Keep, None}, Answer(t, "authorize", x, c),
             redeemed' = redeemed \ {x}, spent' = spent \ {x}
      PROVE  Delivery' /\ [Login!Next]_(Login!vars)
  <2>1. x \in State /\ \A u \in Tab \ {t} : url[u] # x
    BY FreshState DEF StateFree
  <2>2. /\ ~Bringing(t)'
        /\ \A u \in Tab \ {t} : Bringing(u)' => Bringing(u)
    BY <1>2, <1>4, Answered DEF Bringing, OpensSession
  <2>3. Delivery'
    BY <1>1, <1>4, <2>1, <2>2 DEF Delivery
  <2>4. Login!Next
    BY <1>1, <1>4, <2>1 DEF Login!Next, Login!Begin
  <2>. QED BY <2>3, <2>4
<1>. QED BY <1>3, <1>4 DEF LoginHandler

LEMMA CodeIsRedeemed ==
    ASSUME LoginInv, Delivery, NEW t \in Tab, ExchangeCode(t)
    PROVE  Delivery' /\ [Login!Next]_(Login!vars)
<1>1. UNCHANGED <<sessionCookie, spent, known, url>>
  BY DEF ExchangeCode, cookies, history
<1>2. CASE Answer(t, "error", Keep, Keep) /\ UNCHANGED redeemed
  BY <1>1, <1>2, Answered, Unseen, NullAssumption
  DEF Bringing, OpensSession, history
<1>3. CASE /\ url[t] \notin redeemed
           /\ redeemed' = redeemed \union {url[t]}
           /\ Goto(t, "store") /\ UNCHANGED answer
  <2>1. url[t] \in State
    BY DEF ExchangeCode, LoginInv, Placed
  <2>2. \A u \in Tab \ {t} : Bringing(u)' => Bringing(u)
    BY <1>3 DEF Bringing, Goto, LoginInv, TypeOK
  <2>3. \A u \in Tab \ {t} : Bringing(u)' => url[u] # url[t]
    BY <1>3, <2>2 DEF Delivery
  <2>4. Delivery'
    BY <1>1, <1>3, <2>2, <2>3 DEF Delivery
  <2>5. Login!Next
    BY <1>1, <1>3, <2>1 DEF Login!Next, Login!Redeem
  <2>. QED BY <2>4, <2>5
<1>. QED BY <1>2, <1>3 DEF ExchangeCode

\* An answer arrives.  With a session for the first time, it is for a login of
\* this browser whose session has not arrived before.
LEMMA SessionArrives ==
    ASSUME LoginInv, Delivery, NEW t \in Tab, Receive(t)
    PROVE  Delivery' /\ [Login!Next]_(Login!vars)
<1>. DEFINE s == answer[t].session
            b == home[t]
<1>1. /\ sessionCookie' =
            [sessionCookie EXCEPT ![b] = Applied(s, sessionCookie[b])]
      /\ page' = [page EXCEPT ![t] = answer[t].to]
      /\ url' = [url EXCEPT ![t] =
                    IF answer[t].to = "authorize" THEN answer[t].state ELSE @]
      /\ answer' = [answer EXCEPT ![t] = NoAnswer]
      /\ spent' = spent \union {x \in {url[t]} : OpensSession(answer[t])}
      /\ known' = known \union {x \in {s} : OpensSession(answer[t])}
      /\ UNCHANGED redeemed
  BY DEF Receive, Goto, service
<1>2. /\ b \in Browser /\ s \in Session \union {None, Keep}
      /\ sessionCookie \in [Browser -> Session \union {None}]
  BY DEF LoginInv, TypeOK, Answers
<1>3. /\ answer'[t].session = Keep /\ page'[t] # "store"
      /\ \A u \in Tab \ {t} : /\ answer'[u] = answer[u] /\ page'[u] = page[u]
                              /\ url'[u] = url[u]
  BY <1>1 DEF LoginInv, TypeOK, Placed, NoAnswer
<1>4. /\ ~Bringing(t)'
      /\ \A u \in Tab \ {t} : Bringing(u)' => Bringing(u)
  BY <1>3, NullAssumption DEF Bringing, OpensSession
<1>5. CASE OpensSession(answer[t])
  <2>1. Bringing(t)
    BY <1>5 DEF Bringing
  <2>2. url[t] \in redeemed \ spent
    BY <2>1 DEF Delivery
  <2>3. /\ spent' = spent \union {url[t]} /\ known' = known \union {s}
        /\ s \in Session /\ s \notin known
    BY <1>1, <1>5 DEF OpensSession, LoginInv, Carried
  <2>4. Delivery'
    BY <1>1, <1>3, <1>4, <2>1, <2>2, <2>3 DEF Delivery
  <2>5. url[t] \in State /\ url[t].for = b /\ s.for = b
    BY <1>5, <2>3 DEF LoginInv, Placed, Ours
  <2>6. sessionCookie' = [sessionCookie EXCEPT ![url[t].for] = s]
    BY <1>1, <2>3, <2>5, NullAssumption DEF Applied
  <2>7. Login!Arrive(url[t], s)
    BY <1>1, <2>2, <2>3, <2>5, <2>6 DEF Login!Arrive
  <2>8. Login!Next
    BY <2>3, <2>5, <2>7 DEF Login!Next
  <2>. QED BY <2>4, <2>8
<1>6. CASE ~OpensSession(answer[t])
  <2>1. spent' = spent /\ known' = known
    BY <1>1, <1>6
  <2>2. Delivery'
    BY <1>1, <1>3, <1>4, <2>1 DEF Delivery
  <2>3. CASE s = None
    <3>1. sessionCookie' = [sessionCookie EXCEPT ![b] = None]
      BY <1>1, <2>3, NullAssumption DEF Applied
    <3>2. Login!Next
      BY <1>1, <1>2, <2>1, <3>1 DEF Login!Next, Login!SignOut
    <3>. QED BY <2>2, <3>2
  <2>4. CASE s = Keep
    <3>1. sessionCookie' = sessionCookie
      BY <1>1, <1>2, <2>4 DEF Applied
    <3>. QED BY <1>1, <2>1, <2>2, <3>1 DEF Login!vars
  <2>5. CASE s \in Session
    <3>1. s \in known /\ s.for = b
      BY <1>6, <2>5 DEF LoginInv, Carried, Ours
    <3>2. sessionCookie' = [sessionCookie EXCEPT ![b] = s]
      BY <1>1, <2>5, NullAssumption DEF Applied
    <3>3. Login!Renew(b, s)
      BY <1>1, <2>1, <3>1, <3>2 DEF Login!Renew
    <3>4. Login!Next
      BY <1>2, <2>5, <3>3 DEF Login!Next
    <3>. QED BY <2>2, <3>4
  <2>. QED BY <1>2, <2>3, <2>4, <2>5
<1>. QED BY <1>5, <1>6

\* A session is opened, for a login whose code is redeemed.
LEMMA SessionOpens ==
    ASSUME LoginInv, Delivery, NEW t \in Tab, OpenSession(t)
    PROVE  Delivery' /\ [Login!Next]_(Login!vars)
<1>1. UNCHANGED <<sessionCookie, redeemed, spent, url>> /\ Bringing(t)
  BY DEF OpenSession, Bringing, cookies
<1>2. \E p, x, s : Answer(t, p, x, s)
  BY DEF OpenSession
<1>3. \A u \in Tab : Bringing(u)' => Bringing(u)
  BY <1>1, <1>2, Answered DEF Bringing
<1>4. Delivery'
  BY <1>1, <1>3 DEF Delivery
<1>5. CASE \E s \in Session : SessionFree(s) /\ known' = known \ {s}
  <2>1. PICK s \in Session : SessionFree(s) /\ known' = known \ {s}
    BY <1>5
  <2>2. Login!Next
    BY <1>1, <2>1 DEF Login!Next, Login!Open, SessionFree
  <2>. QED BY <1>4, <2>2
<1>6. CASE UNCHANGED known
  BY <1>1, <1>4, <1>6 DEF Login!vars
<1>. QED BY <1>5, <1>6 DEF OpenSession, Fresh

\* The other handlers: of the callback and of the logout.
LEMMA HandlersUnseen ==
    ASSUME LoginInv, Delivery, NEW t \in Tab,
           CallbackHandler(t) \/ LogoutHandler(t)
    PROVE  Delivery' /\ [Login!Next]_(Login!vars)
<1>1. {None, Keep} \cap Session = {}
  BY NullAssumption
<1>2. UNCHANGED <<sessionCookie, redeemed, history>>
  BY DEF CallbackHandler, LogoutHandler, cookies, service
<1>3. CASE CallbackHandler(t)
  <2>1. \A u \in Tab \ {t} : url'[u] = url[u]
    BY <1>3 DEF CallbackHandler, LoginInv, TypeOK
  <2>2. CASE Goto(t, "exchange") /\ UNCHANGED <<url, answer>>
    BY <1>2, <2>2, Unseen DEF Bringing, Goto, LoginInv, TypeOK
  <2>3. CASE Answer(t, "site", Keep, Keep)
    BY <1>1, <1>2, <2>1, <2>3, Answered, Unseen DEF Bringing, OpensSession
  <2>. QED BY <1>3, <2>2, <2>3 DEF CallbackHandler
<1>4. CASE LogoutHandler(t)
  <2>1. UNCHANGED url
    BY <1>4 DEF LogoutHandler
  <2>2. \E p, x : \E s \in {None, Keep} : Answer(t, p, x, s)
    BY <1>4 DEF LogoutHandler
  <2>. QED
    BY <1>1, <1>2, <2>1, <2>2, Answered, Unseen DEF Bringing, OpensSession
<1>. QED BY <1>3, <1>4

\* Browsers and users, as far as they send requests only, and the answer of a
\* rotation, which is not seen before it arrives.
LEMMA UsersUnseen ==
    ASSUME LoginInv, Delivery, NEW t \in Tab,
           \/ LoadSite(t) \/ Authorize(t) \/ Retry(t) \/ AuthorizeFails(t)
           \/ \E p \in {"site", "login", "logout"} : Visit(t, p)
           \/ \E u \in Tab : Revisit(t, u)
           \/ Close(t)
    PROVE  Delivery' /\ [Login!Next]_(Login!vars)
<1>1. /\ UNCHANGED <<sessionCookie, redeemed, history>>
      /\ page'[t] # "store"
      /\ \A u \in Tab \ {t} : /\ page'[u] = page[u] /\ url'[u] = url[u]
                              /\ answer'[u] = answer[u]
  BY DEF LoadSite, Authorize, Retry, AuthorizeFails, Visit, Revisit, Close,
         Answer, Send, SendCallback, Goto, LoginInv, TypeOK, cookies, service
<1>2. ~OpensSession(answer'[t])
  <2>1. NoAnswer.session \notin Session
    BY NullAssumption DEF NoAnswer
  <2>2. page[t] # "answered" => answer[t] = NoAnswer
    BY DEF LoginInv, Placed
  <2>3. CASE Close(t)
    BY <2>1, <2>3 DEF Close, LoginInv, TypeOK, OpensSession
  <2>4. CASE Answer(t, "user", Keep, sentSession[t])
    BY <2>4, Answered, NullAssumption DEF OpensSession
  <2>5. CASE UNCHANGED answer
    <3>1. page[t] # "answered" \/ Close(t)
      BY DEF LoadSite, Authorize, Retry, AuthorizeFails, Visit, Revisit
    <3>. QED BY <2>1, <2>2, <2>3, <2>5, <3>1 DEF OpensSession
  <2>. QED
    BY <2>3, <2>4, <2>5
    DEF LoadSite, Authorize, Retry, AuthorizeFails, Visit, Revisit
<1>. QED BY <1>1, <1>2, Unseen DEF Bringing

LEMMA CookieEnds ==
    ASSUME LoginInv, Delivery, NEW b \in Browser, CookieExpires(b)
    PROVE  Delivery' /\ [Login!Next]_(Login!vars)
<1>1. UNCHANGED <<redeemed, spent, known, page, url, answer>>
  BY DEF CookieExpires, service, history
<1>2. Delivery'
  BY <1>1 DEF Delivery, Bringing
<1>3. CASE sessionCookie' = [sessionCookie EXCEPT ![b] = None]
  <2>1. Login!Next
    BY <1>1, <1>3 DEF Login!Next, Login!SignOut
  <2>. QED BY <1>2, <2>1
<1>4. CASE UNCHANGED sessionCookie
  BY <1>1, <1>2, <1>4 DEF Login!vars
<1>. QED BY <1>3, <1>4 DEF CookieExpires

LEMMA NothingSeen ==
    ASSUME LoginInv, Delivery,
           \/ \E t \in Tab : Settle(t)
           \/ \E s \in Session : SessionEnds(s)
           \/ UNCHANGED vars
    PROVE  Delivery' /\ [Login!Next]_(Login!vars)
<1>1. UNCHANGED <<sessionCookie, redeemed, history, page, url, answer>>
  BY DEF Settle, SessionEnds, vars, cookies, service
<1>. QED BY <1>1, Unseen DEF Bringing

\* Logging in, with its redirections, cookies and lost answers, implements
\* SignIn: a code is redeemed once (handler.go, exchangeCodeForToken), and its
\* session arrives once, in the browser that began the login, where only a late
\* answer of a rotation can put it back.
THEOREM SignInRefinement == Spec => ImplementsSignIn
<1>1. Init => Delivery /\ Login!Init
  BY NullAssumption
  DEF Init, Delivery, Bringing, OpensSession, NoAnswer, Login!Init
<1>2. LoginInv /\ Delivery /\ [Next]_vars
        => Delivery' /\ [Login!Next]_(Login!vars)
  BY LoginBegins, CodeIsRedeemed, SessionOpens, SessionArrives, HandlersUnseen,
     UsersUnseen, CookieEnds, NothingSeen
  DEF Next, Follow
<1>. QED BY <1>1, <1>2, Invariance, PTL DEF Spec, ImplementsSignIn, Login!Spec

=============================================================================
