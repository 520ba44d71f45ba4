------------------------------ MODULE LoginFlow ------------------------------
(***************************************************************************)
(* Logging in to the console: the tabs of one or several browsers follow   *)
(* the redirections between console-service and the OAuth server.          *)
(*                                                                         *)
(* The service keeps nothing about a login under way.  It draws a login    *)
(* state, gives it to the browser as a cookie and to the OAuth server in   *)
(* the URL, and accepts a callback when the two are equal.  Cookies belong *)
(* to a browser, not to a tab, and are set and cleared by name: tabs that  *)
(* log in at the same time overwrite each other's.  A request carries the  *)
(* cookies its browser had when it was sent; an answer changes the cookies *)
(* the browser has when it arrives.                                        *)
(*                                                                         *)
(* Login states and session IDs are random.  Here a value is a number, with *)
(* the browser it was drawn for (a login state) or whose login it comes     *)
(* from (a session ID); the service does not look at that.  A value that no *)
(* cookie, request or answer holds any more may be drawn again: nothing can *)
(* tell it from a new one.                                                  *)
(***************************************************************************)
EXTENDS Integers

CONSTANTS
    Tab, Browser,
    Homes,           \* the ways the tabs may be spread over the browsers
    NoTab,           \* no tab
    None,            \* no cookie, no login state
    Keep,            \* no Set-Cookie header of this name
    StateLimit,      \* the bound on the login states in use at a time
    SessionLimit     \* the bound on the sessions in use at a time

ASSUME HomesAssumption == Homes \subseteq [Tab -> Browser]
ASSUME NoTabAssumption == NoTab \notin Tab
ASSUME LimitAssumption == StateLimit \in Nat /\ SessionLimit \in Nat

State   == [for : Browser, number : 1..StateLimit]
Session == [for : Browser, number : 1..SessionLimit]

ASSUME NullAssumption ==
    {None, Keep} \cap (State \union Session) = {} /\ None # Keep

\* Where a tab is.  At site, login, logout and callback its request has been
\* sent, at exchange and store the service is working on it, at answered the
\* answer is on its way.
Page == {"closed", "site", "user", "login", "logout", "authorize", "callback",
         "exchange", "store", "answered", "error"}

VARIABLES
    home,            \* the browser each tab is in
    stateCookie,     \* of a browser: the cookie "state"
    sessionCookie,   \* of a browser: the cookie "sessionID_bke"
    live,            \* the sessions that are stored and not over
    known,           \* history: the sessions that have arrived in a browser
    redeemed,        \* the login states whose authorization code is redeemed
    spent,           \* history: the login states whose session arrived
    page,            \* of a tab: where it is
    url,             \* of a tab: the login state in its URL, or in the
                     \* callback URL it came from
    matching,        \* of a callback: its cookie was that of its URL
    sentSession,     \* of a request: the session in its cookies
    answer,          \* of a request: what its answer does
    settled          \* the tab whose user from now on is left to log in

Answers == [to : Page, state : State \union {None, Keep},
            session : Session \union {None, Keep}]
NoAnswer == [to |-> "closed", state |-> Keep, session |-> Keep]

\* An answer of a login brings a session and leads to the site; that of a
\* rotation is the site, and brings the session its request had.
OpensSession(a) == a.session \in Session /\ a.to = "site"

cookies == <<stateCookie, sessionCookie>>
service == <<live, redeemed>>
history == <<spent, known>>
request == <<matching, sentSession>>
vars == <<home, cookies, service, history, page, url, request, answer, settled>>

\* Type invariant.
TypeOK ==
    /\ home \in [Tab -> Browser]
    /\ stateCookie \in [Browser -> State \union {None}]
    /\ sessionCookie \in [Browser -> Session \union {None}]
    /\ live \subseteq Session
    /\ known \subseteq Session
    /\ redeemed \subseteq State
    /\ spent \subseteq State
    /\ page \in [Tab -> Page]
    /\ url \in [Tab -> State \union {None}]
    /\ matching \in [Tab -> BOOLEAN]
    /\ sentSession \in [Tab -> Session \union {None}]
    /\ answer \in [Tab -> Answers]
    /\ settled \in Tab \union {NoTab}

Init ==
    /\ home \in Homes
    /\ stateCookie = [b \in Browser |-> None]
    /\ sessionCookie = [b \in Browser |-> None]
    /\ live = {}
    /\ known = {}
    /\ redeemed = {}
    /\ spent = {}
    /\ page = [t \in Tab |-> "closed"]
    /\ url = [t \in Tab |-> None]
    /\ matching = [t \in Tab |-> FALSE]
    /\ sentSession = [t \in Tab |-> None]
    /\ answer = [t \in Tab |-> NoAnswer]
    /\ settled = NoTab

-----------------------------------------------------------------------------
(* Building blocks.                                                        *)

Goto(t, p) == page' = [page EXCEPT ![t] = p]

\* Tab t sends a request for p, with the session cookie its browser has now.
Send(t, p) ==
    /\ Goto(t, p)
    /\ sentSession' = [sentSession EXCEPT ![t] = sessionCookie[home[t]]]
    /\ UNCHANGED matching

\* Tab t opens a callback URL with login state x.
SendCallback(t, x) ==
    /\ Goto(t, "callback")
    /\ url' = [url EXCEPT ![t] = x]
    /\ matching' = [matching EXCEPT ![t] = stateCookie[home[t]] = x]
    /\ UNCHANGED sentSession

\* The handler is done with what the request carried.
Done(t) ==
    /\ matching' = [matching EXCEPT ![t] = FALSE]
    /\ sentSession' = [sentSession EXCEPT ![t] = None]

\* The handler returns: the browser is to go to p, with cookies x and s.
Answer(t, p, x, s) ==
    /\ Goto(t, "answered")
    /\ answer' = [answer EXCEPT ![t] = [to |-> p, state |-> x, session |-> s]]
    /\ Done(t)

\* Mutant of Applied: a cookie that the answer does not name is lost.
AppliedBlindly(v, old) == v

\* The cookie of a browser that had the value old, after an answer with v.
Applied(v, old) == IF v = Keep THEN old ELSE v

\* Nobody but tab t, which forgets its URL, holds login state x: no cookie,
\* no URL, no answer.
StateFree(x, t) ==
    /\ \A b \in Browser : stateCookie[b] # x
    /\ \A u \in Tab \ {t} : x \notin {url[u], answer[u].state}

SessionFree(s) ==
    /\ \A b \in Browser : sessionCookie[b] # s
    /\ \A t \in Tab : s \notin {sentSession[t], answer[t].session}

\* The random values of S drawn next for browser b.
Fresh(b, S, Free(_)) ==
    {x \in S : /\ x.for = b /\ Free(x)
               /\ \A y \in S : y.for = b /\ Free(y) => x.number <= y.number}

\* Mutant of createLoginState: it is the same every time.
createLoginStateFixed(t) == {x \in State : x.for = home[t] /\ x.number = 1}

\* createLoginState: the login state that is drawn for tab t.
createLoginState(t) ==
    Fresh(home[t], State, LAMBDA x : StateFree(x, t))

\* Users may do as they like, and calls of the API and OAuth server may fail.
AtWill == settled = NoTab

-----------------------------------------------------------------------------
(* The handlers of console-service.                                        *)

\* checkSessionCookie and the current-user handler: the session is found.
SessionValid(s) == s \in live

\* Mutant of LoginHandler: any session cookie counts as a session.
LoginHandlerTrusting(t) ==
    /\ page[t] = "login"
    /\ \/ /\ sentSession[t] # None
          /\ Answer(t, "site", Keep, Keep)
          /\ UNCHANGED <<redeemed, spent>>
       \/ /\ sentSession[t] = None
          /\ \E x \in createLoginState(t) :
               /\ Answer(t, "authorize", x, Keep)
               /\ redeemed' = redeemed \ {x}
               /\ spent' = spent \ {x}
    /\ url' = [url EXCEPT ![t] = None]
    /\ UNCHANGED <<home, cookies, live, known, settled>>

\* loginHandler.  A valid session needs no login; the cookie of an invalid
\* one, or of one that could not be read, is cleared.
LoginHandler(t) ==
    /\ page[t] = "login"
    /\ \/ /\ SessionValid(sentSession[t])
          /\ Answer(t, "site", Keep, Keep)
          /\ UNCHANGED <<redeemed, spent>>
       \/ /\ ~SessionValid(sentSession[t]) \/ AtWill
          /\ \E x \in createLoginState(t) :
               /\ Answer(t, "authorize", x,
                         IF sentSession[t] = None THEN Keep ELSE None)
               /\ redeemed' = redeemed \ {x}
               /\ spent' = spent \ {x}
    /\ url' = [url EXCEPT ![t] = None]
    /\ UNCHANGED <<home, cookies, live, known, settled>>

\* Mutant of StateMatches: the callback only has to carry a state.
StatePresent(t) == url[t] # None

\* checkLoginState: the state in the URL is that of the cookie.
StateMatches(t) == matching[t]

\* callbackHandler, up to the exchange of the code.
CallbackHandler(t) ==
    /\ page[t] = "callback"
    /\ \/ /\ StateMatches(t)
          /\ Goto(t, "exchange")
          /\ Done(t)
          /\ UNCHANGED <<url, answer>>
       \/ /\ ~StateMatches(t)
          /\ Answer(t, "site", Keep, Keep)
          /\ url' = [url EXCEPT ![t] = None]
    /\ UNCHANGED <<home, cookies, service, history, settled>>

\* exchangeCodeForToken.  The OAuth server redeems a code once.
ExchangeCode(t) ==
    /\ page[t] = "exchange"
    /\ \/ /\ url[t] \notin redeemed
          /\ redeemed' = redeemed \union {url[t]}
          /\ Goto(t, "store")
          /\ UNCHANGED <<answer, request>>
       \/ /\ url[t] \in redeemed \/ AtWill
          /\ Answer(t, "error", Keep, Keep)
          /\ UNCHANGED redeemed
    /\ UNCHANGED <<home, cookies, live, history, url, settled>>

\* Mutant of OpenSession: the login state stays in the browser.
OpenSessionOnly(t) ==
    /\ page[t] = "store"
    /\ \E s \in Fresh(url[t].for, Session, SessionFree) :
         /\ live' = live \union {s}
         /\ known' = known \ {s}
         /\ Answer(t, "site", Keep, s)
    /\ UNCHANGED <<home, cookies, redeemed, spent, url, settled>>

\* NewStoreSession and StoreSession: the session is stored, and the answer
\* replaces the login state by it.  (StoreSession may fail before or after
\* the secret is created; the browser does not have the session then.)
OpenSession(t) ==
    /\ page[t] = "store"
    /\ \/ \E s \in Fresh(url[t].for, Session, SessionFree) :
            /\ live' = live \union {s}
            /\ known' = known \ {s}
            /\ Answer(t, "site", None, s)
       \/ /\ AtWill
          /\ Answer(t, "error", Keep, Keep)
          /\ UNCHANGED <<live, known>>
    /\ UNCHANGED <<home, cookies, redeemed, spent, url, settled>>

\* logoutHandler: the cookie is cleared, whether the session is deleted or
\* cannot be.  The website goes on to the login page.
LogoutHandler(t) ==
    /\ page[t] = "logout"
    /\ \/ live' = live \ {sentSession[t]}
       \/ AtWill /\ UNCHANGED live
    /\ Answer(t, "login", Keep, IF sentSession[t] = None THEN Keep ELSE None)
    /\ UNCHANGED <<home, cookies, redeemed, history, url, settled>>

-----------------------------------------------------------------------------
(* Browsers and their users.                                               *)

\* The browser applies the cookies of an answer and follows its redirection;
\* a request it then sends carries the new cookies.
Receive(t) ==
    /\ page[t] = "answered"
    /\ LET a == answer[t]
           b == home[t]
           session == Applied(a.session, sessionCookie[b])
       IN  /\ stateCookie' = [stateCookie EXCEPT ![b] = Applied(a.state, @)]
           /\ sessionCookie' = [sessionCookie EXCEPT ![b] = session]
           /\ Goto(t, a.to)
           /\ sentSession' = [sentSession EXCEPT ![t] =
                   IF a.to \in {"site", "login"} THEN session ELSE None]
           /\ url' = [url EXCEPT ![t] =
                   IF a.to = "authorize" THEN a.state ELSE @]
           /\ spent' = spent \union {x \in {url[t]} : OpensSession(a)}
           /\ known' = known \union {x \in {a.session} : OpensSession(a)}
    /\ answer' = [answer EXCEPT ![t] = NoAnswer]
    /\ UNCHANGED <<home, service, matching, settled>>

\* The website is loaded and asks the current-user handler whose session it
\* has.  The request may be the one that rotates the session's tokens, and its
\* answer then sets the session's cookie again, for the life of the new refresh
\* token.  Refused, the website goes to the login page.
LoadSite(t) ==
    /\ page[t] = "site"
    /\ \/ /\ SessionValid(sentSession[t])
          /\ \/ Goto(t, "user") /\ Done(t) /\ UNCHANGED answer
             \/ Answer(t, "user", Keep, sentSession[t])
       \/ /\ ~SessionValid(sentSession[t]) \/ AtWill
          /\ Send(t, "login")
          /\ UNCHANGED answer
    /\ UNCHANGED <<home, cookies, service, history, url, settled>>

\* The user gives the OAuth server their password, and is sent back.
Authorize(t) ==
    /\ page[t] = "authorize"
    /\ SendCallback(t, url[t])
    /\ UNCHANGED <<home, cookies, service, history, answer, settled>>

\* The OAuth server sends the user back with an error, which the callback
\* handler shows.
AuthorizeFails(t) ==
    /\ page[t] = "authorize"
    /\ AtWill
    /\ Goto(t, "error")
    /\ url' = [url EXCEPT ![t] = None]
    /\ UNCHANGED <<home, cookies, service, history, request, answer, settled>>

\* The user opens the console, or its login page, goes on in it, or logs out.
Visit(t, p) ==
    /\ \/ page[t] = "closed" /\ p \in {"site", "login"}
       \/ page[t] = "user" /\ p \in {"site", "logout"}
       \/ page[t] = "error" /\ p = "site"
    /\ AtWill
    /\ Send(t, p)
    /\ UNCHANGED <<home, cookies, service, history, url, answer, settled>>

\* A user who waits for the login tries again after an error.
Retry(t) ==
    /\ settled = t
    /\ page[t] = "error"
    /\ Send(t, "site")
    /\ UNCHANGED <<home, cookies, service, history, url, answer, settled>>

\* A callback URL is opened once more: the tab is reloaded or reopened, or
\* the URL was copied from another tab, also of another browser.
Revisit(t, u) ==
    /\ page[t] \in {"closed", "error"}
    /\ page[u] # "authorize"
    /\ url[u] # None
    /\ AtWill
    /\ SendCallback(t, url[u])
    /\ UNCHANGED <<home, cookies, service, history, answer, settled>>

\* The tab is closed or goes elsewhere; an answer under way is lost.
Close(t) ==
    /\ page[t] # "closed"
    /\ AtWill
    /\ Goto(t, "closed")
    /\ answer' = [answer EXCEPT ![t] = NoAnswer]
    /\ Done(t)
    /\ url' = [url EXCEPT ![t] = IF page[t] = "authorize" THEN None ELSE @]
    /\ UNCHANGED <<home, cookies, service, history, settled>>

-----------------------------------------------------------------------------
(* The environment.                                                        *)

\* A session ends: its refresh token expires, it is cleaned up, ...
SessionEnds(s) ==
    /\ s \in live
    /\ AtWill
    /\ live' = live \ {s}
    /\ UNCHANGED <<home, cookies, redeemed, history, page, url, request, answer,
                   settled>>

\* The login state's cookie is dropped after defaultExpireTime, the session's
\* after the life of the refresh token it was last set with.
CookieExpires(b) ==
    /\ AtWill
    /\ \/ /\ stateCookie[b] # None
          /\ stateCookie' = [stateCookie EXCEPT ![b] = None]
          /\ UNCHANGED sessionCookie
       \/ /\ sessionCookie[b] # None
          /\ sessionCookie' = [sessionCookie EXCEPT ![b] = None]
          /\ UNCHANGED stateCookie
    /\ UNCHANGED <<home, service, history, page, url, request, answer, settled>>

\* From now on the user of tab t only wants to be logged in: no other tab is
\* open or opened, and nothing fails or expires any more.
Settle(t) ==
    /\ AtWill
    /\ page[t] # "closed"
    /\ \A u \in Tab \ {t} : page[u] = "closed"
    /\ settled' = t
    /\ UNCHANGED <<home, cookies, service, history, page, url, request, answer>>

\* What the service, the redirections and a user at the login form do.
Follow(t) ==
    \/ LoginHandler(t) \/ CallbackHandler(t) \/ ExchangeCode(t)
    \/ OpenSession(t) \/ LogoutHandler(t)
    \/ Receive(t) \/ LoadSite(t) \/ Authorize(t) \/ Retry(t)

Next ==
    \/ \E t \in Tab :
         \/ Follow(t)
         \/ AuthorizeFails(t)
         \/ Close(t)
         \/ Settle(t)
         \/ \E p \in {"site", "login", "logout"} : Visit(t, p)
         \/ \E u \in Tab : Revisit(t, u)
    \/ \E s \in Session : SessionEnds(s)
    \/ \E b \in Browser : CookieExpires(b)

Spec == Init /\ [][Next]_vars

\* Handlers return, answers arrive, and users who are asked to log in do.
FairSpec == Spec /\ \A t \in Tab : WF_vars(Follow(t))

-----------------------------------------------------------------------------
(* Properties.                                                             *)

\* A browser only ever has the cookie of a session that a login it began
\* itself opened, wherever the callback URL was opened or copied to: what
\* checkLoginState is for.
OwnLogin ==
    \A b \in Browser : sessionCookie[b] # None => sessionCookie[b].for = b

\* The state of a login whose session has arrived is in no browser any more,
\* whichever answers of other tabs came in between: its callback URL, opened
\* again, leads to the website and not to a second exchange of its code.
StateSpent == \A b \in Browser : stateCookie[b] \notin spent

\* Logging in implements SignIn: the code of a login is redeemed once, its session
\* arrives once, and in the browser that began it, whichever tabs carry on from
\* whichever callback URLs, and whatever answers are lost.  After that only the
\* late answer of a rotation can put the session back, and only there.
Login == INSTANCE SignIn WITH session <- sessionCookie, arrived <- spent

ImplementsSignIn == Login!Spec

\* A login that is left alone by the other tabs of its browser and by failures
\* comes to its end, whatever cookies, half-done logins and deleted sessions
\* there were before: the website, the login page and the callback do not send
\* the tab round in circles.
LoneLoginCompletes ==
    settled \in Tab ~> \E t \in Tab : settled = t /\ page[t] = "user"
=============================================================================
