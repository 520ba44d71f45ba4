----------------------------- MODULE SessionAuth -----------------------------
(***************************************************************************)
(* The session life cycle of console-service: requests that authenticate   *)
(* with a session cookie, the rotation of an expired access token, login,  *)
(* logout, and the hourly clean-up of old session secrets.                 *)
(*                                                                         *)
(* A session is one Kubernetes secret.  It holds an encrypted session ID   *)
(* and a pair (access token, refresh token) with their expiry times.  The  *)
(* service has no transaction over a secret: it lists, deletes and creates *)
(* in separate API calls, and the calls of concurrent requests interleave. *)
(* Only the exchange of a refresh token is under a lock.                   *)
(*                                                                         *)
(* A request is a Go routine of the HTTP server.  One action here is the   *)
(* code between two calls to another process (the Kubernetes API server,   *)
(* the OAuth server) or to the lock.  A pair of tokens is its number in    *)
(* the order of issue.  A secret keeps its name when it is recreated, and  *)
(* a name has one session ID, so the session stands for its secret.        *)
(***************************************************************************)
EXTENDS Naturals

CONSTANTS
    Req,             \* the requests that can be in flight together
    Session,         \* the session identifiers (random, never drawn twice)
    NoReq,           \* nobody holds the lock
    NoSession,       \* no session
    TokenLimit,      \* the bound on the token pairs the OAuth server issues
    RefreshReuse,    \* the OAuth server honours a redeemed refresh token again
    Faults           \* what may happen: failing calls of the Kubernetes API
                     \* ("api") or of the OAuth server ("oauth"), a "crash"
                     \* of the service, the "cleanup" job

ASSUME NoReqAssumption == NoReq \notin Req
ASSUME NoSessionAssumption == NoSession \notin Session
ASSUME TokenLimitAssumption == TokenLimit \in Nat
ASSUME RefreshReuseAssumption == RefreshReuse \in BOOLEAN

Token   == 1..TokenLimit
NoToken == 0
Pair    == Token \union {NoToken}

Label == {"idle", "read", "delList", "delete", "lookup", "exchange", "update",
          "storeList", "storeDelete", "storeCreate", "callback", "open",
          "answered"}
Kind  == {"none", "api", "user", "login", "logout", "callback"}
Reply == {"none", "forward", "valid", "opened", "denied", "loggedOut",
          "empty", "error", "aborted"}

VARIABLES
    secret,          \* the pair in each session's secret, NoToken: no secret
    aged,            \* the secrets older than SECRET_EXPIRY
    tip,             \* history: the newest pair stored for each session
    issued,          \* the number of pairs the OAuth server has issued
    owner,           \* history: the session each pair was issued for
    redeemed,        \* the pairs whose refresh token the server has redeemed
    accessExpired,   \* the pairs whose access token has expired
    refreshExpired,  \* the pairs whose refresh token has expired
    cache,           \* tokenCache: refresh token -> the pair it was rotated to
    mu,              \* the holder of Handler.mu
    drawn,           \* the session IDs generated so far
    jar,             \* the sessions whose cookie some browser holds
    dismissed,       \* history: the sessions somebody asked to log out, or
                     \* that the clean-up job found old
    pc, kind, sid,   \* of a request: where it is, what it asks, its cookie
    tok,             \* of a request: the pair it read, or that it forwarded
    new,             \* of a request: the pair it received, to be stored
    reply,           \* of a request: the answer on its way to the browser
    cronTarget       \* the secret the clean-up job found old, about to go

store   == <<secret, aged, tip>>
oauth   == <<issued, owner, redeemed>>
expiry  == <<accessExpired, refreshExpired>>
handler == <<cache, mu>>
browser == <<drawn, jar, dismissed>>
request == <<pc, kind, sid, tok, new, reply>>
vars    == <<store, oauth, expiry, handler, browser, request, cronTarget>>

-----------------------------------------------------------------------------
(* The type of the state, and the states the service starts in.            *)

\* Type invariant.
TypeOK ==
    /\ secret \in [Session -> Pair]
    /\ aged \subseteq Session
    /\ tip \in [Session -> Pair]
    /\ issued \in 0..TokenLimit
    /\ owner \in [Token -> Session \union {NoSession}]
    /\ redeemed \subseteq Token
    /\ accessExpired \subseteq Token
    /\ refreshExpired \subseteq Token
    /\ cache \in [Token -> Pair]
    /\ mu \in Req \union {NoReq}
    /\ drawn \subseteq Session
    /\ jar \subseteq Session
    /\ dismissed \subseteq Session
    /\ pc \in [Req -> Label]
    /\ kind \in [Req -> Kind]
    /\ sid \in [Req -> Session \union {NoSession}]
    /\ tok \in [Req -> Pair]
    /\ new \in [Req -> Pair]
    /\ reply \in [Req -> Reply]
    /\ cronTarget \in Session \union {NoSession}

Init ==
    /\ secret = [s \in Session |-> NoToken]
    /\ aged = {}
    /\ tip = [s \in Session |-> NoToken]
    /\ issued = 0
    /\ owner = [t \in Token |-> NoSession]
    /\ redeemed = {}
    /\ accessExpired = {}
    /\ refreshExpired = {}
    /\ cache = [t \in Token |-> NoToken]
    /\ mu = NoReq
    /\ drawn = {}
    /\ jar = {}
    /\ dismissed = {}
    /\ pc = [r \in Req |-> "idle"]
    /\ kind = [r \in Req |-> "none"]
    /\ sid = [r \in Req |-> NoSession]
    /\ tok = [r \in Req |-> NoToken]
    /\ new = [r \in Req |-> NoToken]
    /\ reply = [r \in Req |-> "none"]
    /\ cronTarget = NoSession

-----------------------------------------------------------------------------
(* Building blocks.                                                        *)

Goto(r, l) == pc' = [pc EXCEPT ![r] = l]

\* The handler returns: answer a goes to the browser.
Answer(r, a) ==
    /\ Goto(r, "answered")
    /\ reply' = [reply EXCEPT ![r] = a]
    /\ tok' = [tok EXCEPT ![r] = NoToken]
    /\ new' = [new EXCEPT ![r] = NoToken]

\* The next filter gets the request with pair t as its bearer token.
Forward(r, t) ==
    /\ Goto(r, "answered")
    /\ reply' = [reply EXCEPT ![r] = "forward"]
    /\ tok' = [tok EXCEPT ![r] = t]
    /\ UNCHANGED new

\* The handler goes on with its next call.
Proceed(r, l) ==
    /\ Goto(r, l)
    /\ UNCHANGED <<tok, new, reply>>

\* Mutant of Refusal: one handler returns before it writes an answer.
SilentRefusal(k) ==
    IF k = "logout" THEN "loggedOut" ELSE IF k = "user" THEN "" ELSE "denied"

\* What a request is told when its session is missing or was deleted.
Refusal(k) == IF k = "logout" THEN "loggedOut" ELSE "denied"

RemoveSecret(s) ==
    /\ secret' = [secret EXCEPT ![s] = NoToken]
    /\ aged' = aged \ {s}
    /\ UNCHANGED tip

CreateSecret(s, t) ==
    /\ secret[s] = NoToken
    /\ secret' = [secret EXCEPT ![s] = t]
    /\ tip' = [tip EXCEPT ![s] = t]
    /\ UNCHANGED aged

\* The OAuth server issues the next pair, for session s.
Issue(s) ==
    /\ issued < TokenLimit
    /\ issued' = issued + 1
    /\ owner' = [owner EXCEPT ![issued + 1] = s]

-----------------------------------------------------------------------------
(* Requests arrive, and answers reach the browser.                         *)

\* A request with session cookie s: logout deletes the session, every other
\* kind begins by reading it.
Arrive(r, k, s) ==
    /\ pc[r] = "idle"
    /\ k \in {"api", "user", "login", "logout"}
    /\ s \in jar
    /\ Goto(r, IF k = "logout" THEN "delList" ELSE "read")
    /\ kind' = [kind EXCEPT ![r] = k]
    /\ sid' = [sid EXCEPT ![r] = s]
    /\ dismissed' = dismissed \union {x \in {s} : k = "logout"}
    /\ UNCHANGED <<store, oauth, expiry, handler, drawn, jar, tok, new, reply,
                   cronTarget>>

\* A request without a session cookie is refused without any API call.
ArriveAnonymous(r, k) ==
    /\ pc[r] = "idle"
    /\ k \in {"api", "user", "login", "logout"}
    /\ Answer(r, Refusal(k))
    /\ kind' = [kind EXCEPT ![r] = k]
    /\ UNCHANGED <<store, oauth, expiry, handler, browser, sid, cronTarget>>

\* The OAuth server has sent the browser back with an authorization code.
ArriveCallback(r) ==
    /\ pc[r] = "idle"
    /\ Goto(r, "callback")
    /\ kind' = [kind EXCEPT ![r] = "callback"]
    /\ UNCHANGED <<store, oauth, expiry, handler, browser, sid, tok, new,
                   reply, cronTarget>>

\* The browser receives the answer and applies the Set-Cookie header of the
\* session cookie, if there is one; answers may overtake each other.
Receive(r) ==
    /\ pc[r] = "answered"
    /\ LET setsCookie   == \/ reply[r] = "opened"
                           \/ reply[r] = "forward" /\ new[r] # NoToken
           clearsCookie == \/ reply[r] = "loggedOut"
                           \/ reply[r] = "denied" /\ kind[r] = "login"
       IN  jar' = (jar \ {s \in jar : clearsCookie /\ s = sid[r]})
                    \union {s \in Session : setsCookie /\ s = sid[r]}
    /\ Goto(r, "idle")
    /\ kind' = [kind EXCEPT ![r] = "none"]
    /\ sid' = [sid EXCEPT ![r] = NoSession]
    /\ tok' = [tok EXCEPT ![r] = NoToken]
    /\ new' = [new EXCEPT ![r] = NoToken]
    /\ reply' = [reply EXCEPT ![r] = "none"]
    /\ UNCHANGED <<store, oauth, expiry, handler, drawn, dismissed, cronTarget>>

-----------------------------------------------------------------------------
(* Authentication: the session is read, and deleted if it is over.         *)

\* Mutant of ReadSession: the session is over with its access token.
ReadSessionStrict(r) ==
    /\ pc[r] = "read"
    /\ LET t == secret[sid[r]] IN
       \/ /\ t = NoToken
          /\ Answer(r, "denied")
       \/ /\ t \in accessExpired
          /\ Proceed(r, "delList")
       \/ /\ t \in Token \ accessExpired
          /\ IF kind[r] = "api" THEN Forward(r, t) ELSE Answer(r, "valid")
    /\ UNCHANGED <<store, oauth, expiry, handler, browser, kind, sid,
                   cronTarget>>

ReadSession(r) ==
    /\ pc[r] = "read"
    /\ LET t == secret[sid[r]] IN
       \/ /\ t = NoToken
          /\ Answer(r, "denied")
       \/ /\ t \in refreshExpired
          /\ Proceed(r, "delList")
       \/ /\ t \in accessExpired \ refreshExpired
          /\ kind[r] = "api"
          /\ Goto(r, "lookup")
          /\ tok' = [tok EXCEPT ![r] = t]
          /\ UNCHANGED <<new, reply>>
       \/ /\ t \in Token \ (accessExpired \union refreshExpired)
          /\ kind[r] = "api"
          /\ Forward(r, t)
       \/ /\ t \in Token \ refreshExpired
          /\ kind[r] # "api"
          /\ Answer(r, "valid")
    /\ UNCHANGED <<store, oauth, expiry, handler, browser, kind, sid,
                   cronTarget>>

\* The list of the secrets, or the key they are decrypted with, is not had:
\* the code does not tell this from a session that does not exist.
ReadFails(r) ==
    /\ pc[r] = "read"
    /\ "api" \in Faults
    /\ Answer(r, "denied")
    /\ UNCHANGED <<store, oauth, expiry, handler, browser, kind, sid,
                   cronTarget>>

\* DeleteSession, first call: find the name of the session's secret.
DelList(r) ==
    /\ pc[r] = "delList"
    /\ \/ /\ secret[sid[r]] # NoToken
          /\ Proceed(r, "delete")
       \/ /\ secret[sid[r]] = NoToken \/ "api" \in Faults
          /\ Answer(r, Refusal(kind[r]))
    /\ UNCHANGED <<store, oauth, expiry, handler, browser, kind, sid,
                   cronTarget>>

\* DeleteSession, second call: delete by that name.  An error is only logged.
DeleteSecret(r) ==
    /\ pc[r] = "delete"
    /\ \/ RemoveSecret(sid[r])
       \/ "api" \in Faults /\ UNCHANGED store
    /\ Answer(r, Refusal(kind[r]))
    /\ UNCHANGED <<oauth, expiry, handler, browser, kind, sid,
                   cronTarget>>

-----------------------------------------------------------------------------
(* Rotation of an expired access token.                                    *)

\* The TLS configuration for the OAuth client cannot be loaded: the filter
\* returns with nothing written.
PrepareFails(r) ==
    /\ pc[r] = "lookup"
    /\ "oauth" \in Faults
    /\ Answer(r, "empty")
    /\ UNCHANGED <<store, oauth, expiry, handler, browser, kind, sid,
                   cronTarget>>

\* Mutants of Lookup: the lock is not waited for; the cache keeps the last
\* rotation only, whatever pair it was made from.
LookupUnlocked(r) ==
    /\ pc[r] = "lookup"
    /\ \/ /\ cache[tok[r]] # NoToken
          /\ Forward(r, cache[tok[r]])
          /\ UNCHANGED mu
       \/ /\ cache[tok[r]] = NoToken
          /\ mu' = r
          /\ Proceed(r, "exchange")
    /\ UNCHANGED <<store, oauth, expiry, cache, browser, kind, sid,
                   cronTarget>>

LookupUnkeyed(r) ==
    /\ pc[r] = "lookup"
    /\ mu = NoReq
    /\ \/ /\ \E t \in Token : cache[t] # NoToken /\ Forward(r, cache[t])
          /\ UNCHANGED mu
       \/ /\ \A t \in Token : cache[t] = NoToken
          /\ mu' = r
          /\ Proceed(r, "exchange")
    /\ UNCHANGED <<store, oauth, expiry, cache, browser, kind, sid,
                   cronTarget>>

\* The lock is taken; it is given back at once when another request has
\* already rotated this pair, whose successor is then used as it is.
Lookup(r) ==
    /\ pc[r] = "lookup"
    /\ mu = NoReq
    /\ \/ /\ cache[tok[r]] # NoToken
          /\ Forward(r, cache[tok[r]])
          /\ UNCHANGED mu
       \/ /\ cache[tok[r]] = NoToken
          /\ mu' = r
          /\ Proceed(r, "exchange")
    /\ UNCHANGED <<store, oauth, expiry, cache, browser, kind, sid,
                   cronTarget>>

\* The OAuth server can redeem the refresh token of pair t.
Redeemable(t) ==
    /\ t \notin refreshExpired
    /\ RefreshReuse \/ t \notin redeemed

\* Mutant of ExchangeOk: the new pair is not put in the cache.
ExchangeUncached(r) ==
    /\ pc[r] = "exchange"
    /\ Redeemable(tok[r])
    /\ Issue(sid[r])
    /\ redeemed' = redeemed \union {tok[r]}
    /\ new' = [new EXCEPT ![r] = issued + 1]
    /\ mu' = NoReq
    /\ Goto(r, "update")
    /\ UNCHANGED <<store, expiry, cache, browser, kind, sid, tok, reply,
                   cronTarget>>

\* The new pair arrives, is cached, and the lock is released.
ExchangeOk(r) ==
    /\ pc[r] = "exchange"
    /\ Redeemable(tok[r])
    /\ Issue(sid[r])
    /\ redeemed' = redeemed \union {tok[r]}
    /\ cache' = [cache EXCEPT ![tok[r]] = issued + 1]
    /\ new' = [new EXCEPT ![r] = issued + 1]
    /\ mu' = NoReq
    /\ Goto(r, "update")
    /\ UNCHANGED <<store, expiry, browser, kind, sid, tok, reply,
                   cronTarget>>

\* The server redeems the token, but its answer is lost or has no expiry for
\* the refresh token: the pair is nowhere kept.
ExchangeLost(r) ==
    /\ pc[r] = "exchange"
    /\ "oauth" \in Faults
    /\ Redeemable(tok[r])
    /\ Issue(sid[r])
    /\ redeemed' = redeemed \union {tok[r]}
    /\ mu' = NoReq
    /\ Answer(r, "empty")
    /\ UNCHANGED <<store, expiry, cache, browser, kind, sid,
                   cronTarget>>

\* Mutant of ExchangeRefused: the early return keeps the lock.
ExchangeRefusedLocked(r) ==
    /\ pc[r] = "exchange"
    /\ ~Redeemable(tok[r]) \/ issued = TokenLimit \/ "oauth" \in Faults
    /\ Answer(r, "empty")
    /\ UNCHANGED <<store, oauth, expiry, handler, browser, kind, sid,
                   cronTarget>>

\* The server does not redeem the token (or the bound TokenLimit is reached).
ExchangeRefused(r) ==
    /\ pc[r] = "exchange"
    /\ ~Redeemable(tok[r]) \/ issued = TokenLimit \/ "oauth" \in Faults
    /\ mu' = NoReq
    /\ Answer(r, "empty")
    /\ UNCHANGED <<store, oauth, expiry, cache, browser, kind, sid,
                   cronTarget>>

\* UpdateSession: the session is read again, before it is replaced.  When it is
\* not found an error is written, but RotateTokenHandler overwrites the error
\* with the result of that write and returns no token and no error: its caller
\* panics, and the HTTP server drops the connection with nothing sent.
UpdateSession(r) ==
    /\ pc[r] = "update"
    /\ \/ /\ secret[sid[r]] # NoToken
          /\ Proceed(r, "storeList")
       \/ /\ secret[sid[r]] = NoToken \/ "api" \in Faults
          /\ Answer(r, "aborted")
    /\ UNCHANGED <<store, oauth, expiry, handler, browser, kind, sid,
                   cronTarget>>

\* Mutant of StoreList: a session that is gone is stored all the same.
StoreListUpsert(r) ==
    /\ pc[r] = "storeList"
    /\ \/ /\ secret[sid[r]] # NoToken
          /\ Proceed(r, "storeDelete")
       \/ /\ secret[sid[r]] = NoToken
          /\ Proceed(r, "storeCreate")
       \/ /\ "api" \in Faults
          /\ Answer(r, "empty")
    /\ UNCHANGED <<store, oauth, expiry, handler, browser, kind, sid,
                   cronTarget>>

\* StoreSession(update), first call: find the name of the secret.
StoreList(r) ==
    /\ pc[r] = "storeList"
    /\ \/ /\ secret[sid[r]] # NoToken
          /\ Proceed(r, "storeDelete")
       \/ /\ secret[sid[r]] = NoToken \/ "api" \in Faults
          /\ Answer(r, "empty")
    /\ UNCHANGED <<store, oauth, expiry, handler, browser, kind, sid,
                   cronTarget>>

\* StoreSession(update), second call: delete the secret.  A call that failed
\* (the secret is gone, or the answer is late) may still have deleted it.
StoreDelete(r) ==
    /\ pc[r] = "storeDelete"
    /\ \/ /\ secret[sid[r]] # NoToken
          /\ RemoveSecret(sid[r])
          /\ Proceed(r, "storeCreate")
       \/ /\ secret[sid[r]] = NoToken \/ "api" \in Faults
          /\ RemoveSecret(sid[r]) \/ UNCHANGED store
          /\ Answer(r, "empty")
    /\ UNCHANGED <<oauth, expiry, handler, browser, kind, sid,
                   cronTarget>>

\* StoreSession(update), third call: create it again, with the new pair.
StoreCreate(r) ==
    /\ pc[r] = "storeCreate"
    /\ \/ /\ CreateSecret(sid[r], new[r])
          /\ Forward(r, new[r])
       \/ /\ secret[sid[r]] # NoToken \/ "api" \in Faults
          /\ CreateSecret(sid[r], new[r]) \/ UNCHANGED store
          /\ Answer(r, "empty")
    /\ UNCHANGED <<oauth, expiry, handler, browser, kind, sid,
                   cronTarget>>

-----------------------------------------------------------------------------
(* Login: the callback redeems a code and opens a session.                 *)

RedeemCode(r) ==
    /\ pc[r] = "callback"
    /\ \E s \in Session \ drawn :
          /\ Issue(s)
          /\ drawn' = drawn \union {s}
          /\ sid' = [sid EXCEPT ![r] = s]
    /\ new' = [new EXCEPT ![r] = issued + 1]
    /\ Goto(r, "open")
    /\ UNCHANGED <<store, redeemed, expiry, handler, jar, dismissed, kind, tok,
                   reply, cronTarget>>

\* The callback is not one of ours, its code is bad, or the server is down.
RedeemCodeFails(r) ==
    /\ pc[r] = "callback"
    /\ Answer(r, "error")
    /\ UNCHANGED <<store, oauth, expiry, handler, browser, kind, sid,
                   cronTarget>>

\* StoreSession(not update): create the secret of the new session.
OpenSession(r) ==
    /\ pc[r] = "open"
    /\ \/ /\ CreateSecret(sid[r], new[r])
          /\ Answer(r, "opened")
       \/ /\ "api" \in Faults
          /\ CreateSecret(sid[r], new[r]) \/ UNCHANGED store
          /\ Answer(r, "error")
    /\ UNCHANGED <<oauth, expiry, handler, browser, kind, sid,
                   cronTarget>>

-----------------------------------------------------------------------------
(* Time, the clean-up job, and a crash of the service.                     *)

\* All pairs have the same lifetimes: they expire in the order of issue.
ExpireAccess(t) ==
    /\ t <= issued
    /\ 1..(t - 1) \subseteq accessExpired
    /\ accessExpired' = accessExpired \union {t}
    /\ UNCHANGED <<store, oauth, refreshExpired, handler, browser, request,
                   cronTarget>>

\* A refresh token outlives the access token it was issued with.
ExpireRefresh(t) ==
    /\ t \in accessExpired
    /\ 1..(t - 1) \subseteq refreshExpired
    /\ refreshExpired' = refreshExpired \union {t}
    /\ UNCHANGED <<store, oauth, accessExpired, handler, browser, request,
                   cronTarget>>

\* A secret passes the age of SECRET_EXPIRY seconds.
Age(s) ==
    /\ "cleanup" \in Faults
    /\ secret[s] # NoToken
    /\ aged' = aged \union {s}
    /\ UNCHANGED <<secret, tip, oauth, expiry, handler, browser, request,
                   cronTarget>>

\* The clean-up job finds that a secret is too old.
CronPick(s) ==
    /\ "cleanup" \in Faults
    /\ cronTarget = NoSession
    /\ s \in aged
    /\ cronTarget' = s
    /\ dismissed' = dismissed \union {s}
    /\ UNCHANGED <<store, oauth, expiry, handler, drawn, jar, request>>

\* It deletes the secret of that name.
CronDelete ==
    /\ cronTarget # NoSession
    /\ RemoveSecret(cronTarget)
    /\ cronTarget' = NoSession
    /\ UNCHANGED <<oauth, expiry, handler, browser, request>>

\* The process dies with its requests, its lock and its cache, and restarts.
Crash ==
    /\ "crash" \in Faults
    /\ LET keep(f, v) == [r \in Req |-> IF pc[r] = "answered" THEN f[r] ELSE v]
       IN  /\ pc' = keep(pc, "idle")
           /\ kind' = keep(kind, "none")
           /\ sid' = keep(sid, NoSession)
           /\ tok' = keep(tok, NoToken)
           /\ new' = keep(new, NoToken)
           /\ reply' = keep(reply, "none")
    /\ cache' = [t \in Token |-> NoToken]
    /\ mu' = NoReq
    /\ UNCHANGED <<store, oauth, expiry, browser, cronTarget>>

-----------------------------------------------------------------------------

Serve(r) ==
    \/ ReadSession(r) \/ ReadFails(r) \/ DelList(r) \/ DeleteSecret(r)
    \/ ExchangeOk(r) \/ ExchangeLost(r) \/ ExchangeRefused(r)
    \/ UpdateSession(r) \/ StoreList(r) \/ StoreDelete(r) \/ StoreCreate(r)
    \/ RedeemCode(r) \/ RedeemCodeFails(r) \/ OpenSession(r)

Environment ==
    \/ \E t \in Token : ExpireAccess(t) \/ ExpireRefresh(t)
    \/ \E s \in Session : Age(s) \/ CronPick(s)
    \/ CronDelete
    \/ Crash

Next ==
    \/ \E r \in Req :
          \/ \E k \in Kind, s \in Session : Arrive(r, k, s)
          \/ \E k \in Kind : ArriveAnonymous(r, k)
          \/ ArriveCallback(r)
          \/ Serve(r)
          \/ Lookup(r)
          \/ PrepareFails(r)
          \/ Receive(r)
    \/ Environment

Spec == Init /\ [][Next]_vars

\* A Go routine runs, every call it makes returns, and a sync.Mutex is never
\* withheld from a waiter for ever.  Nothing makes a browser send a request,
\* a token expire, the clean-up job run or the service crash.
Fairness ==
    \A r \in Req : WF_vars(Serve(r)) /\ SF_vars(Lookup(r))

FairSpec == Spec /\ Fairness

-----------------------------------------------------------------------------
(* Properties.                                                             *)

\* The requests that were given a pair of their own and are storing it.
Storing == {r \in Req :
    pc[r] \in {"update", "storeList", "storeDelete", "storeCreate"}}

\* The sessions that live: those with a secret, and those whose secret a
\* rotation has deleted and is about to create again.
Live == {s \in Session :
    \/ secret[s] # NoToken
    \/ \E r \in Req : pc[r] = "storeCreate" /\ sid[r] = s}

\* No request ever acts for another session: what a session stores, what the
\* cache returns for a pair and what a request forwards was issued for the
\* same session, however rotations of several sessions share the cache.
OwnTokens ==
    /\ \A s \in Session : secret[s] # NoToken => owner[secret[s]] = s
    /\ \A t \in Token : cache[t] # NoToken => owner[cache[t]] = owner[t]
    /\ \A r \in Req : reply[r] = "forward" => owner[tok[r]] = sid[r]

\* The lock and the cache let one request at a time replace the secret of a
\* session, although the lock is released before the secret is touched.
SingleStorer ==
    \A r1, r2 \in Storing : sid[r1] = sid[r2] => r1 = r2

\* handler.go: "add lock to avoid exchanging multiple times".  A request on
\* its way to the OAuth server holds a refresh token that nobody redeemed.
\* (Holds while the service does not crash and the server's answers arrive.)
NoDoubleExchange ==
    \A r \in Req : pc[r] = "exchange" => tok[r] \notin redeemed

\* A stored session can go on: its refresh token is still good for the OAuth
\* server, or the cache knows the pair it was rotated to.
NeverStranded ==
    \A s \in Session :
        secret[s] \in redeemed => cache[secret[s]] # NoToken

\* Somebody had asked for the end of session s, or its time was over.
Excused(s) == s \in dismissed \/ \E t \in refreshExpired : owner[t] = s

\* No session is lost: one that was stored and lives no more was logged out or
\* found old by the clean-up job, or a refresh token of it had expired.  The
\* service never drops a session of its own accord, however rotations, reads,
\* logouts and clean-ups of it overlap.
\* (Holds while no call of the Kubernetes API fails and nothing crashes.)
NoSessionLost ==
    \A s \in Session :
        tip[s] # NoToken /\ s \notin Live => Excused(s)

\* The session life cycle refines SessionLifecycle: a session is opened once,
\* only moves to newer pairs, and an ended session never comes back.
Lifecycle == INSTANCE SessionLifecycle WITH live <- Live, last <- tip

ImplementsLifecycle == Lifecycle!Spec

\* Every request comes to its end: no interleaving of rotations, deletions and
\* clean-ups leaves one waiting for the lock.  It ends with a reply, or dropped
\* by its panic, the latter only if its session has ended meanwhile.
RequestsEnd ==
    \A r \in Req :
        pc[r] # "idle"
            ~> pc[r] = "answered" /\ (reply[r] = "aborted" => sid[r] \notin Live)

-----------------------------------------------------------------------------
(* The inductive invariant behind the safety properties.                   *)

\* What a request carries at each point of its way.
Shape ==
    \A r \in Req :
        /\ pc[r] \in {"idle", "read", "delList", "delete", "callback"}
              => tok[r] = NoToken /\ new[r] = NoToken
        /\ pc[r] \in {"lookup", "exchange"}
              => tok[r] \in Token /\ new[r] = NoToken
        /\ r \in Storing => tok[r] \in Token /\ new[r] \in Token
        /\ pc[r] = "open" => tok[r] = NoToken /\ new[r] \in Token
        /\ pc[r] \notin {"idle", "callback", "answered"} => sid[r] \in Session
        /\ pc[r] # "answered" => reply[r] = "none"
        /\ reply[r] = "forward" => tok[r] \in Token

\* Only pairs that were issued are anywhere.
Known ==
    /\ \A s \in Session : secret[s] <= issued /\ tip[s] <= issued
    /\ \A t \in Token : /\ cache[t] <= issued
                        /\ t > issued => cache[t] = NoToken
    /\ \A r \in Req : tok[r] <= issued /\ new[r] <= issued

\* Wherever a pair is kept for a session, it was issued for that session.
Ownership ==
    /\ \A s \in Session : /\ secret[s] # NoToken => owner[secret[s]] = s
                          /\ tip[s] # NoToken => owner[tip[s]] = s
    /\ \A t \in Token : cache[t] # NoToken => owner[cache[t]] = owner[t]
    /\ \A r \in Req : /\ tok[r] # NoToken => owner[tok[r]] = sid[r]
                      /\ new[r] # NoToken => owner[new[r]] = sid[r]

\* The exchange is done under the lock, for a pair that is not in the cache.
Locked ==
    \A r \in Req :
        /\ pc[r] = "exchange" <=> mu = r
        /\ pc[r] = "exchange" => cache[tok[r]] = NoToken

\* A secret holds its session's newest pair.  A request about to rotate a pair
\* has the newest one, or the cache knows better; one that stores a new pair
\* replaces the newest one, and the cache knows.
Current ==
    /\ \A s \in Session : secret[s] # NoToken => secret[s] = tip[s]
    /\ \A r \in Req :
          /\ pc[r] \in {"lookup", "exchange"}
                => tok[r] = tip[sid[r]] \/ cache[tok[r]] # NoToken
          /\ r \in Storing
                => /\ tok[r] = tip[sid[r]]
                   /\ cache[tok[r]] = new[r]
                   /\ new[r] > tok[r]

\* A login opens a session that nobody else has, and that has no secret yet.
Opening ==
    /\ \A s \in Session : tip[s] # NoToken => s \in drawn
    /\ \A r \in Req :
          pc[r] = "open" => tip[sid[r]] = NoToken /\ sid[r] \in drawn
    /\ \A r1, r2 \in Req :
          pc[r1] = "open" /\ pc[r2] = "open" /\ sid[r1] = sid[r2] => r1 = r2

Inv == /\ TypeOK
       /\ Shape
       /\ Known
       /\ Ownership
       /\ Locked
       /\ Current
       /\ SingleStorer
       /\ Opening

\* Whoever is about to delete a session has a reason.  (Strengthens
\* NoSessionLost, while no API call fails and nothing crashes.)
Accounted ==
    /\ \A t \in refreshExpired : t \in accessExpired
    /\ \A t \in accessExpired : t <= issued
    /\ \A r \in Req : pc[r] \in {"delList", "delete"} => Excused(sid[r])
    /\ cronTarget # NoSession => cronTarget \in dismissed
    /\ NoSessionLost

-----------------------------------------------------------------------------
(* What the documents and comments promise, and the code does not keep.    *)

\* handler.go: logout is to "delete session from persistent storage".  Once
\* the answer of a logout is sent, the session has no secret.
LogoutEndsSession ==
    \A r \in Req :
        reply[r] = "loggedOut" /\ sid[r] # NoSession
            => secret[sid[r]] = NoToken

\* design.md: an expired access token is refreshed and the request goes on, and
\* with an expired session it is sent to the login page.  The service does not
\* drop a request because its session ended while it was being rotated.
RequestNotDropped == \A r \in Req : reply[r] # "aborted"

=============================================================================
