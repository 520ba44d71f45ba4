# console-service: TLA+ models and proofs

console-service is the back end of the openFuyao web console: a Go HTTP server
beside a Kubernetes API server and an OAuth server.  Every request passes a
chain of filters that authenticate it, find out which cluster and which
component it is for, and proxy it there.  A session is kept as a Kubernetes
secret; open browser tabs are told over a WebSocket when their session is over.

This directory holds TLA+ models of that program, the TLC configurations that
check them on small instances, and TLAPS developments that prove the main
results for every instance.  Paths below are relative to the
root of the repository.

## 1. Inventory

| Component | State | Operations | Talks to |
|---|---|---|---|
| Session store `pkg/auth/session.go`, `k8sutil.go` | one secret per session in `session-secret` (encrypted ID, token pair, expiry times) | GetSession, GetTokenFromSessionID, UpdateSession, StoreSession, DeleteSession | Kubernetes API, one call at a time |
| OAuth handler `pkg/auth/handler.go` | `tokenCache`, `mu`, the singleton | login, callback, logout, current user, RotateTokenHandler, exchange of a refresh token | session store, OAuth server, cookies |
| Authentication filter `checkrequestauth.go` | none | reads header or cookie, rotates, refuses | OAuth handler, WebSockets |
| Clean-up job `delete-secret.yaml` | none | lists, reads and deletes old secrets, every hour | Kubernetes API |
| Login-status WebSockets `handler.go`, `websocketstore.go` | `wsStore`: wsID to connection; one goroutine per connection | register, heartbeat, forced logout | browser tabs |
| Routing filters `requestinfo.go`, `buildrequestinfo.go`, `handleconsolerequests.go`, `proxyapiserver.go`, `proxycomponentrequest.go`, `proxyconsoleplugin.go`, `proxystatic.go`, `server.go` | per request: path, cluster, request info; per proxy: a `ModifyResponse` field | one filter each | components, API server, Karmada |
| Login `handler.go` | none of its own: cookies `state` and `sessionID_bke` in the browser | login, callback, logout, current user | browsers, OAuth server |
| Start `cmd/`, `runtime/`, `k8scfg.go`, `k8sclient.go`, `server.go`, `NewHandler`, `GetConsoleServiceConfig`, the constructors of the filters | the listener, the handler singleton, the proxies and their transports | run once per process | files, config map, kubelet |
| Logger `zlog/log.go` | the logger, a watcher of its configuration file | made at the start, and again when the file changes | the file |
| Helpers: crypto, JWT, responses, IP, errors | none | functions | |

How they meet: the authentication filter calls the session store and, for an
expired access token, the OAuth handler; it forces a logout over the WebSockets
when a console API is called without a session.  The component proxy logs a
browser out after a password change, and reads the session to check who created
an alert silence.  The clean-up job and every request share the secrets with
nothing but the API server between them.

What is hard, and what makes each part correct:

* **Sessions.**  A secret is replaced by list, delete and create; requests,
  logouts and the clean-up job interleave between the calls.  Only the exchange
  of a refresh token is under a lock, which is released before the new pair is
  stored.  Calls fail, also after having had their effect; the pod may die
  anywhere (the context of `main.go` is never cancelled, so a restart is always
  a crash).  Correct is: one request at a time replaces a session's secret; no
  token of another session is ever used; a refresh token is redeemed once; a
  session only moves to newer pairs, ends for a reason, and an ended one never
  returns; every request comes to its end.
* **WebSockets.**  A map without a lock, a wsID shared by the tabs of a browser,
  clean-up by name.  Correct is: a tab is logged out once, a logout finds the
  tab it is for, and dead connections are removed.
* **Response hooks.**  A field of an object all requests share, written per
  request.  Correct is: an answer is handled by the closure of its own request.
* **Login.**  The service remembers nothing of a login under way; cookies belong to
  a browser, not to a tab, are set and cleared by name, and travel with requests
  and answers that overtake each other.  Correct is: a browser only gets the
  session of a login it began, a used login is not used again, and a login that is
  left alone comes to its end whatever was there before.
* **Start.**  Every part looks at certificates, configuration and Kubernetes for
  itself, once, each with its own fallback; the watcher of the log configuration
  runs beside the start.  Correct is: what listens is complete and as secure as its
  certificates, and the service comes up when its surroundings are good.
* **Routing.**  Each filter tests a path that others have rewritten.  Correct
  is: nothing but the website is reached without a token, the API server gets
  the requests meant for it with what remains of their path, a request for a
  cluster stays in that cluster, and a plugin is served by the cluster that
  described it.

`PROJECT.json` lists the hazards line by line with the properties that watch
them, and the components that are not modelled with the reason.

## 2. Modules

| Module | Models | Checked by |
|---|---|---|
| `SessionLifecycle` | abstract specification: what a session is, without requests or storage | as the property of `SessionAuth` |
| `SessionAuth` | session store, authentication, rotation, login, logout, clean-up, crash | `MCSessionAuth` |
| `SessionAuthProofs` | theorems about `SessionAuth` | `tlapm` |
| `SignIn` | abstract specification: what a login is, without tabs, redirections and cookies under way | as the property of `LoginFlow` |
| `LoginFlow` | tabs, browsers and their cookies through login, callback and logout | `MCLoginFlow` |
| `LoginProofs` | theorems about `LoginFlow` | `tlapm` |
| `ForcedLogout` | abstract specification: what the connections are for, without map, writes and races | as the property of `WebSocketStatus` |
| `WebSocketStatus` | registration, heartbeat, forced logout, races on the map | `MCWebSocketStatus` |
| `WebSocketProofs` | theorems about `WebSocketStatus` | `tlapm` |
| `SharedProxyHook` | the two shared `ModifyResponse` fields | `MCSharedProxyHook` |
| `ProxyHookProofs` | theorems about `SharedProxyHook` | `tlapm` |
| `RequestRouting` | the filter chain as a function of path, cluster, token and configuration | `MCRequestRouting` |
| `PathLemmas` | what cutting, cleaning and joining does to a path | `tlapm` |
| `RoutingProofs` | theorems about `RequestRouting` | `tlapm` |
| `LogReload` | the logger: its initialisation and the watcher of its file | as part of `Startup` |
| `Startup` | the start, stage by stage, with `LogReload` beside it, and restarts | `MCStartup` |
| `StartupProofs` | theorems about `Startup` | `tlapm` |

### SessionAuth

One action is the code between two calls to another process or to the lock.  A
request (`Req`) is a goroutine; `pc` says before which call it stands:

| `pc` | the next step in the code |
|---|---|
| `read` | `GetSession`: list and decrypt (`ReadSession`, `ReadFails`), with the expiry check that follows |
| `delList`, `delete` | the two calls of `DeleteSession` |
| `lookup`, `exchange` | `exchangeRefreshTokenForNewToken`: lock and cache, then the OAuth server |
| `update` | `UpdateSession`: the session is read again |
| `storeList`, `storeDelete`, `storeCreate` | the three calls of `StoreSession(update)` |
| `callback`, `open` | `callbackHandler`: redeem the code, then `StoreSession(not update)` |
| `answered` | the answer is on its way; `Receive` applies its cookies |

A token pair is its number in the order of issue; an expiry time is membership
in `accessExpired` or `refreshExpired`.  A secret keeps its name over an update,
so the session stands for it.  `kind` is what the request asks: `api` goes
through the authentication filter, `user` is the current-user handler, `login`,
`logout`, `callback` the handlers of these names.  `Faults` chooses what the
environment may do: `api` and `oauth` (calls fail; a failed delete or create may
have been carried out), `crash`, `cleanup`.  `RefreshReuse` lets the OAuth server
honour a redeemed refresh token again; nothing in the repository says whether it
does, so both are checked, and the proofs hold for both.  `tip`, `owner`,
`drawn`, `redeemed` and `dismissed` are history or belong to the environment.

`SessionLifecycle` has two variables: the sessions that live and the newest pair
of each.  The mapping takes `tip` for the latter and for the former `Live`: the
sessions with a secret **and those whose secret a rotation has deleted and not
yet created again**.  Without the second part the delete would end the session
and the create would revive it.

### LoginFlow

What `SessionAuth` leaves abstract (`ArriveCallback` with a code that may not be
ours) is the subject here, and what is concrete there is abstract here: a session is
in `live` or not.  `page` says where a tab is.  At `site`, `login`, `logout` and
`callback` its request has been sent with the cookies of that moment
(`sentSession`, `matching`); at `exchange` and `store` the callback handler is
between two calls; at `answered` the answer is under way, and `Receive` changes the
cookies the browser has *then*.  The handlers are actions of these names;
`Authorize`, `Visit`, `Revisit`, `Close` are users, browsers and the OAuth server.
`Revisit` opens a callback URL once more, by reloading or by copying it to another
tab or browser.  An authorization code is told by the login state it was issued
for and redeemed once (`redeemed`).

Login states and session IDs are random in the code.  Here they are numbers,
marked with the browser they were drawn for, which no handler looks at; `Fresh` draws
one that no cookie, URL, request or answer holds (the tab it is drawn for forgets
its URL).  A request that loads the site may rotate the access token, and then its
answer sets the session cookie again, with the session that the request was sent with
(`LoadSite`): it may arrive after that of a logout or of a newer login, and the browser
has the old session's cookie once more.  A tab at `user` has the website;
`settled` is a tab whose user from now on only wants to be logged in, and
`AtWill` (nobody has settled) guards everything that may disturb that: failing
calls, expiring cookies, ending sessions, closing, logging out.

`SignIn` has the session of each browser, the logins whose code is redeemed, the
logins whose session has arrived, and the sessions that have arrived.  The mapping
takes the session cookies for the first and the history variables `spent` and `known`
for the last two.  `LoginHandler` begins a login, `ExchangeCode` redeems, `OpenSession`
opens a session, `Receive` of an answer of a login is its arrival, of one that brings
the cookie of a rotation a `Renew`, and one that clears the cookie is the end of the
session in this browser, as is the expiry of the cookie.  `Renew` gives a browser only
a session that has arrived there before, from a login of its own.

### WebSocketStatus

Which wsID a connection has (`wsOf`) is chosen when it is opened.  A connection's `pc` is first its handler (`remove`, `add`: the two calls at
handler.go:581-582), then its heartbeat goroutine (`beat`, `writing`, `drop`).  A
process at `remove`, `add`, `drop` or `get` is inside its access to `wsStore`; one
at `writing` is inside `WriteMessage`.  `Die` is the Go runtime ending the process
over two overlapping accesses, one a write, or the panic of a heartbeat that
writes over a logout message; the process restarts with nothing.  `Die` is a
choice: the race may go unnoticed, and then both accesses take effect.

`ForcedLogout` knows which connections were opened, which are open, and which one each
request has ended.  A request has ended the connection in `tconn` from the moment it is
`notified`, which is when the connection is closed; the map, the heartbeats and the
writes are not seen.

### SharedProxyHook

`oauthHook` and `pluginHook` are the `ModifyResponse` fields, as the request whose
closure is in them.  `body[r]` is the set of backend answers that were written
to the browser of `r`.

### RequestRouting

A path is the sequence of the parts between its slashes: a rooted path begins with an
empty part, one with a closing slash ends in one.  The server has no `ServeMux` before
its filters, so nothing cleans a path: parts may be empty, `.` or `..` anywhere, and a
path need not be rooted.  `HasPrefix` follows `strings.HasPrefix`, whose last part may
end inside a part of the path (`/restful` begins with `/rest`), and `TrimPrefix` then
leaves the rest of that part: the constant `Behind` says what is behind one part in
another.  `splitPath` trims all slashes at both ends, `Clean` is `path.Clean`, which
`MCRequestRouting` compares with the resolution part by part on every path of up to five
parts, and `Join` is `path.Join`, by which `Through` puts a path behind the proxy path of
its cluster, and `ProxyByCluster` and `ProxyPlugin` behind that of a Service
(`ServiceProxyURL`).

Requests are served one after the other, since the filters keep no state; Karmada may
be installed or removed under way.  `hosted` is what the start found in the
configuration: each component's host is copied by itself, and one that is empty or names
no Service is none; without the configuration none has a host.  Components are reached
through the API server, by a path that names their Service; without a host that path is
empty and the API server is sent the component's own path (`serviceProxied`).  A path of
which Kubernetes' `NewRequestInfo` can make nothing (`undetermined`) is answered with an
error.  A descriptor that is none, which the filter dereferences all the same, is the
reply `dropped` of `NoDescriptor`.

What is assumed of the constants is what strings are: paths are not empty sequences
(`PathsAssumption`; the path `""` is one empty part), no string begins with two of the
names the filters test for, and none of these names begins with another
(`BehindAssumption`); that the proxy path of a plugin has been cleaned by the `path.Join`
that made it (`PrefixAssumption`); that clusters which no path names are told from those
that one does (`StringAssumption`); and that hosts are those of components
(`HostsAssumption`).

### LogReload and Startup

`stage` is what the process does next: the initialisation of the logger (which Go
runs before `main`), `NewServerConfig`, the access to Kubernetes, the loading of the
certificate, the clients, then `Run`: `registerAPI` with the only call of
`NewHandler` that counts, and the constructors of the filters in the order of
`buildHandlerChain`.  `static`, `plugin`, `component`, `apiserver`, `info` and `checker`
are what the constructors return; `Fallback` stands for a filter that an error has replaced
by its successor or left without a client.  A proxy is told by its host and by its
transport, which verifies, skips the verification, or is nil.  The
value `address` of `kube` is a server given without a scheme (`10.0.0.1:6443`): client-go
completes it, `ProxyAPIServer` parses it as it is and fails, or finds no host in it.
`Exit` is `os.Exit`
or a panic of the main goroutine and takes everything back; `Restart` is the
kubelet.

`cert`, `kube` and `credentials` change only while there is no container
(`Redeploy`): they are environment variables and `subPath` mounts.  The config map
and the log file may be edited at any time, and a mounted copy of the config map
follows later or is not there; a read of the configuration (`ConfigRead`) returns
either, so two parts may find different ones.

`LogReload` has the initialisation in the steps that the watcher's goroutine can come
between: the file is read, watched, the watcher gets its function, the logger is
made.  `HookReads` and `HookSets` are that function; `HookPanics` is its first line
when there is no logger yet, which ends the process.  The file may be removed and put
there again.  `HandleRemoval` is what viper's `WatchConfig` does about that event: its
goroutine ends and nobody watches any more, unless the file is there again under another
real path, as with the mount of a config map, where the event counts as a change.

## 3. Runs

Properties marked (v) are statements of the repository's documents that the code
does not keep: TLC finds a counterexample, described under `findings`.

| Run | Instance | Properties |
|---|---|---|
| `SessionAuth_faults` | 2 requests, 2 sessions, 3 pairs, API and OAuth faults, crash, reusable refresh tokens | `TypeOK`, `OwnTokens`, `SingleStorer`, `Inv`, `ImplementsLifecycle` |
| `SessionAuth_live` | 2 requests, 1 session, 4 pairs, clean-up, refresh tokens honoured once, fairness | `NoSessionLost`, `NoDoubleExchange`, `NeverStranded`, `ImplementsLifecycle`, `RequestsEnd` |
| `SessionAuth_logout` | 2 requests, 1 session, 2 pairs, no fault | `LogoutEndsSession` (v) |
| `SessionAuth_dropped` | as above | `RequestNotDropped` (v) |
| `Login_tabs` | 2 tabs in one browser or in two, every failure, fairness | `TypeOK`, `OwnLogin`, `StateSpent`, `ImplementsSignIn`, `LoneLoginCompletes` |
| `WebSocket_tabs` | 2 connections, 2 cookies, 2 requests, fairness | `TypeOK`, `NotifiedOnce`, `LoneTabReached`, `ImplementsLogout`, `DeadIsReaped` |
| `WebSocket_reach` | 2 connections on 1 cookie, 1 request | `LogoutReachesTab` (v) |
| `ProxyHook_shared` | 4 requests, 3 sessions | `TypeOK`, `OnlyAskersEnd`, `EndsAreEarned`, `AnswerGivenOnce` |
| `ProxyHook_password` | 2 requests, 2 sessions | `PasswordChangeEndsSession` (v) |
| `Routing_table` | some 60 paths, 20 of them with empty parts or dots, under each of 4 prefixes, with and without a closing slash, and 5 that are not rooted or are cut in a part; hosts for all components, for all but any of 3, or for none | `TypeOK`, `NoTokenNoBackend`, `ApiServerGetsTheRest`, `StaysInCluster`, `OnlyAlertsStray`, `PluginServedWhereDescribed` |
| `Startup_env` | every certificate, access, configuration and log file of 2, edited and removed under way, fairness | `TypeOK`, `LogFollowsFile`, `ChainComplete`, `SecureWithCertificate`, `LoginReady`, `ComesUp` |
| `Startup_http` | the same | `HttpFallback` (v) |

What they show:

* **The lock and the cache do their work.**  `SingleStorer` holds although the
  lock is released before the secret is touched: a second request that read the
  old pair finds it in the cache, and one that reads later finds the new pair or
  no secret.  `NoDoubleExchange` and `NeverStranded` say the same of the OAuth
  server; they need that no crash loses the cache and no answer is lost between
  redeeming and caching.
* **Storage without transactions still implements a session.**
  `ImplementsLifecycle` holds with every fault: what can go wrong is that a session
  ends early (a create that fails after the delete, a crash in between), never that
  one that ended comes back or falls back to an older pair.
* **A session ends for a reason** (`NoSessionLost`) while API calls succeed: it was
  logged out, found old, or a refresh token of it had expired.
* **But a logout need not end it** (`LogoutEndsSession`): in the gap of a rotation
  it finds no secret, and is answered all the same.  In this case the refined
  session never ended.  A logout between exchange and update does end it, and
  then the rotating request is dropped by a nil dereference (`RequestNotDropped`).
* **Tabs that log in at once do not get in each other's way for good.**  They
  overwrite each other's login state, and a late answer may clear what a newer one
  set; but the one who then finds no match is sent to the website, and a login that
  is left alone completes (`LoneLoginCompletes`).  The login state of a login that
  has completed is in no browser any more (`StateSpent`), so reloading its callback
  does not redeem its code again, and a callback URL carried to another browser gives
  that browser nothing (`OwnLogin`).  Each login brings one session at most, to the browser
  that began it, although several tabs may be on their way with its callback; the late
  answer of a rotation may undo a logout or a newer login in the browser, but only with a
  session that this browser has had (`ImplementsSignIn`).
* **What listens is whole, with one exception.**  Every filter has a fallback that
  leaves it or its client out of the chain without a word; those for a missing client are
  never taken, since `NewServer` has made the same clients before.  The filter of the API
  server checks something else: where the server is given as an address without a scheme,
  the service listens and this filter, and it alone, may be missing or lead nowhere
  (`ChainComplete`).  A certificate that is denied or damaged ends the
  process and never yields a plain listener (`SecureWithCertificate`).  The
  once-only `NewHandler` succeeds whenever there are credentials
  (`LoginReady`); without them there is no handler, and the service listens all the
  same.
* **But "use http" is not what happens** (`HttpFallback`): without certificate files
  and with verification on, the proxies to the website and the OAuth server have a nil
  transport.
* The watcher of the log configuration may end the process during its start; the
  restart makes up for it (`ComesUp`), and in a running service no edit is missed
  (`LogFollowsFile`) until the file is removed: a file that comes back may never be read
  again, which the property leaves out.
* Forced logouts reach a tab that has its wsID for itself (`LoneTabReached`), and
  may miss one that shares it (`LogoutReachesTab`).  What they end was open, is ended
  by one request, and does not come back (`ImplementsLogout`).
* Mixed-up closures never end a session that did not ask for a password change
  (`OnlyAskersEnd`) nor more than were earned (`EndsAreEarned`), but may end the
  wrong one of two (`PasswordChangeEndsSession`).
* The rewriting of paths agrees with a reference definition, `KubeRest`
  (`ApiServerGetsTheRest`), and never moves a request past its authentication
  (`NoTokenNoBackend`).
* **A request for a cluster stays in it, unless its path has `..`** (`StaysInCluster`):
  `path.Join` resolves them together with the proxy path of the cluster.  A component
  without a host gets its requests sent to the API server under its own prefix, where
  there is no API; alerts, which have lost theirs, and again paths with `..`, may be any
  request there (`OnlyAlertsStray`).  Both properties name the exception (`Plain`).
* **Every request comes to its end** (`RequestsEnd`) although rotations wait for each
  other: it is answered, or its connection is dropped because its session ended while its
  token was exchanged.

**Bounds and why they are enough.**  `TokenLimit` bounds the pairs the OAuth
server issues.  Three pairs are a login and two rotations of one session, or two
logins and a rotation; four are a login and three rotations, or two logins with a rotation
each, one after the other.  The properties
relate two requests, or a request and the clean-up job, over one session; the
second session is there for `OwnTokens`, where it must be possible to take
another's token.  A request returns to `idle` and begins anew, so executions are
not bounded, and the whole state space is explored.  What the bound on requests,
sessions and pairs leaves open the theorems close: `SessionAuth_live` checks
`NoDoubleExchange` and `NeverStranded` on one session and without failing calls, and
`ExchangedOnce` and `CanGoOn` prove them for any number and with failing API calls.  Two runs
identify states that differ in the history variable `dismissed` only (`VIEW
Undismissed`): nothing those runs check reads it, and no other variable depends on it.  `Login_tabs` has three login states and two
sessions in use at a time for each browser; with two tabs and one cookie no more are
ever held, so neither limit refuses a draw.  Its view (`Held`) leaves out of `live`, `redeemed`
and `spent` the values that nobody holds, which are drawn anew before they can be
looked at.  In `Startup` nothing is counted and restarts are without bound; two log
configurations are what an edit needs.  `Login_tabs` and the runs of `Startup` do not
check deadlock: a settled user who is logged in, and a service that listens
undisturbed, may stop.  In `WebSocketStatus` a
connection is opened once; in `SharedProxyHook` a request is made once, so the
run stops when all are answered and deadlock is not checked there.

**Fairness.**  `SessionAuth`: goroutines run and calls return (weak fairness of
`Serve`), and Go's mutex hands itself to a waiter that has waited for a
millisecond, so none starves (strong fairness of `Lookup`).  Requests to the API
server end with an error at worst.  That the OAuth exchange returns is an
assumption the code does not secure: its HTTP client has no timeout and is used
under the lock, so a server that accepts the connection and never answers holds
every rotation of the pod.  `Receive`, arrivals, expiry, clean-up and crash have no
fairness.  `WebSocketStatus`: goroutines run, the ticker ticks (strong fairness of
`BeatBegin`, since a logout message being written disables it for a moment), and the
network does not for ever accept data for a tab that is gone (strong fairness of
`BeatFails`).  `LoginFlow`: handlers return, answers arrive, and a user who is shown
the login form fills it in (weak fairness of `Follow`).  What ends a tab's progress is
`Close`, which has no fairness and which a settled tab no longer does.  `Startup`: the main
goroutine runs, its calls return, and the kubelet restarts a container that exits
(weak fairness of `StartSteps`); `ComesUp` needs no fairness of the watcher or of
the environment, only that it is good from `Calm` on.

## 4. Proofs

`SessionAuthProofs` proves, for every set of requests and sessions, every
`TokenLimit`, both kinds of OAuth server and every set of faults:

| Theorem | States |
|---|---|
| `TypeCorrect` | `Spec => []TypeOK` |
| `TokensStayInSession` | `Spec => []OwnTokens` |
| `OneStorer` | `Spec => []SingleStorer` |
| `SpecInv` | `Spec => []Inv` |
| `ExchangedOnce` | `Spec => []NoDoubleExchange`, without crashes and OAuth faults |
| `CanGoOn` | `Spec => []NeverStranded`, without crashes and OAuth faults |
| `NothingLost` | `Spec => []NoSessionLost`, without crashes and API faults |
| `Refinement` | `Spec => ImplementsLifecycle` |

The assumptions are those named in `SessionAuth`: the null values are not members
of the sets they complete, `TokenLimit` is a natural number.

The inductive invariant is `Inv`, which `SessionAuth_faults` also checks.
`SingleStorer` is not inductive: that no second request can come to store a
session follows from what the ones on their way carry.  The argument is

* `Current`: a request that stores holds the newest pair of its session as the
  one to be replaced, and the cache maps it to the new pair; a request at the lock
  has the newest pair, **or the cache knows its successor**;
* `Locked`: a request at the OAuth server holds the lock, and its pair is not in
  the cache;
* hence a request that comes from the exchange to store had the newest pair while
  the cache did not know it, so nobody was storing.

`Shape` says what a request carries at each `pc`, `Known` that only issued pairs
exist, `Ownership` whose they are, `Opening` that logins do not share a session.
Most actions end in one of a few ways (the request answers, forwards or goes on
with its next call, while secrets are only deleted); there is one lemma for each
way and one for each action that does more.  `ExchangedOnce` and `CanGoOn` add that the
cache knows every redeemed pair, `NothingLost` the invariant `Accounted`: whoever is
about to delete a session has a reason, and reasons are not taken back.
`Refinement` shows that `StoreCreate` rotates, `OpenSession` opens, `StoreDelete`
stutters although it deletes, and every other action at most ends sessions.

The other proof modules, each for every value of the constants that the assumptions
of its specification allow:

| Theorem | Module | States |
|---|---|---|
| `StartTypes` | `StartupProofs` | `Spec => []TypeOK` |
| `NoFilterLeftOut` | `StartupProofs` | `Spec => []ChainComplete` |
| `NoPlainListener` | `StartupProofs` | `Spec => []SecureWithCertificate` |
| `HandlerReady` | `StartupProofs` | `Spec => []LoginReady` |
| `EditsTakeEffect` | `StartupProofs` | `Spec => []LogFollowsFile` |
| `LoginTypes` | `LoginProofs` | `Spec => []TypeOK` |
| `SessionIsOwn` | `LoginProofs` | `Spec => []OwnLogin` |
| `SpentForGood` | `LoginProofs` | `Spec => []StateSpent` |
| `SignInRefinement` | `LoginProofs` | `Spec => ImplementsSignIn` |
| `SocketTypes` | `WebSocketProofs` | `Spec => []TypeOK` |
| `LoggedOutOnce` | `WebSocketProofs` | `Spec => []NotifiedOnce` |
| `LoneTab` | `WebSocketProofs` | `Spec => LoneTabReached`, an action property |
| `LogoutRefinement` | `WebSocketProofs` | `Spec => ImplementsLogout` |
| `HookTypes` | `ProxyHookProofs` | `Spec => []TypeOK` |
| `OthersEndNothing` | `ProxyHookProofs` | `Spec => []OnlyAskersEnd` |
| `NoMoreThanEarned` | `ProxyHookProofs` | `Spec => []EndsAreEarned` |
| `GivenOnce` | `ProxyHookProofs` | `Spec => []AnswerGivenOnce` |
| `RequestTypes` | `RoutingProofs` | `Spec => []TypeOK` |
| `Unauthenticated` | `RoutingProofs` | `Spec => []NoTokenNoBackend` |
| `Rewrites` | `RoutingProofs` | `Spec => []ApiServerGetsTheRest` |
| `KeptInCluster` | `RoutingProofs` | `Spec => []StaysInCluster` |
| `Strays` | `RoutingProofs` | `Spec => []OnlyAlertsStray` |
| `ServedWhereDescribed` | `RoutingProofs` | `Spec => []PluginServedWhereDescribed` |

* `Startup`.  The properties speak of a service that listens, which says nothing of how it
  came there; `MadeSoFar` says it of every stage: what each has made is still there,
  and what it found still so, at all later ones.  `LogInv` adds where the watcher
  can be; its last part, that a handled edit is in the logger or in the watcher's
  hands, is what `LogFollowsFile` needs to be inductive.
* `LoginFlow`.  The service compares two copies of a login state and remembers
  nothing, so the invariant says where a copy can be.  `Drawn`: one that is on its way to
  its browser is nowhere else.  `Ours`: the cookies of a browser are its own, also those
  that answers under way will set.  `Placed`: a tab that has passed the comparison has
  a login state of its own browser in its URL, and the answer that brings a session
  clears the login state with it.  For `SignInRefinement` these do not say that a session
  arrives once.  `Delivery` does: a tab for which a session is being opened, or is on
  its way, has a login state whose code is redeemed and whose session has not arrived,
  and no two such tabs have the same; the OAuth server, which redeems a code once, lets
  no second tab come so far.  `Carried` says that the session of an answer under way that
  no login has opened, of a cookie and of a request with one is among those that have
  arrived, so that what a rotation brings back is a `Renew`.
* `WebSocketStatus`.  `NotifiedOnce` compares requests that were answered; what a
  second one could still do depends on the connection.  `Triggered` says that the
  connection of a notified request is closed, `Opened` that whoever refers to a
  connection refers to one that was opened, hence to one that is never opened again.
  For `LoneTabReached`, `Registered` says that a connection with a heartbeat is in the map
  under its cookie or shares the cookie with another, which alone can have taken the
  place or have cleared it; `Cookies` that a cookie is chosen once, and finiteness of the
  opened connections that "another" can be counted.
  `LogoutRefinement` follows from `WsInv` alone.
* `SharedProxyHook`.  `Hooked`: the closure in a field is that of a request of this
  proxy, and a request under way has one there.  `Answered`: only answers that have
  come are in a body or count as accepted.  `Counted`: the sets are finite, and each step
  ends at most one session where it accepts one change.
* `RequestRouting`.  The properties compare what a backend is sent with the path that
  was asked for, and the filters see only what is left of that.  The invariant says that
  nothing before `BuildRequestInfo` changes the path (`Untouched`), that after it the path
  is `KubeRest` of the asked one and `isK8s` says whether that asks for Kubernetes
  (`Read`), and what has been delivered (`Delivered`).  `NoTokenNoBackend` needs that a
  request is let pass without a token for an icon (`Guarded`), and that a path of an icon
  is the path of no backend (`FaviconIsNoOther`).  `StaysInCluster` and `OnlyAlertsStray`
  need to know `path.Join`.  `PathLemmas` proves it: the parts that stay are numbered by
  their rank, so `Clean` has as many parts as stay (`CleanFacts`); where nothing is a dot,
  the first parts are where they were (`FirstParts`); hence what is joined to the proxy path
  of a cluster begins with it and goes on with the path (`JoinedToProxy`).  What is
  delivered through Karmada has been joined last of all (`ThroughStays`), and no API is under
  `/rest` (`NoApiUnderRest`).  `Described`: a request that has asked for a descriptor
  asked where it will be sent, although the request information changed in between.

Every safety property of the passing runs is proved.  Only model-checked are the
liveness properties (`RequestsEnd`, `DeadIsReaped`, `LoneLoginCompletes`,
`ComesUp`), which are out of the prover's reach.

## 5. Not modelled

Cryptography (a decrypted secret is what was encrypted), the text of answers and
logs, the contents of TLS configurations beyond what verifies and what does not, the
types of console plugins, the formatting of the time-offset handler, and the two
filters that no chain includes.  Nothing bounds the OAuth exchange in time: that it
returns is assumed.  In
`SharedProxyHook` the end of a session by a password change is its deletion: that the
delete may fail in turn (`handler.go:468`, which is only logged) is left out, so that
`PasswordChangeEndsSession` fails for the sharing of the closure and for nothing else;
what `OnlyAskersEnd`, `EndsAreEarned` and `AnswerGivenOnce` forbid, such a failure cannot
bring about.  The cookie `idpLogin` is only ever cleared and is left out of `LoginFlow`.  The
shell behaviour of the clean-up script when a secret vanishes under it is left out:
it depends on the image.  A lookup of Karmada that fails is in `RequestRouting`, where it
takes the request to the host cluster; no property judges it, since nothing in the
repository says what should become of such a request.

## 6. Plan

1. *(done)* `SessionLifecycle`, `SessionAuth`, `WebSocketStatus`,
   `SharedProxyHook`, `RequestRouting`, their runs, and the proofs about sessions.
2. *(done)* `LoginFlow`, `LogReload`, `Startup` and their runs; components without
   a host in `RequestRouting`; theorems about `LoginFlow`, `Startup`,
   `WebSocketStatus`, `SharedProxyHook` and `RequestRouting`.
3. *(done)* Every safety property that a run checks as a theorem; `SignIn` and
   `ForcedLogout`, and the proofs that `LoginFlow` and `WebSocketStatus` implement
   them.
4. An abstract table of routes that `RequestRouting` implements, and one of the start
   for `Startup`.
5. Two pods during a rolling update (each with its own lock and cache) as an instance of
   `SessionAuth`.
