--------------------------- MODULE SharedProxyHook ---------------------------
(***************************************************************************)
(* Two reverse proxies of ProxyComponentRequest change the answer of the   *)
(* backend on its way to the browser: the one to the OAuth server logs the *)
(* browser out after a password change, and the one to the clusters adds   *)
(* the multi-cluster plugin to a cluster's list of console plugins.        *)
(*                                                                         *)
(* Each proxy is one object for all requests, and so is its ModifyResponse *)
(* field, which every request overwrites with a closure over itself before *)
(* it is sent.  The answer to a request is changed by the closure that is  *)
(* in the field when the answer arrives.                                   *)
(*                                                                         *)
(* Req is the set of all requests of an execution, each made once.         *)
(***************************************************************************)
EXTENDS Naturals, FiniteSets

CONSTANTS
    Req,          \* the requests
    Session,      \* the sessions of the browsers that make them
    NoReq,        \* the field holds no closure yet
    NoSession     \* a request that was not made yet

ASSUME NoReqAssumption == NoReq \notin Req
ASSUME NoSessionAssumption == NoSession \notin Session

\* Where a request of each kind goes.  A "password" request goes to the OAuth
\* server; the others go to a cluster: the list of the plugins of a "member"
\* or the "host" cluster, or an "other" operation on plugins.
Kind == {"none", "password", "list", "hostList", "other"}

VARIABLES
    pc,           \* of a request: "new", "sent" to the backend, or "done"
    kind,         \* of a request: what it asks
    sid,          \* of a request: the session of its cookie
    live,         \* the sessions that have not been deleted
    oauthHook,    \* oauthProxy.ModifyResponse: the request it closes over
    pluginHook,   \* consolePluginProxy.ModifyResponse
    accepted,     \* history: the password requests answered 200 or 302
    body          \* of a request: whose backend answers its body is made of

vars == <<pc, kind, sid, live, oauthHook, pluginHook, accepted, body>>

\* Type invariant.
TypeOK ==
    /\ pc \in [Req -> {"new", "sent", "done"}]
    /\ kind \in [Req -> Kind]
    /\ sid \in [Req -> Session \union {NoSession}]
    /\ live \subseteq Session
    /\ oauthHook \in Req \union {NoReq}
    /\ pluginHook \in Req \union {NoReq}
    /\ accepted \subseteq Req
    /\ body \in [Req -> SUBSET Req]

Init ==
    /\ pc = [r \in Req |-> "new"]
    /\ kind = [r \in Req |-> "none"]
    /\ sid = [r \in Req |-> NoSession]
    /\ live = Session
    /\ oauthHook = NoReq
    /\ pluginHook = NoReq
    /\ accepted = {}
    /\ body = [r \in Req |-> {}]

-----------------------------------------------------------------------------
(* A request sets the hook of its proxy and is sent to the backend.        *)

Send(r, k, s) ==
    /\ pc[r] = "new"
    /\ s \in live
    /\ pc' = [pc EXCEPT ![r] = "sent"]
    /\ kind' = [kind EXCEPT ![r] = k]
    /\ sid' = [sid EXCEPT ![r] = s]
    /\ UNCHANGED <<live, accepted, body>>

ModifyOAuthRequestResponse(r, s) ==
    /\ Send(r, "password", s)
    /\ oauthHook' = r
    /\ UNCHANGED pluginHook

\* Mutant: the closure is put in the field of the wrong proxy as well.
ModifyBothProxies(r, k, s) ==
    /\ k \in {"list", "hostList", "other"}
    /\ Send(r, k, s)
    /\ pluginHook' = r
    /\ oauthHook' = r

ModifyConsolePluginProxyResponse(r, k, s) ==
    /\ k \in {"list", "hostList", "other"}
    /\ Send(r, k, s)
    /\ pluginHook' = r
    /\ UNCHANGED oauthHook

-----------------------------------------------------------------------------
(* The OAuth server answers a password request.                            *)

\* Mutant of LogoutCore: what is left are the sessions of the other requests.
LogoutKeepOthers(h) == live' = {sid[r] : r \in Req \ {h}}

\* The closure's request is logged out.
LogoutCore(h) == live' = live \ {sid[h]}

\* The password was changed (200), or tried too often (302).
PasswordAccepted(r) ==
    /\ pc[r] = "sent" /\ kind[r] = "password"
    /\ LogoutCore(oauthHook)
    /\ accepted' = accepted \union {r}
    /\ pc' = [pc EXCEPT ![r] = "done"]
    /\ body' = [body EXCEPT ![r] = {r}]
    /\ UNCHANGED <<kind, sid, oauthHook, pluginHook>>

\* Mutant of PasswordRejected: the status of the answer is not looked at.
RejectedLogsOut(r) ==
    /\ pc[r] = "sent" /\ kind[r] = "password"
    /\ LogoutCore(oauthHook)
    /\ pc' = [pc EXCEPT ![r] = "done"]
    /\ body' = [body EXCEPT ![r] = {r}]
    /\ UNCHANGED <<kind, sid, oauthHook, pluginHook, accepted>>

\* Any other status: the answer goes to the browser as it is.
PasswordRejected(r) ==
    /\ pc[r] = "sent" /\ kind[r] = "password"
    /\ pc' = [pc EXCEPT ![r] = "done"]
    /\ body' = [body EXCEPT ![r] = {r}]
    /\ UNCHANGED <<kind, sid, live, oauthHook, pluginHook, accepted>>

-----------------------------------------------------------------------------
(* A cluster answers a request for plugins.                                *)

PluginRequest(r) == pc[r] = "sent" /\ kind[r] \in {"list", "hostList", "other"}

\* The closure lets the answer pass: its own request is no list, or is for the
\* host cluster and authorized, or the host cluster has no such plugin.
PluginsPass(r) ==
    /\ PluginRequest(r)
    /\ pc' = [pc EXCEPT ![r] = "done"]
    /\ body' = [body EXCEPT ![r] = @ \union {r}]
    /\ UNCHANGED <<kind, sid, live, oauthHook, pluginHook, accepted>>

\* Mutant of PluginsMerged: the answer is written to the closure's browser, and
\* its body is left as it was.
PluginsMergedKept(r) ==
    /\ PluginRequest(r)
    /\ kind[pluginHook] \in {"list", "hostList"}
    /\ pc' = [pc EXCEPT ![r] = "done"]
    /\ body' = [body EXCEPT ![pluginHook] = @ \union {r}, ![r] = @ \union {r}]
    /\ UNCHANGED <<kind, sid, live, oauthHook, pluginHook, accepted>>

\* The closure reads the answer to the end, adds the plugin, and writes the
\* result to its own request's browser, unless that one has been answered.
\* What is left for the browser of r is an empty body.  (A host list gets here
\* when it was forbidden.)
PluginsMerged(r) ==
    /\ PluginRequest(r)
    /\ kind[pluginHook] \in {"list", "hostList"}
    /\ pc' = [pc EXCEPT ![r] = "done"]
    /\ body' = [body EXCEPT ![pluginHook] =
                   IF pc[pluginHook] = "sent" THEN @ \union {r} ELSE @]
    /\ UNCHANGED <<kind, sid, live, oauthHook, pluginHook, accepted>>

\* The answer cannot be read or is no plugin list: the proxy answers 502.
PluginsUnreadable(r) ==
    /\ PluginRequest(r)
    /\ kind[pluginHook] \in {"list", "hostList"}
    /\ pc' = [pc EXCEPT ![r] = "done"]
    /\ UNCHANGED <<kind, sid, live, oauthHook, pluginHook, accepted, body>>

-----------------------------------------------------------------------------

Next ==
    \E r \in Req :
        \/ \E s \in Session :
              \/ ModifyOAuthRequestResponse(r, s)
              \/ \E k \in Kind : ModifyConsolePluginProxyResponse(r, k, s)
        \/ PasswordAccepted(r) \/ PasswordRejected(r)
        \/ PluginsPass(r) \/ PluginsMerged(r) \/ PluginsUnreadable(r)

Spec == Init /\ [][Next]_vars

-----------------------------------------------------------------------------
(* Properties.                                                             *)

Ended == Session \ live

\* Whichever closure runs, only a session that asked for a password change
\* ends: no traffic to the other backends can log a browser out.
OnlyAskersEnd ==
    \A s \in Ended : \E r \in Req : kind[r] = "password" /\ sid[r] = s

\* There are never more sessions ended than password changes that went through.
EndsAreEarned == Cardinality(Ended) <= Cardinality(accepted)

\* What a cluster answers is given to one browser at most: a closure that
\* writes it to another browser's answer leaves nothing for the first.
AnswerGivenOnce ==
    \A q, r1, r2 \in Req : q \in body[r1] /\ q \in body[r2] => r1 = r2

\* handler.go: LogoutCore "deletes session when ... password modification".
\* A browser whose password change went through has no session any more.
PasswordChangeEndsSession == \A r \in accepted : sid[r] \notin live

=============================================================================
