--------------------------- MODULE ProxyHookProofs ---------------------------
(***************************************************************************)
(* Theorems about SharedProxyHook, for every set of requests and sessions. *)
(*                                                                         *)
(* The closures in a field come and go, but each is one of a request of    *)
(* that proxy: what a wrong closure does is what some request asked for.   *)
(***************************************************************************)
EXTENDS SharedProxyHook, FiniteSetTheorems, TLAPS

\* The closure in a field is that of a request of this proxy, and a request
\* that is under way has put one there.  One that is to come has no kind yet.
Hooked ==
    /\ \A r \in Req : pc[r] = "new" => kind[r] = "none"
    /\ oauthHook # NoReq => /\ kind[oauthHook] = "password"
                            /\ sid[oauthHook] \in Session
                            /\ pc[oauthHook] # "new"
    /\ pluginHook # NoReq => pc[pluginHook] # "new"
    /\ \A r \in Req : pc[r] = "sent" =>
          /\ kind[r] = "password" => oauthHook # NoReq
          /\ kind[r] # "password" => pluginHook # NoReq

\* Only answers that have come are in a body, or count as accepted.
Answered ==
    /\ \A q, r \in Req : q \in body[r] => pc[q] = "done"
    /\ \A r \in accepted : pc[r] = "done"

\* The sessions that ended can be counted.
Counted ==
    /\ IsFiniteSet(Ended)
    /\ IsFiniteSet(accepted)
    /\ EndsAreEarned

HookInv == TypeOK /\ Hooked /\ Answered /\ OnlyAskersEnd /\ AnswerGivenOnce

LEMMA AtTheBeginning == Init => HookInv /\ Counted
<1>. SUFFICES ASSUME Init PROVE HookInv /\ Counted
  OBVIOUS
<1>1. HookInv
  BY DEF Init, HookInv, TypeOK, Kind, Hooked, Answered, OnlyAskersEnd,
         AnswerGivenOnce, Ended
<1>2. Counted
  <2>1. Ended = {} /\ accepted = {}
    BY DEF Init, Ended
  <2>. QED BY <2>1, FS_EmptySet DEF Counted, EndsAreEarned
<1>. QED BY <1>1, <1>2

\* A request that is sent puts its own closure in the field.
LEMMA SendKeeps ==
    ASSUME HookInv, NEW r \in Req, NEW s \in Session,
           \/ ModifyOAuthRequestResponse(r, s)
           \/ \E k \in Kind : ModifyConsolePluginProxyResponse(r, k, s)
    PROVE  HookInv'
<1>. USE NoReqAssumption
     DEF HookInv, TypeOK, Kind, Hooked, Answered, OnlyAskersEnd,
         AnswerGivenOnce, Ended, Send
<1>1. CASE ModifyOAuthRequestResponse(r, s)
  BY <1>1 DEF ModifyOAuthRequestResponse
<1>2. ASSUME NEW k \in Kind, ModifyConsolePluginProxyResponse(r, k, s)
      PROVE  HookInv'
  BY <1>2 DEF ModifyConsolePluginProxyResponse
<1>. QED BY <1>1, <1>2

\* The answer to a password request runs the closure of one.
LEMMA PasswordKeeps ==
    ASSUME HookInv, NEW r \in Req, PasswordAccepted(r) \/ PasswordRejected(r)
    PROVE  HookInv'
<1>. USE DEF HookInv, TypeOK, Kind, Hooked, Answered, OnlyAskersEnd,
             AnswerGivenOnce, Ended
<1>1. CASE PasswordAccepted(r)
  <2>1. oauthHook \in Req /\ kind[oauthHook] = "password"
    BY <1>1 DEF PasswordAccepted
  <2>. QED BY <1>1, <2>1 DEF PasswordAccepted, LogoutCore
<1>2. CASE PasswordRejected(r)
  BY <1>2 DEF PasswordRejected
<1>. QED BY <1>1, <1>2

\* The answer to a request for plugins is in nobody's body yet.
LEMMA PluginsKeep ==
    ASSUME HookInv, NEW r \in Req,
           PluginsPass(r) \/ PluginsMerged(r) \/ PluginsUnreadable(r)
    PROVE  HookInv'
<1>. USE DEF HookInv, TypeOK, Kind, Hooked, Answered, OnlyAskersEnd,
             AnswerGivenOnce, Ended, PluginRequest
<1>1. CASE PluginsPass(r)
  BY <1>1 DEF PluginsPass
<1>2. CASE PluginsMerged(r)
  BY <1>2 DEF PluginsMerged
<1>3. CASE PluginsUnreadable(r)
  BY <1>3 DEF PluginsUnreadable
<1>. QED BY <1>1, <1>2, <1>3

LEMMA StutterKeeps == ASSUME HookInv, UNCHANGED vars PROVE HookInv'
<1>1. (TypeOK /\ Hooked)'
  BY DEF HookInv, TypeOK, Hooked, vars
<1>2. (Answered /\ OnlyAskersEnd /\ AnswerGivenOnce)'
  BY DEF HookInv, Answered, OnlyAskersEnd, AnswerGivenOnce, Ended, vars
<1>. QED BY <1>1, <1>2 DEF HookInv

LEMMA Inductive == ASSUME HookInv, [Next]_vars PROVE HookInv'
BY SendKeeps, PasswordKeeps, PluginsKeep, StutterKeeps DEF Next

\* Every step ends one session at most, and then a password change more has
\* gone through.
LEMMA StepEnds ==
    ASSUME HookInv, [Next]_vars
    PROVE  \/ UNCHANGED <<live, accepted>>
           \/ \E r \in Req \ accepted, s \in Session :
                 /\ accepted' = accepted \union {r}
                 /\ live' = live \ {s}
<1>1. ASSUME NEW r \in Req, PasswordAccepted(r)
      PROVE  \E q \in Req \ accepted, s \in Session :
                 /\ accepted' = accepted \union {q}
                 /\ live' = live \ {s}
  <2>1. r \notin accepted
    BY <1>1 DEF PasswordAccepted, HookInv, Answered
  <2>2. oauthHook \in Req /\ sid[oauthHook] \in Session
    BY <1>1 DEF PasswordAccepted, HookInv, Hooked, TypeOK
  <2>. QED BY <1>1, <2>1, <2>2 DEF PasswordAccepted, LogoutCore
<1>2. ASSUME NEW r \in Req, ~PasswordAccepted(r),
             \/ \E s \in Session :
                   \/ ModifyOAuthRequestResponse(r, s)
                   \/ \E k \in Kind : ModifyConsolePluginProxyResponse(r, k, s)
             \/ PasswordRejected(r)
             \/ PluginsPass(r) \/ PluginsMerged(r) \/ PluginsUnreadable(r)
      PROVE  UNCHANGED <<live, accepted>>
  BY <1>2 DEF ModifyOAuthRequestResponse, ModifyConsolePluginProxyResponse,
              Send, PasswordRejected, PluginsPass, PluginsMerged,
              PluginsUnreadable
<1>3. CASE UNCHANGED vars
  BY <1>3 DEF vars
<1>. QED BY <1>1, <1>2, <1>3 DEF Next

\* Hence the count.
LEMMA CountKept == ASSUME HookInv, Counted, [Next]_vars PROVE Counted'
<1>1. CASE UNCHANGED <<live, accepted>>
  BY <1>1 DEF Counted, EndsAreEarned, Ended
<1>2. ASSUME NEW r \in Req \ accepted, NEW s \in Session,
             accepted' = accepted \union {r}, live' = live \ {s}
      PROVE  Counted'
  <2>1. Ended' = Ended \union {s}
    BY <1>2 DEF Ended
  <2>2. /\ IsFiniteSet(Ended')
        /\ \/ Cardinality(Ended') = Cardinality(Ended)
           \/ Cardinality(Ended') = Cardinality(Ended) + 1
    BY <2>1, FS_AddElement DEF Counted
  <2>3. /\ IsFiniteSet(accepted')
        /\ Cardinality(accepted') = Cardinality(accepted) + 1
    BY <1>2, FS_AddElement DEF Counted
  <2>4. Cardinality(Ended) \in Nat /\ Cardinality(accepted) \in Nat
    BY FS_CardinalityType DEF Counted
  <2>. QED BY <2>2, <2>3, <2>4 DEF Counted, EndsAreEarned
<1>. QED BY <1>1, <1>2, StepEnds

LEMMA Invariance == Spec => [](HookInv /\ Counted)
BY AtTheBeginning, Inductive, CountKept, PTL DEF Spec

\* Type correctness.
THEOREM HookTypes == Spec => []TypeOK
<1>1. HookInv => TypeOK
  BY DEF HookInv
<1>. QED BY <1>1, Invariance, PTL

\* The closure that logs a browser out is always that of a password request
\* (proxycomponentrequest.go, modifyOAuthRequestResponse): no other traffic
\* ends a session.
THEOREM OthersEndNothing == Spec => []OnlyAskersEnd
<1>1. HookInv => OnlyAskersEnd
  BY DEF HookInv
<1>. QED BY <1>1, Invariance, PTL

\* A password change that goes through ends one session at most.
THEOREM NoMoreThanEarned == Spec => []EndsAreEarned
<1>1. Counted => EndsAreEarned
  BY DEF Counted
<1>. QED BY <1>1, Invariance, PTL

\* The answer of a cluster is given to one browser at most
\* (proxycomponentrequest.go, modifyConsolePluginProxyResponse).
THEOREM GivenOnce == Spec => []AnswerGivenOnce
<1>1. HookInv => AnswerGivenOnce
  BY DEF HookInv
<1>. QED BY <1>1, Invariance, PTL

=============================================================================
