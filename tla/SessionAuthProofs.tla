------------------------- MODULE SessionAuthProofs -------------------------
(***************************************************************************)
(* What TLAPS proves of SessionAuth, for any number of requests, sessions  *)
(* and token pairs, any set of faults and either kind of OAuth server.     *)
(*                                                                         *)
(* Inv is inductive.  Most actions end in one of a few ways (the request   *)
(* answers, forwards, or goes on with its next call, while secrets are     *)
(* only deleted): one lemma for each way, and one for each action that     *)
(* does more.                                                              *)
(***************************************************************************)
EXTENDS SessionAuth, TLAPS

-----------------------------------------------------------------------------
(* Lemmas about the building blocks.                                       *)

\* Secrets are only deleted: all that may happen to them outside StoreCreate
\* and OpenSession.
Shrink ==
    /\ secret' \in [Session -> Pair]
    /\ \A s \in Session : secret'[s] \in {NoToken, secret[s]}
    /\ aged' \subseteq Session
    /\ tip' = tip

\* Deleting a secret, or leaving them all alone, shrinks.
LEMMA RemoveShrinks ==
    ASSUME TypeOK, NEW s, RemoveSecret(s) \/ UNCHANGED store
    PROVE  Shrink
BY DEF TypeOK, RemoveSecret, store, Shrink, Pair, NoToken

\* Pairs are the naturals from 1 up, NoToken is 0.
LEMMA ConstantFacts ==
    /\ NoToken \notin Token
    /\ \A t \in Token : t \in Nat /\ t > 0
    /\ \A t \in Pair : t \in Nat /\ (t = NoToken \/ t \in Token)
BY TokenLimitAssumption DEF Token, NoToken, Pair

\* Nothing moves but secrets that go, times that pass and the clean-up job.
LEMMA Frame ==
    ASSUME Inv, Shrink,
           UNCHANGED <<oauth, handler, drawn, jar, request>>,
           dismissed' \subseteq Session,
           accessExpired' \subseteq Token, refreshExpired' \subseteq Token,
           cronTarget' \in Session \union {NoSession}
    PROVE  Inv'
<1>. USE ConstantFacts
     DEF Inv, TypeOK, oauth, handler, request, Shrink
<1>1. TypeOK'
      OBVIOUS
<1>2. Shape'
      BY DEF Shape, Storing
<1>3. Known'
      BY TokenLimitAssumption DEF Known, NoToken
<1>4. Ownership'
      BY DEF Ownership
<1>5. Locked'
      BY DEF Locked
<1>6. Current'
      BY DEF Current, Storing
<1>7. SingleStorer'
      BY DEF SingleStorer, Storing
<1>8. Opening'
      BY DEF Opening
<1>. QED  BY <1>1, <1>2, <1>3, <1>4, <1>5, <1>6, <1>7, <1>8 DEF Inv

\* A request is answered, without a pair; a lock it holds is released.
LEMMA AnswerStep ==
    ASSUME Inv, Shrink, NEW r \in Req, NEW a \in Reply \ {"none", "forward"},
           Answer(r, a), kind' \in [Req -> Kind],
           mu' = IF mu = r THEN NoReq ELSE mu,
           UNCHANGED <<oauth, expiry, cache, browser, sid, cronTarget>>
    PROVE  Inv'
<1>. USE ConstantFacts, NoReqAssumption
     DEF Inv, TypeOK, oauth, expiry, browser, Shrink, Goto, Answer
<1>1. TypeOK'
      BY DEF Label, Pair
<1>2. Shape'
      BY DEF Shape, Storing
<1>3. Known'
      BY TokenLimitAssumption DEF Known, NoToken
<1>4. Ownership'
      BY DEF Ownership
<1>5. Locked'
      BY DEF Locked
<1>6. Current'
      BY DEF Current, Storing
<1>7. SingleStorer'
      BY DEF SingleStorer, Storing
<1>8. Opening'
      BY DEF Opening
<1>. QED  BY <1>1, <1>2, <1>3, <1>4, <1>5, <1>6, <1>7, <1>8 DEF Inv

\* A request goes on with a pair that was issued for its session.
LEMMA ForwardStep ==
    ASSUME Inv, NEW r \in Req, NEW t \in Token,
           pc[r] \in {"read", "lookup"}, Forward(r, t),
           t <= issued, owner[t] = sid[r],
           UNCHANGED <<store, oauth, expiry, handler, browser, kind, sid,
                       cronTarget>>
    PROVE  Inv'
<1>. USE ConstantFacts
     DEF Inv, TypeOK, store, oauth, expiry, handler, browser, Goto, Forward
<1>1. TypeOK'
      BY DEF Label, Reply, Pair
<1>2. Shape'
      BY DEF Shape, Storing
<1>3. Known'
      BY TokenLimitAssumption DEF Known, NoToken
<1>4. Ownership'
      BY DEF Ownership
<1>5. Locked'
      BY DEF Locked
<1>6. Current'
      BY DEF Current, Storing
<1>7. SingleStorer'
      BY DEF SingleStorer, Storing
<1>8. Opening'
      BY DEF Opening
<1>. QED  BY <1>1, <1>2, <1>3, <1>4, <1>5, <1>6, <1>7, <1>8 DEF Inv

\* A request goes on with its next call, carrying what it carried.
LEMMA ProceedStep ==
    ASSUME Inv, Shrink, NEW r \in Req, NEW l \in Label, Proceed(r, l),
           \/ pc[r] \in {"read", "delList"} /\ l \in {"delList", "delete"}
           \/ /\ pc[r] \in {"update", "storeList", "storeDelete"}
              /\ l \in {"storeList", "storeDelete", "storeCreate"},
           UNCHANGED <<oauth, expiry, handler, browser, kind, sid, cronTarget>>
    PROVE  Inv'
<1>. USE ConstantFacts
     DEF Inv, TypeOK, oauth, expiry, handler, browser, Shrink, Goto, Proceed
<1>1. TypeOK'
      OBVIOUS
<1>2. Shape'
      BY DEF Shape, Storing
<1>3. Known'
      BY TokenLimitAssumption DEF Known, NoToken
<1>4. Ownership'
      BY DEF Ownership
<1>5. Locked'
      BY DEF Locked
<1>6. Current'
      BY DEF Current, Storing
<1>7. SingleStorer'
      BY DEF SingleStorer, Storing
<1>8. Opening'
      BY DEF Opening
<1>. QED  BY <1>1, <1>2, <1>3, <1>4, <1>5, <1>6, <1>7, <1>8 DEF Inv

-----------------------------------------------------------------------------
(* Requests arrive and leave.                                              *)

\* A request arrives with a cookie.
LEMMA ArriveStep ==
    ASSUME Inv, NEW r \in Req, NEW k \in Kind, NEW s \in Session,
           Arrive(r, k, s)
    PROVE  Inv'
<1>. USE ConstantFacts
     DEF Inv, Arrive, TypeOK, store, oauth, expiry, handler, browser, Goto
<1>1. TypeOK'
      BY DEF Label
<1>2. Shape'
      BY DEF Shape, Storing
<1>3. Known'
      BY TokenLimitAssumption DEF Known, NoToken
<1>4. Ownership'
      BY DEF Ownership, Shape, Storing
<1>5. Locked'
      BY DEF Locked
<1>6. Current'
      BY DEF Current, Storing
<1>7. SingleStorer'
      BY DEF SingleStorer, Storing
<1>8. Opening'
      BY DEF Opening
<1>. QED  BY <1>1, <1>2, <1>3, <1>4, <1>5, <1>6, <1>7, <1>8 DEF Inv

\* The browser comes back from the OAuth server.
LEMMA ArriveCallbackStep ==
    ASSUME Inv, NEW r \in Req, ArriveCallback(r)
    PROVE  Inv'
<1>. USE ConstantFacts
     DEF Inv, ArriveCallback, TypeOK, store, oauth, expiry, handler, browser,
         Goto
<1>1. TypeOK'
      BY DEF Label, Kind
<1>2. Shape'
      BY DEF Shape, Storing
<1>3. Known'
      BY TokenLimitAssumption DEF Known, NoToken
<1>4. Ownership'
      BY DEF Ownership
<1>5. Locked'
      BY DEF Locked
<1>6. Current'
      BY DEF Current, Storing
<1>7. SingleStorer'
      BY DEF SingleStorer, Storing
<1>8. Opening'
      BY DEF Opening
<1>. QED  BY <1>1, <1>2, <1>3, <1>4, <1>5, <1>6, <1>7, <1>8 DEF Inv

\* The browser receives an answer.
LEMMA ReceiveStep ==
    ASSUME Inv, NEW r \in Req, Receive(r)
    PROVE  Inv'
<1>. USE ConstantFacts
     DEF Inv, Receive, TypeOK, NoToken, store, oauth, expiry, handler,
         browser, Goto
<1>1. TypeOK'
      BY DEF Label, Kind, Reply, Pair
<1>2. Shape'
      BY DEF Shape, Storing
<1>3. Known'
      BY TokenLimitAssumption DEF Known
<1>4. Ownership'
      BY DEF Ownership
<1>5. Locked'
      BY DEF Locked
<1>6. Current'
      BY DEF Current, Storing
<1>7. SingleStorer'
      BY DEF SingleStorer, Storing
<1>8. Opening'
      BY DEF Opening
<1>. QED  BY <1>1, <1>2, <1>3, <1>4, <1>5, <1>6, <1>7, <1>8 DEF Inv

-----------------------------------------------------------------------------
(* Rotation.                                                               *)

\* A request has read a pair whose access token has expired.
LEMMA ReadExpiredStep ==
    ASSUME Inv, NEW r \in Req,
           pc[r] = "read", secret[sid[r]] \in Token,
           Goto(r, "lookup"), tok' = [tok EXCEPT ![r] = secret[sid[r]]],
           UNCHANGED <<store, oauth, expiry, handler, browser, kind, sid, new,
                       reply, cronTarget>>
    PROVE  Inv'
<1>. USE ConstantFacts
     DEF Inv, TypeOK, store, oauth, expiry, handler, browser, Goto
<1>1. TypeOK'
      BY DEF Label, Pair
<1>2. Shape'
      BY DEF Shape, Storing
<1>3. Known'
      BY TokenLimitAssumption DEF Known, NoToken, Shape, Storing
<1>4. Ownership'
      BY DEF Ownership, Shape, Storing
<1>5. Locked'
      BY DEF Locked
<1>6. Current'
      BY DEF Current, Storing, Shape
<1>7. SingleStorer'
      BY DEF SingleStorer, Storing
<1>8. Opening'
      BY DEF Opening
<1>. QED  BY <1>1, <1>2, <1>3, <1>4, <1>5, <1>6, <1>7, <1>8 DEF Inv

\* A request takes the lock, for a pair the cache does not know.
LEMMA LockStep ==
    ASSUME Inv, NEW r \in Req,
           pc[r] = "lookup", mu = NoReq, cache[tok[r]] = NoToken,
           mu' = r, Proceed(r, "exchange"),
           UNCHANGED <<store, oauth, expiry, cache, browser, kind, sid,
                       cronTarget>>
    PROVE  Inv'
<1>. USE ConstantFacts, NoReqAssumption
     DEF Inv, TypeOK, Proceed, store, oauth, expiry, handler, browser, Goto
<1>1. TypeOK'
      BY DEF Label
<1>2. Shape'
      BY DEF Shape, Storing
<1>3. Known'
      BY TokenLimitAssumption DEF Known, NoToken
<1>4. Ownership'
      BY DEF Ownership
<1>5. Locked'
      BY DEF Locked
<1>6. Current'
      BY DEF Current, Storing
<1>7. SingleStorer'
      BY DEF SingleStorer, Storing
<1>8. Opening'
      BY DEF Opening
<1>. QED  BY <1>1, <1>2, <1>3, <1>4, <1>5, <1>6, <1>7, <1>8 DEF Inv

\* A new pair arrives for a request that holds the lock.
LEMMA ExchangeOkStep ==
    ASSUME Inv, NEW r \in Req, ExchangeOk(r)
    PROVE  Inv'
<1>. USE ConstantFacts, NoReqAssumption
     DEF Inv, ExchangeOk, TypeOK, Issue, store, oauth, expiry, handler,
         browser, Goto
<1>. /\ issued \in Nat /\ issued + 1 \in Token /\ issued + 1 # NoToken
     /\ issued + 1 \in 0..TokenLimit
     /\ \A t \in Token : t <= issued => t # issued + 1
     BY TokenLimitAssumption DEF TypeOK, Token, NoToken, Issue, RedeemCode,
                                 ExchangeOk, ExchangeLost
<1>1. TypeOK'
      BY DEF Label, Pair, Shape, Storing
<1>2. Shape'
      BY DEF Shape, Storing
<1>3. Known'
      BY TokenLimitAssumption DEF Known, NoToken
<1>4. Ownership'
      BY DEF Ownership, Known, Shape, Storing
<1>5. Locked'
      BY DEF Locked
<1>6. Current'
      BY DEF Current, Storing, Known, Locked, Shape
<1>7. SingleStorer'
      BY DEF SingleStorer, Storing, Current, Locked, Shape
<1>8. Opening'
      BY DEF Opening
<1>. QED  BY <1>1, <1>2, <1>3, <1>4, <1>5, <1>6, <1>7, <1>8 DEF Inv

\* A pair is issued, but never arrives.
LEMMA ExchangeLostStep ==
    ASSUME Inv, NEW r \in Req, ExchangeLost(r)
    PROVE  Inv'
<1>. USE ConstantFacts, NoReqAssumption
     DEF Inv, ExchangeLost, TypeOK, Issue, Answer, store, oauth, expiry,
         handler, browser, Goto
<1>. /\ issued \in Nat /\ issued + 1 \in Token /\ issued + 1 # NoToken
     /\ issued + 1 \in 0..TokenLimit
     /\ \A t \in Token : t <= issued => t # issued + 1
     BY TokenLimitAssumption DEF TypeOK, Token, NoToken, Issue, RedeemCode,
                                 ExchangeOk, ExchangeLost
<1>1. TypeOK'
      BY DEF Label, Pair, Reply, Shape, Storing
<1>2. Shape'
      BY DEF Shape, Storing
<1>3. Known'
      BY TokenLimitAssumption DEF Known, NoToken
<1>4. Ownership'
      BY DEF Ownership, Known, Shape, Storing
<1>5. Locked'
      BY DEF Locked
<1>6. Current'
      BY DEF Current, Storing
<1>7. SingleStorer'
      BY DEF SingleStorer, Storing
<1>8. Opening'
      BY DEF Opening
<1>. QED  BY <1>1, <1>2, <1>3, <1>4, <1>5, <1>6, <1>7, <1>8 DEF Inv

\* A request creates the secret again, with the pair it received.
LEMMA StoreCreateStep ==
    ASSUME Inv, NEW r \in Req,
           pc[r] = "storeCreate", CreateSecret(sid[r], new[r]),
           Forward(r, new[r]) \/ Answer(r, "empty"),
           UNCHANGED <<oauth, expiry, handler, browser, kind, sid, cronTarget>>
    PROVE  Inv'
<1>. USE ConstantFacts
     DEF Inv, TypeOK, Answer, Forward, CreateSecret, store, oauth, expiry,
         handler, browser, Goto
<1>1. TypeOK'
      BY DEF Label, Pair, Reply, Shape, Storing
<1>2. Shape'
      BY DEF Shape, Storing
<1>3. Known'
      BY TokenLimitAssumption DEF Known, NoToken
<1>4. Ownership'
      BY DEF Ownership
<1>5. Locked'
      BY DEF Locked
<1>6. Current'
      BY DEF Current, Storing, SingleStorer, Shape
<1>7. SingleStorer'
      BY DEF SingleStorer, Storing
<1>8. Opening'
      BY DEF Opening, Current, Shape, Storing
<1>. QED  BY <1>1, <1>2, <1>3, <1>4, <1>5, <1>6, <1>7, <1>8 DEF Inv

-----------------------------------------------------------------------------
(* Login and crash.                                                        *)

\* A login draws a new session ID and receives its first pair.
LEMMA RedeemCodeStep ==
    ASSUME Inv, NEW r \in Req, RedeemCode(r)
    PROVE  Inv'
<1>. USE ConstantFacts
     DEF Inv, RedeemCode, TypeOK, Issue, store, oauth, expiry, handler,
         browser, Goto
<1>. /\ issued \in Nat /\ issued + 1 \in Token /\ issued + 1 # NoToken
     /\ issued + 1 \in 0..TokenLimit
     /\ \A t \in Token : t <= issued => t # issued + 1
     BY TokenLimitAssumption DEF TypeOK, Token, NoToken, Issue, RedeemCode,
                                 ExchangeOk, ExchangeLost
<1>1. TypeOK'
      BY DEF Label, Pair
<1>2. Shape'
      BY DEF Shape, Storing
<1>3. Known'
      BY TokenLimitAssumption DEF Known, NoToken
<1>4. Ownership'
      BY DEF Ownership, Known, Shape, Storing
<1>5. Locked'
      BY DEF Locked
<1>6. Current'
      BY DEF Current, Storing
<1>7. SingleStorer'
      BY DEF SingleStorer, Storing
<1>8. Opening'
      BY DEF Opening
<1>. QED  BY <1>1, <1>2, <1>3, <1>4, <1>5, <1>6, <1>7, <1>8 DEF Inv

\* A login creates the secret of its session.
LEMMA OpenStep ==
    ASSUME Inv, NEW r \in Req, NEW a \in {"opened", "error"},
           pc[r] = "open", CreateSecret(sid[r], new[r]), Answer(r, a),
           UNCHANGED <<oauth, expiry, handler, browser, kind, sid, cronTarget>>
    PROVE  Inv'
<1>. USE ConstantFacts
     DEF Inv, TypeOK, Answer, CreateSecret, store, oauth, expiry, handler,
         browser, Goto
<1>1. TypeOK'
      BY DEF Label, Pair, Reply, Shape, Storing
<1>2. Shape'
      BY DEF Shape, Storing
<1>3. Known'
      BY TokenLimitAssumption DEF Known, NoToken
<1>4. Ownership'
      BY DEF Ownership
<1>5. Locked'
      BY DEF Locked
<1>6. Current'
      BY DEF Current, Storing, Opening, Shape
<1>7. SingleStorer'
      BY DEF SingleStorer, Storing
<1>8. Opening'
      BY DEF Opening
<1>. QED  BY <1>1, <1>2, <1>3, <1>4, <1>5, <1>6, <1>7, <1>8 DEF Inv

\* The service restarts with the answers that are on their way.
LEMMA CrashStep ==
    ASSUME Inv, Crash
    PROVE  Inv'
<1>. USE ConstantFacts, NoReqAssumption
     DEF Inv, Crash, TypeOK, NoToken, store, oauth, expiry, handler, browser,
         Goto
<1>1. TypeOK'
      BY DEF Label, Kind, Reply, Pair
<1>2. Shape'
      BY DEF Shape, Storing
<1>3. Known'
      BY TokenLimitAssumption DEF Known
<1>4. Ownership'
      BY DEF Ownership
<1>5. Locked'
      BY DEF Locked
<1>6. Current'
      BY DEF Current, Storing
<1>7. SingleStorer'
      BY DEF SingleStorer, Storing
<1>8. Opening'
      BY DEF Opening
<1>. QED  BY <1>1, <1>2, <1>3, <1>4, <1>5, <1>6, <1>7, <1>8 DEF Inv

-----------------------------------------------------------------------------
(* The invariant is inductive.                                             *)

\* The invariant holds when the service starts.
LEMMA InitInv == Init => Inv
<1>. SUFFICES ASSUME Init PROVE Inv
     OBVIOUS
<1>. USE TokenLimitAssumption, NoReqAssumption DEF Init, NoToken
<1>1. TypeOK
      BY DEF TypeOK, Pair, Label, Kind, Reply
<1>2. Shape
      BY DEF Shape, Storing
<1>3. Known
      BY DEF Known
<1>4. Ownership
      BY DEF Ownership
<1>5. Locked
      BY DEF Locked
<1>6. Current
      BY DEF Current, Storing
<1>7. SingleStorer
      BY DEF SingleStorer, Storing
<1>8. Opening
      BY DEF Opening
<1>. QED  BY <1>1, <1>2, <1>3, <1>4, <1>5, <1>6, <1>7, <1>8 DEF Inv

\* The session a request is working for, while it is on its way.
LEMMA SidInSession ==
    ASSUME Inv, NEW r \in Req, pc[r] \notin {"idle", "callback", "answered"}
    PROVE  sid[r] \in Session
BY DEF Inv, Shape

\* At the lock a request forwards the successor of its pair, or takes the lock.
LEMMA LookupInv ==
    ASSUME Inv, NEW r \in Req, Lookup(r)
    PROVE  Inv'
<1>. tok[r] \in Token
     BY DEF Inv, Shape, Lookup
<1>1. CASE cache[tok[r]] # NoToken
  <2>. DEFINE t == cache[tok[r]]
  <2>1. t \in Token /\ t <= issued
        BY <1>1 DEF Inv, TypeOK, Known, Pair
  <2>2. owner[t] = sid[r]
        BY <1>1, ConstantFacts DEF Inv, Ownership
  <2>. QED  BY <1>1, <2>1, <2>2, ForwardStep DEF Lookup, handler
<1>2. CASE cache[tok[r]] = NoToken
      BY <1>2, LockStep DEF Lookup
<1>. QED  BY <1>1, <1>2

\* A request that reads its session is refused, forwarded, or goes on.
LEMMA ReadSessionInv ==
    ASSUME Inv, NEW r \in Req, ReadSession(r)
    PROVE  Inv'
<1>. DEFINE t == secret[sid[r]]
<1>0. sid[r] \in Session /\ t \in Pair /\ kind' = kind /\ mu' = mu /\ mu # r
      BY SidInSession DEF Inv, TypeOK, Locked, ReadSession, handler
<1>1. Shrink
      BY RemoveShrinks DEF ReadSession, Inv
<1>. USE DEF ReadSession, handler
<1>2. CASE t = NoToken /\ Answer(r, "denied")
      BY <1>0, <1>1, <1>2, AnswerStep DEF Inv, TypeOK, Reply
<1>3. CASE Proceed(r, "delList")
      BY <1>0, <1>1, <1>3, ProceedStep DEF Label
<1>4. CASE /\ t \in accessExpired \ refreshExpired
           /\ Goto(r, "lookup")
           /\ tok' = [tok EXCEPT ![r] = t]
           /\ UNCHANGED <<new, reply>>
      BY <1>0, <1>4, ReadExpiredStep DEF Inv, TypeOK
<1>5. CASE t \in Token /\ Forward(r, t)
  <2>1. t <= issued /\ owner[t] = sid[r]
        BY <1>0, <1>5, ConstantFacts DEF Inv, Known, Ownership
  <2>. QED  BY <1>5, <2>1, ForwardStep
<1>6. CASE Answer(r, "valid")
      BY <1>0, <1>1, <1>6, AnswerStep DEF Inv, TypeOK, Reply
<1>. QED  BY <1>2, <1>3, <1>4, <1>5, <1>6

\* A request without a cookie is answered at once.
LEMMA ArriveAnonymousInv ==
    ASSUME Inv, NEW r \in Req, NEW k \in Kind, ArriveAnonymous(r, k)
    PROVE  Inv'
<1>1. Shrink /\ mu # r /\ kind' \in [Req -> Kind]
      BY RemoveShrinks DEF ArriveAnonymous, Inv, Locked, TypeOK
<1>. QED  BY <1>1, AnswerStep DEF ArriveAnonymous, Refusal, Reply, handler

\* A request that cannot prepare its call is answered.
LEMMA PrepareFailsInv ==
    ASSUME Inv, NEW r \in Req, PrepareFails(r)
    PROVE  Inv'
<1>1. Shrink /\ mu # r /\ kind' \in [Req -> Kind]
      BY RemoveShrinks DEF PrepareFails, Inv, Locked, TypeOK
<1>. QED  BY <1>1, AnswerStep DEF PrepareFails, Reply, handler

\* Every step of a handler keeps the invariant.
LEMMA ServeInv ==
    ASSUME Inv, NEW r \in Req, Serve(r)
    PROVE  Inv'
<1>0. /\ RemoveSecret(sid[r]) \/ UNCHANGED store => Shrink
      /\ kind' = kind => kind' \in [Req -> Kind]
      /\ pc[r] # "exchange" => mu # r
      /\ pc[r] = "exchange" => mu = r
      BY RemoveShrinks DEF Inv, TypeOK, Locked
<1>. USE DEF handler, Refusal
<1>1. CASE ReadFails(r)
      BY <1>0, <1>1, AnswerStep DEF ReadFails, Reply
<1>2. CASE DelList(r)
      BY <1>0, <1>2, AnswerStep, ProceedStep DEF DelList, Reply, Label
<1>3. CASE DeleteSecret(r)
      BY <1>0, <1>3, AnswerStep DEF DeleteSecret, Reply
<1>4. CASE ExchangeRefused(r)
      BY <1>0, <1>4, AnswerStep DEF ExchangeRefused, Reply
<1>5. CASE UpdateSession(r)
      BY <1>0, <1>5, AnswerStep, ProceedStep DEF UpdateSession, Reply, Label
<1>6. CASE StoreList(r)
      BY <1>0, <1>6, AnswerStep, ProceedStep DEF StoreList, Reply, Label
<1>7. CASE StoreDelete(r)
      BY <1>0, <1>7, AnswerStep, ProceedStep DEF StoreDelete, Reply, Label
<1>8. CASE StoreCreate(r)
      BY <1>0, <1>8, AnswerStep, StoreCreateStep DEF StoreCreate, Reply
<1>9. CASE RedeemCodeFails(r)
      BY <1>0, <1>9, AnswerStep DEF RedeemCodeFails, Reply
<1>10. CASE OpenSession(r)
       BY <1>0, <1>10, AnswerStep, OpenStep DEF OpenSession, Reply
<1>. QED  BY <1>1, <1>2, <1>3, <1>4, <1>5, <1>6, <1>7, <1>8, <1>9, <1>10,
             ReadSessionInv, ExchangeOkStep, ExchangeLostStep, RedeemCodeStep
          DEF Serve

\* Time, the clean-up job and a crash keep the invariant.
LEMMA EnvironmentInv ==
    ASSUME Inv, Environment
    PROVE  Inv'
<1>1. CASE \E t \in Token : ExpireAccess(t) \/ ExpireRefresh(t)
  <2>1. /\ Shrink
        /\ accessExpired' \subseteq Token /\ refreshExpired' \subseteq Token
        BY <1>1, RemoveShrinks DEF ExpireAccess, ExpireRefresh, Inv, TypeOK
  <2>. QED  BY <1>1, <2>1, Frame
       DEF ExpireAccess, ExpireRefresh, browser, Inv, TypeOK
<1>2. CASE \E s \in Session : Age(s) \/ CronPick(s)
  <2>1. Shrink
        BY <1>2 DEF Age, CronPick, Shrink, store, Inv, TypeOK
  <2>. QED  BY <1>2, <2>1, Frame
       DEF Age, CronPick, expiry, browser, Inv, TypeOK
<1>3. CASE CronDelete
  <2>1. Shrink
        BY <1>3, RemoveShrinks DEF CronDelete, Inv
  <2>. QED  BY <1>3, <2>1, Frame DEF CronDelete, expiry, browser, Inv, TypeOK
<1>. QED  BY <1>1, <1>2, <1>3, CrashStep DEF Environment

\* The invariant is inductive.
LEMMA NextInv == Inv /\ [Next]_vars => Inv'
<1>. SUFFICES ASSUME Inv, [Next]_vars PROVE Inv'
     OBVIOUS
<1>1. CASE Next
      BY <1>1, ArriveStep, ArriveAnonymousInv, ArriveCallbackStep, ServeInv,
         LookupInv, PrepareFailsInv, ReceiveStep, EnvironmentInv
      DEF Next
<1>2. CASE UNCHANGED vars
      BY <1>2, RemoveShrinks, Frame DEF vars, expiry, browser, Inv, TypeOK
<1>. QED  BY <1>1, <1>2

\* The inductive invariant of the session life cycle holds in every execution,
\* with every fault: pairs are only kept and used for the session they were
\* issued for, a secret holds the newest pair of its session, the exchange is
\* done under the lock for a pair that is not cached, a request that stores a
\* pair replaces the newest one, and no two requests open the same session.
THEOREM SpecInv == Spec => []Inv
BY InitInv, NextInv, PTL DEF Spec

-----------------------------------------------------------------------------
(* What follows for every execution.                                       *)

\* The state is well typed.  TypeOK alone is not inductive: that a request at
\* the lock carries a pair is part of Shape.
THEOREM TypeCorrect == Spec => []TypeOK
<1>1. Inv => TypeOK
      BY DEF Inv
<1>. QED  BY <1>1, SpecInv, PTL

\* No interleaving makes a session, the cache or a request use a pair of
\* tokens that was issued for another session.
THEOREM TokensStayInSession == Spec => []OwnTokens
<1>1. Inv => OwnTokens
      BY ConstantFacts DEF Inv, OwnTokens, Ownership, Shape
<1>. QED  BY <1>1, SpecInv, PTL

\* At most one request at a time replaces the secret of a session, with every
\* fault and even if the OAuth server redeems a refresh token twice.
THEOREM OneStorer == Spec => []SingleStorer
<1>1. Inv => SingleStorer
      BY DEF Inv
<1>. QED  BY <1>1, SpecInv, PTL

-----------------------------------------------------------------------------
(* While the service does not crash and the answers of the OAuth server    *)
(* arrive, the cache knows what became of every redeemed pair.             *)

RedeemedCached == \A t \in redeemed : cache[t] # NoToken

\* A pair is redeemed in the step that puts its successor in the cache.
LEMMA RedeemedCachedStep ==
    ASSUME Inv, RedeemedCached, [Next]_vars,
           "crash" \notin Faults, "oauth" \notin Faults
    PROVE  RedeemedCached'
<1>. USE DEF RedeemedCached, oauth, handler
<1>1. ASSUME NEW r \in Req, ExchangeOk(r) PROVE RedeemedCached'
  <2>1. tok[r] \in Token /\ issued + 1 # NoToken
        BY <1>1, TokenLimitAssumption
        DEF ExchangeOk, Inv, Shape, TypeOK, NoToken
  <2>. QED  BY <1>1, <2>1 DEF ExchangeOk, Inv, TypeOK
<1>2. ASSUME NEW r \in Req, Serve(r), ~ExchangeOk(r) PROVE RedeemedCached'
  <2>1. redeemed' = redeemed /\ cache' = cache
        BY <1>2 DEF Serve, ReadSession, ReadFails, DelList, DeleteSecret,
           ExchangeLost, ExchangeRefused, UpdateSession, StoreList,
           StoreDelete, StoreCreate, RedeemCode, RedeemCodeFails, OpenSession
  <2>. QED  BY <2>1
<1>3. ASSUME NEW r \in Req, Lookup(r) \/ PrepareFails(r) \/ Receive(r)
      PROVE  RedeemedCached'
      BY <1>3 DEF Lookup, PrepareFails, Receive
<1>4. ASSUME NEW r \in Req,
             \/ \E k \in Kind, s \in Session : Arrive(r, k, s)
             \/ \E k \in Kind : ArriveAnonymous(r, k)
             \/ ArriveCallback(r)
      PROVE  RedeemedCached'
      BY <1>4 DEF Arrive, ArriveAnonymous, ArriveCallback
<1>5. ASSUME Environment PROVE RedeemedCached'
      BY <1>5 DEF Environment, ExpireAccess, ExpireRefresh, Age, CronPick,
                  CronDelete, Crash
<1>6. CASE UNCHANGED vars
      BY <1>6 DEF vars
<1>. QED  BY <1>1, <1>2, <1>3, <1>4, <1>5, <1>6 DEF Next

LEMMA RedeemedKnown ==
    ASSUME "crash" \notin Faults, "oauth" \notin Faults
    PROVE  Spec => [](Inv /\ RedeemedCached)
<1>1. Init => RedeemedCached
      BY DEF Init, RedeemedCached
<1>2. Inv /\ RedeemedCached /\ [Next]_vars => RedeemedCached'
      BY RedeemedCachedStep
<1>. QED  BY <1>1, <1>2, SpecInv, PTL DEF Spec

\* The lock and the cache together: the refresh token of a request at the
\* OAuth server was never redeemed, however rotations of a session overlap.
THEOREM ExchangedOnce ==
    ASSUME "crash" \notin Faults, "oauth" \notin Faults
    PROVE  Spec => []NoDoubleExchange
<1>1. Inv /\ RedeemedCached => NoDoubleExchange
      BY DEF Inv, Locked, RedeemedCached, NoDoubleExchange
<1>. QED  BY <1>1, RedeemedKnown, PTL

\* A session is never stored with a pair that nobody can rotate: between the
\* redemption of its refresh token and the storing of the successor, or when
\* the storing fails, the cache has the successor.
THEOREM CanGoOn ==
    ASSUME "crash" \notin Faults, "oauth" \notin Faults
    PROVE  Spec => []NeverStranded
<1>1. RedeemedCached => NeverStranded
      BY DEF RedeemedCached, NeverStranded
<1>. QED  BY <1>1, RedeemedKnown, PTL

-----------------------------------------------------------------------------
(* While no call of the Kubernetes API fails and the service does not      *)
(* crash, a session ends only for a reason.                                *)

\* Reasons are not taken back: what was dismissed stays dismissed, what has
\* expired stays expired, and an issued pair keeps its session.
LEMMA ReasonsStay ==
    ASSUME Inv, Accounted, [Next]_vars
    PROVE  /\ dismissed \subseteq dismissed'
           /\ refreshExpired \subseteq refreshExpired'
           /\ \A t \in accessExpired : owner'[t] = owner[t]
           /\ \A t \in refreshExpired' : t \in accessExpired'
           /\ \A t \in accessExpired' : t <= issued'
<1>0. issued \in Nat /\ \A t \in Token : t \in Nat
      BY TokenLimitAssumption DEF Inv, TypeOK, Token
<1>. USE <1>0 DEF Accounted, oauth, expiry, browser
<1>1. ASSUME NEW r \in Req, Serve(r)
      PROVE  /\ UNCHANGED <<dismissed, expiry>>
             /\ \/ UNCHANGED <<issued, owner>>
                \/ \E s : Issue(s)
      BY <1>1
      DEF Serve, ReadSession, ReadFails, DelList, DeleteSecret, ExchangeOk,
          ExchangeLost, ExchangeRefused, UpdateSession, StoreList,
          StoreDelete, StoreCreate, RedeemCode, RedeemCodeFails, OpenSession
<1>2. ASSUME NEW r \in Req, Serve(r)
      PROVE  \A t \in accessExpired : owner'[t] = owner[t] /\ t <= issued'
      BY <1>1, <1>2 DEF Issue, Inv, TypeOK
<1>3. ASSUME NEW r \in Req,
             \/ \E k \in Kind, s \in Session : Arrive(r, k, s)
             \/ \E k \in Kind : ArriveAnonymous(r, k)
             \/ ArriveCallback(r)
             \/ Lookup(r) \/ PrepareFails(r) \/ Receive(r)
      PROVE  UNCHANGED <<oauth, expiry>> /\ dismissed \subseteq dismissed'
      BY <1>3 DEF Arrive, ArriveAnonymous, ArriveCallback, Lookup,
                  PrepareFails, Receive
<1>4. ASSUME Environment
      PROVE  /\ UNCHANGED oauth
             /\ dismissed \subseteq dismissed'
             /\ refreshExpired \subseteq refreshExpired'
             /\ \A t \in refreshExpired' : t \in accessExpired'
             /\ \A t \in accessExpired' : t <= issued'
      BY <1>4 DEF Environment, ExpireAccess, ExpireRefresh, Age, CronPick,
                  CronDelete, Crash
<1>5. CASE UNCHANGED vars
      BY <1>5 DEF vars
<1>. QED  BY <1>1, <1>2, <1>3, <1>4, <1>5 DEF Next

\* A session that is excused stays so.
LEMMA ExcusedStays ==
    ASSUME Inv, Accounted, [Next]_vars, NEW s, Excused(s)
    PROVE  Excused(s)'
BY ReasonsStay DEF Excused, Accounted

\* A request comes to DeleteSession with a reason, and keeps its session.
LEMMA DeletersExcused ==
    ASSUME Inv, Accounted, [Next]_vars, "crash" \notin Faults, NEW r2 \in Req,
           pc'[r2] \in {"delList", "delete"}
    PROVE  Excused(sid[r2])'
<1>. USE DEF Goto, Answer, Forward, Proceed, Inv, TypeOK, browser
<1>1. ASSUME NEW r \in Req, ReadSession(r)
      PROVE  sid' = sid /\ Excused(sid[r2])
      BY <1>1, SidInSession, ConstantFacts
      DEF ReadSession, Accounted, Excused, Ownership
<1>2. ASSUME NEW r \in Req, Serve(r), ~ReadSession(r)
      PROVE  /\ pc[r2] \in {"delList", "delete"}
             /\ sid'[r2] = sid[r2]
      BY <1>2
      DEF Serve, ReadFails, DelList, DeleteSecret, ExchangeOk, ExchangeLost,
          ExchangeRefused, UpdateSession, StoreList, StoreDelete, StoreCreate,
          RedeemCode, RedeemCodeFails, OpenSession
<1>3. ASSUME NEW r \in Req, NEW k \in Kind, NEW s \in Session, Arrive(r, k, s)
      PROVE  \/ pc[r2] \in {"delList", "delete"} /\ sid'[r2] = sid[r2]
             \/ sid'[r2] \in dismissed'
      BY <1>3 DEF Arrive
<1>4. ASSUME NEW r \in Req,
             \/ \E k \in Kind : ArriveAnonymous(r, k)
             \/ ArriveCallback(r)
             \/ Lookup(r) \/ PrepareFails(r) \/ Receive(r)
      PROVE  pc[r2] \in {"delList", "delete"} /\ sid'[r2] = sid[r2]
      BY <1>4 DEF ArriveAnonymous, ArriveCallback, Lookup, PrepareFails, Receive
<1>5. ASSUME Environment \/ UNCHANGED vars
      PROVE  pc'[r2] = pc[r2] /\ sid'[r2] = sid[r2]
      BY <1>5 DEF vars, request, Environment, ExpireAccess, ExpireRefresh, Age,
                  CronPick, CronDelete, Crash
<1>6. \/ pc[r2] \in {"delList", "delete"} /\ sid'[r2] = sid[r2]
      \/ sid'[r2] \in dismissed'
      \/ sid'[r2] = sid[r2] /\ Excused(sid[r2])
      BY <1>1, <1>2, <1>3, <1>4, <1>5 DEF Next
<1>7. PICK s : s = sid'[r2] /\ (Excused(s) \/ s \in dismissed')
      BY <1>6 DEF Accounted
<1>8. s \in dismissed' \/ \E t \in refreshExpired' : owner'[t] = s
      BY <1>7, ExcusedStays DEF Excused
<1>. QED  BY <1>7, <1>8 DEF Excused

\* A session that a step takes to its end had been excused: only DeleteSession
\* and the clean-up job end one, as an update that has deleted the secret is
\* not kept from creating it again.
LEMMA OnlyExcusedEnd ==
    ASSUME Inv, Accounted, [Next]_vars,
           "api" \notin Faults, "crash" \notin Faults,
           NEW s \in Session, ~Excused(s), tip'[s] # NoToken, s \notin Live'
    PROVE  tip[s] # NoToken /\ s \notin Live
<1>. DEFINE Kept == /\ tip'[s] = tip[s] /\ secret'[s] = secret[s]
                   /\ \A r \in Req : pc[r] = "storeCreate"
                         => pc'[r] = "storeCreate" /\ sid'[r] = sid[r]
<1>. USE DEF Goto, Answer, Forward, Proceed, Inv, TypeOK, store
<1>0. Kept => tip[s] # NoToken /\ s \notin Live
      BY DEF Live
<1>1. ASSUME NEW r \in Req, DeleteSecret(r) PROVE Kept
      BY <1>1 DEF DeleteSecret, RemoveSecret, Accounted
<1>2. ASSUME CronDelete PROVE Kept
      BY <1>2 DEF CronDelete, RemoveSecret, request, Accounted, Excused
<1>3. ASSUME NEW r \in Req, StoreDelete(r)
      PROVE  tip[s] # NoToken /\ s \notin Live
  <2>1. tip' = tip /\ sid' = sid
        BY <1>3 DEF StoreDelete, RemoveSecret
  <2>2. s = sid[r] => pc'[r] = "storeCreate" \/ secret[s] = NoToken
        BY <1>3 DEF StoreDelete
  <2>3. s # sid[r] => secret'[s] = secret[s]
        BY <1>3 DEF StoreDelete, RemoveSecret
  <2>4. \A r2 \in Req : pc[r2] = "storeCreate" => pc'[r2] = "storeCreate"
        BY <1>3 DEF StoreDelete
  <2>. QED  BY <2>1, <2>2, <2>3, <2>4 DEF Live
<1>4. ASSUME NEW r \in Req, StoreCreate(r)
      PROVE  tip[s] # NoToken /\ s \notin Live
  <2>1. sid' = sid /\ new[r] # NoToken /\ sid[r] \in Session
        BY <1>4, ConstantFacts, SidInSession DEF StoreCreate, Shape, Storing
  <2>2. secret'[sid[r]] # NoToken
        BY <1>4, <2>1 DEF StoreCreate, CreateSecret
  <2>3. s # sid[r]
        BY <2>2 DEF Live
  <2>4. secret'[s] = secret[s] /\ tip'[s] = tip[s]
        BY <1>4, <2>3 DEF StoreCreate, CreateSecret
  <2>5. \A r2 \in Req : pc[r2] = "storeCreate" /\ r2 # r
           => pc'[r2] = "storeCreate"
        BY <1>4 DEF StoreCreate
  <2>. QED  BY <2>1, <2>3, <2>4, <2>5 DEF Live
<1>5. ASSUME NEW r \in Req, OpenSession(r) PROVE Kept
  <2>1. new[r] # NoToken /\ sid[r] \in Session
        BY <1>5, ConstantFacts, SidInSession DEF OpenSession, Shape
  <2>2. secret'[sid[r]] # NoToken
        BY <1>5, <2>1 DEF OpenSession, CreateSecret
  <2>. QED  BY <1>5, <2>1, <2>2 DEF OpenSession, CreateSecret, Live
<1>6. ASSUME NEW r \in Req, Serve(r), ~DeleteSecret(r), ~StoreDelete(r),
             ~StoreCreate(r), ~OpenSession(r)
      PROVE  Kept
      BY <1>6 DEF Serve, ReadSession, ReadFails, DelList, ExchangeOk,
                  ExchangeLost, ExchangeRefused, UpdateSession, StoreList,
                  RedeemCode, RedeemCodeFails
<1>7. ASSUME NEW r \in Req,
             \/ \E k \in Kind, x \in Session : Arrive(r, k, x)
             \/ \E k \in Kind : ArriveAnonymous(r, k)
             \/ ArriveCallback(r)
             \/ Lookup(r) \/ PrepareFails(r) \/ Receive(r)
      PROVE  Kept
      BY <1>7 DEF Arrive, ArriveAnonymous, ArriveCallback, Lookup,
                  PrepareFails, Receive
<1>8. ASSUME Environment, ~CronDelete PROVE Kept
      BY <1>8 DEF Environment, ExpireAccess, ExpireRefresh, Age, CronPick,
                  Crash, request
<1>9. CASE UNCHANGED vars
      BY <1>9, <1>0 DEF vars, request
<1>10. CASE Next
  <2>1. ASSUME NEW r \in Req, Serve(r)
        PROVE  tip[s] # NoToken /\ s \notin Live
        BY <2>1, <1>0, <1>1, <1>3, <1>4, <1>5, <1>6
  <2>2. ASSUME Environment PROVE tip[s] # NoToken /\ s \notin Live
        BY <2>2, <1>0, <1>2, <1>8
  <2>. QED  BY <1>0, <1>7, <1>10, <2>1, <2>2 DEF Next
<1>. QED  BY <1>9, <1>10

\* The clean-up job goes after what it found old.
LEMMA TargetDismissed ==
    ASSUME Inv, Accounted, [Next]_vars, cronTarget' # NoSession
    PROVE  cronTarget' \in dismissed'
<1>. cronTarget' = cronTarget \/ cronTarget' \in dismissed'
     BY DEF Next, vars, request, Serve, Environment, Arrive, ArriveAnonymous,
        ArriveCallback, Lookup, PrepareFails, Receive, ReadSession, ReadFails,
        DelList, DeleteSecret, ExchangeOk, ExchangeLost, ExchangeRefused,
        UpdateSession, StoreList, StoreDelete, StoreCreate, RedeemCode,
        RedeemCodeFails, OpenSession, ExpireAccess, ExpireRefresh, Age,
        CronPick, CronDelete, Crash
<1>. QED  BY ReasonsStay DEF Accounted

\* Every session that was stored and lives no more was logged out, found old
\* or expired: concurrent rotations, reads, logouts and clean-ups lose none.
THEOREM NothingLost ==
    ASSUME "api" \notin Faults, "crash" \notin Faults
    PROVE  Spec => []NoSessionLost
<1>1. Init => Accounted
      BY DEF Init, Accounted, NoSessionLost
<1>2. Inv /\ Accounted /\ [Next]_vars => Accounted'
  <2>. SUFFICES ASSUME Inv, Accounted, [Next]_vars PROVE Accounted'
       OBVIOUS
  <2>1. NoSessionLost'
    <3>. SUFFICES ASSUME NEW s \in Session, tip'[s] # NoToken, s \notin Live'
                  PROVE  Excused(s)'
         BY DEF NoSessionLost
    <3>1. Excused(s)
          BY OnlyExcusedEnd DEF Accounted, NoSessionLost
    <3>. QED  BY <3>1, ExcusedStays
  <2>2. \A r \in Req : pc'[r] \in {"delList", "delete"} => Excused(sid[r])'
        BY DeletersExcused
  <2>. QED  BY <2>1, <2>2, ReasonsStay, TargetDismissed DEF Accounted
<1>3. Accounted => NoSessionLost
      BY DEF Accounted
<1>. QED  BY <1>1, <1>2, <1>3, SpecInv, PTL DEF Spec

-----------------------------------------------------------------------------
(* The session life cycle refines SessionLifecycle.                        *)

\* A step that keeps the newest pairs and brings no session to life ends the
\* sessions it takes, or is a stutter.
LEMMA EndingStep ==
    ASSUME tip' = tip, Live' \subseteq Live
    PROVE  [Lifecycle!Next]_(Lifecycle!vars)
<1>1. CASE Live' = Live
      BY <1>1 DEF Lifecycle!vars
<1>2. CASE Live' # Live
  <2>. DEFINE S == Live \ Live'
  <2>1. S \in SUBSET Live /\ Live' = Live \ S
        OBVIOUS
  <2>2. Lifecycle!End(S)
        BY <2>1 DEF Lifecycle!End
  <2>. QED  BY <2>1, <2>2 DEF Lifecycle!Next
<1>. QED  BY <1>1, <1>2

\* Secrets go, and no request comes to storeCreate: sessions can only end.
LEMMA ShrinkEnds ==
    ASSUME Inv, Shrink,
           \A r \in Req : pc'[r] = "storeCreate"
                             => pc[r] = "storeCreate" /\ sid'[r] = sid[r]
    PROVE  [Lifecycle!Next]_(Lifecycle!vars)
<1>1. tip' = tip
      BY DEF Shrink
<1>2. Live' \subseteq Live
      BY DEF Live, Shrink
<1>. QED  BY <1>1, <1>2, EndingStep

\* The second call of a rotation takes the secret away; its session lives on.
LEMMA StoreDeleteRefines ==
    ASSUME Inv, NEW r \in Req, StoreDelete(r)
    PROVE  [Lifecycle!Next]_(Lifecycle!vars)
<1>0. sid[r] \in Session /\ sid' = sid
      BY SidInSession DEF StoreDelete
<1>1. Shrink
      BY RemoveShrinks DEF StoreDelete, Inv
<1>2. Live' \subseteq Live
      BY <1>0, <1>1 DEF StoreDelete, Proceed, Answer, Goto, Live, Shrink, Inv,
                        TypeOK
<1>3. tip' = tip
      BY <1>1 DEF Shrink
<1>. QED  BY <1>2, <1>3, EndingStep

\* The third call gives the session its newer pair.
LEMMA StoreCreateRefines ==
    ASSUME Inv, NEW r \in Req, StoreCreate(r)
    PROVE  [Lifecycle!Next]_(Lifecycle!vars)
<1>. DEFINE s == sid[r]
            t == new[r]
<1>0. s \in Session /\ sid' = sid /\ r \in Storing
      BY SidInSession DEF StoreCreate, Storing
<1>1. CASE CreateSecret(s, t)
  <2>1. t \in Token /\ t > tip[s] /\ s \in Live
        BY <1>0, ConstantFacts DEF Inv, Shape, Current, Live, StoreCreate
  <2>2. \A s2 \in Session : tip[s2] # t
        BY <1>0, <2>1, ConstantFacts DEF Inv, TypeOK, Ownership
  <2>3. Live' = Live
    <3>1. \A r2 \in Req : pc'[r2] = "storeCreate"
                            <=> pc[r2] = "storeCreate" /\ r2 # r
          BY DEF StoreCreate, Forward, Answer, Goto, Inv, TypeOK
    <3>2. \A s2 \in Session :
             secret'[s2] # NoToken <=> secret[s2] # NoToken \/ s2 = s
          BY <1>0, <1>1, <2>1, ConstantFacts DEF CreateSecret, Inv, TypeOK
    <3>. QED  BY <1>0, <2>1, <3>1, <3>2 DEF Live
  <2>4. Lifecycle!Rotate(s, t)
        BY <1>1, <2>1, <2>2, <2>3
        DEF Lifecycle!Rotate, Lifecycle!Unused, CreateSecret
  <2>. QED  BY <1>0, <2>1, <2>4 DEF Lifecycle!Next
<1>2. CASE ~CreateSecret(s, t)
  <2>1. Shrink
        BY <1>2, RemoveShrinks DEF StoreCreate, Inv
  <2>2. \A r2 \in Req : pc'[r2] = "storeCreate" => pc[r2] = "storeCreate"
        BY DEF StoreCreate, Forward, Answer, Goto, Inv, TypeOK
  <2>. QED  BY <1>0, <2>1, <2>2, ShrinkEnds
<1>. QED  BY <1>1, <1>2

\* A login brings a session to life that never had a pair.
LEMMA OpenSessionRefines ==
    ASSUME Inv, NEW r \in Req, OpenSession(r)
    PROVE  [Lifecycle!Next]_(Lifecycle!vars)
<1>. DEFINE s == sid[r]
            t == new[r]
<1>0. s \in Session /\ sid' = sid /\ pc[r] = "open"
      BY SidInSession DEF OpenSession
<1>1. \A r2 \in Req : pc'[r2] = "storeCreate" <=> pc[r2] = "storeCreate"
      BY <1>0 DEF OpenSession, Answer, Goto, Inv, TypeOK
<1>2. CASE CreateSecret(s, t)
  <2>1. t \in Token /\ tip[s] = 0
        BY <1>0 DEF Inv, Shape, Opening, NoToken
  <2>2. \A s2 \in Session : tip[s2] # t
        BY <1>0, <2>1, ConstantFacts DEF Inv, TypeOK, Ownership, NoToken
  <2>3. Live' = Live \union {s}
    <3>1. \A s2 \in Session :
             secret'[s2] # NoToken <=> secret[s2] # NoToken \/ s2 = s
          BY <1>0, <1>2, <2>1, ConstantFacts DEF CreateSecret, Inv, TypeOK
    <3>. QED  BY <1>0, <1>1, <3>1 DEF Live
  <2>4. Lifecycle!Open(s, t)
        BY <1>2, <2>1, <2>2, <2>3
        DEF Lifecycle!Open, Lifecycle!Unused, CreateSecret
  <2>. QED  BY <1>0, <2>1, <2>4 DEF Lifecycle!Next
<1>3. CASE ~CreateSecret(s, t)
  <2>1. Shrink
        BY <1>3, RemoveShrinks DEF OpenSession, Inv
  <2>. QED  BY <1>0, <1>1, <2>1, ShrinkEnds
<1>. QED  BY <1>2, <1>3

\* Every other action only takes secrets away, if it touches one at all.
LEMMA OtherStepsRefine ==
    ASSUME Inv, [Next]_vars,
           \A r \in Req : ~StoreDelete(r) /\ ~StoreCreate(r) /\ ~OpenSession(r)
    PROVE  [Lifecycle!Next]_(Lifecycle!vars)
<1>. DEFINE Kept == \A r \in Req : pc'[r] = "storeCreate"
                       => pc[r] = "storeCreate" /\ sid'[r] = sid[r]
<1>. USE DEF Goto, Answer, Forward, Proceed
<1>1. ASSUME NEW r \in Req, Serve(r) PROVE Shrink /\ Kept
  <2>1. Shrink
        BY <1>1, RemoveShrinks
        DEF Inv, Serve, ReadSession, ReadFails, DelList, DeleteSecret,
            ExchangeOk, ExchangeLost, ExchangeRefused, UpdateSession,
            StoreList, RedeemCode, RedeemCodeFails
  <2>2. Kept
        BY <1>1
        DEF Inv, TypeOK, Serve, ReadSession, ReadFails, DelList, DeleteSecret,
            ExchangeOk, ExchangeLost, ExchangeRefused, UpdateSession,
            StoreList, RedeemCode, RedeemCodeFails
  <2>. QED  BY <2>1, <2>2
<1>2. ASSUME NEW r \in Req,
             \/ \E k \in Kind, s \in Session : Arrive(r, k, s)
             \/ \E k \in Kind : ArriveAnonymous(r, k)
             \/ ArriveCallback(r)
             \/ Lookup(r) \/ PrepareFails(r) \/ Receive(r)
      PROVE  Shrink /\ Kept
  <2>1. Shrink
        BY <1>2, RemoveShrinks
        DEF Inv, Arrive, ArriveAnonymous, ArriveCallback, Lookup,
            PrepareFails, Receive
  <2>2. Kept
        BY <1>2
        DEF Inv, TypeOK, Arrive, ArriveAnonymous, ArriveCallback, Lookup,
            PrepareFails, Receive
  <2>. QED  BY <2>1, <2>2
<1>3. ASSUME Environment PROVE Shrink /\ Kept
  <2>1. Shrink
        BY <1>3, RemoveShrinks
        DEF Inv, TypeOK, Environment, ExpireAccess, ExpireRefresh, Age,
            CronPick, CronDelete, Crash, Shrink, store
  <2>2. Kept
        BY <1>3
        DEF Environment, ExpireAccess, ExpireRefresh, Age, CronPick,
            CronDelete, Crash, request
  <2>. QED  BY <2>1, <2>2
<1>4. CASE UNCHANGED vars
      BY <1>4, RemoveShrinks, ShrinkEnds DEF vars, request, Inv
<1>5. CASE Next
      BY <1>1, <1>2, <1>3, <1>5, ShrinkEnds DEF Next
<1>. QED  BY <1>4, <1>5

\* The service implements the abstract session: opened once, moved only to
\* newer pairs, and never back to life once it ended.
THEOREM Refinement == Spec => ImplementsLifecycle
<1>1. Init => Lifecycle!Init
      BY DEF Init, Lifecycle!Init, Live, NoToken
<1>2. Inv /\ [Next]_vars => [Lifecycle!Next]_(Lifecycle!vars)
      BY StoreDeleteRefines, StoreCreateRefines, OpenSessionRefines,
         OtherStepsRefine
<1>. QED  BY <1>1, <1>2, SpecInv, PTL
          DEF Spec, ImplementsLifecycle, Lifecycle!Spec

=============================================================================
