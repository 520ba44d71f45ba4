----------------------------- MODULE MCLoginFlow -----------------------------
(* Two tabs for TLC, in one browser or in two.                               *)
EXTENDS LoginFlow, TLC

CONSTANTS t1, t2, b1, b2

HeldStates == {stateCookie[b] : b \in Browser} \union {url[t] : t \in Tab}
                  \union {answer[t].state : t \in Tab}
HeldSessions == {sessionCookie[b] : b \in Browser}
                    \union {sentSession[t] : t \in Tab}
                    \union {answer[t].session : t \in Tab}

\* The state but for what is known of values nobody holds any more: they are
\* drawn anew before anything can depend on it.
Held ==
    <<home, cookies, page, url, request, answer, settled,
      live \cap HeldSessions, known \cap HeldSessions,
      redeemed \cap HeldStates, spent \cap HeldStates>>

TogetherOrApart == {t1 :> b1 @@ t2 :> b1, t1 :> b1 @@ t2 :> b2}
=============================================================================
