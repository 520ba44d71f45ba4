-------------------------------- MODULE SignIn --------------------------------
(***************************************************************************)
(* What a login is, without tabs, redirections and cookies under way: a    *)
(* browser begins it, its authorization code is redeemed once, and then    *)
(* one session arrives, in the browser that began it.  From then on the    *)
(* session can come back there, even after the browser has left it: an     *)
(* answer that renews its cookie may be late.                              *)
(***************************************************************************)
CONSTANTS
    Browser,
    State,           \* the logins, each with the browser that begins it
    Session,         \* the sessions, each with the browser it is for
    None             \* no session

VARIABLES
    session,         \* of a browser: the session it is signed in with
    redeemed,        \* the logins whose code has been redeemed
    arrived,         \* the logins whose session has arrived
    known            \* the sessions that have arrived

vars == <<session, redeemed, arrived, known>>

Init ==
    /\ session = [b \in Browser |-> None]
    /\ redeemed = {}
    /\ arrived = {}
    /\ known = {}

\* A login begins anew.
Begin(x) ==
    /\ redeemed' = redeemed \ {x}
    /\ arrived' = arrived \ {x}
    /\ UNCHANGED <<session, known>>

Redeem(x) ==
    /\ x \notin redeemed
    /\ redeemed' = redeemed \union {x}
    /\ UNCHANGED <<session, arrived, known>>

\* A session is opened anew, which is not yet anybody's.
Open(s) ==
    /\ \A b \in Browser : session[b] # s
    /\ known' = known \ {s}
    /\ UNCHANGED <<session, redeemed, arrived>>

\* The session of login x arrives: for the first time, and where it began.
Arrive(x, s) ==
    /\ x \in redeemed \ arrived
    /\ s \notin known
    /\ s.for = x.for
    /\ session' = [session EXCEPT ![x.for] = s]
    /\ arrived' = arrived \union {x}
    /\ known' = known \union {s}
    /\ UNCHANGED redeemed

\* A session that the browser has been signed in with is there again.
Renew(b, s) ==
    /\ s \in known
    /\ s.for = b
    /\ session' = [session EXCEPT ![b] = s]
    /\ UNCHANGED <<redeemed, arrived, known>>

\* The browser logs out, or its session is found to be over.
SignOut(b) ==
    /\ session' = [session EXCEPT ![b] = None]
    /\ UNCHANGED <<redeemed, arrived, known>>

Next ==
    \/ \E x \in State : Begin(x) \/ Redeem(x)
    \/ \E x \in State, s \in Session : Arrive(x, s)
    \/ \E s \in Session : Open(s)
    \/ \E b \in Browser : SignOut(b) \/ \E s \in Session : Renew(b, s)

Spec == Init /\ [][Next]_vars
=============================================================================
