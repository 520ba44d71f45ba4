-------------------------- MODULE SessionLifecycle --------------------------
(***************************************************************************)
(* What the login service promises about a session, with no requests, no   *)
(* lock and no storage protocol.                                           *)
(*                                                                         *)
(* A session is opened once, with a pair of tokens no other session ever   *)
(* had.  While it lives it may be rotated, each time to a strictly newer   *)
(* pair.  It ends once, and an ended session never lives again.  Several   *)
(* sessions may end in one step: a crash of the service can take them.     *)
(***************************************************************************)
EXTENDS Naturals

CONSTANTS
    Session,       \* the session identifiers
    Token          \* the token pairs, numbered from 1 in the order of issue

VARIABLES
    live,          \* the sessions that live
    last           \* the newest pair each session was given, 0 before it opens

vars == <<live, last>>

TypeInvariant ==
    /\ live \subseteq Session
    /\ last \in [Session -> Token \union {0}]

Unused(t) == \A s \in Session : last[s] # t

Init ==
    /\ live = {}
    /\ last = [s \in Session |-> 0]

Open(s, t) ==
    /\ last[s] = 0
    /\ Unused(t)
    /\ live' = live \union {s}
    /\ last' = [last EXCEPT ![s] = t]

Rotate(s, t) ==
    /\ s \in live
    /\ t > last[s]
    /\ Unused(t)
    /\ last' = [last EXCEPT ![s] = t]
    /\ UNCHANGED live

End(S) ==
    /\ live' = live \ S
    /\ UNCHANGED last

Next ==
    \/ \E s \in Session, t \in Token : Open(s, t) \/ Rotate(s, t)
    \/ \E S \in SUBSET live : End(S)

Spec == Init /\ [][Next]_vars
=============================================================================
