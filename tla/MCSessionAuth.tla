---------------------------- MODULE MCSessionAuth ----------------------------
(* Small instances of SessionAuth for TLC.  Requests and sessions are       *)
(* interchangeable: no action and no invariant names one of them.           *)
EXTENDS SessionAuth, FiniteSets, TLC

Symmetry == Permutations(Req) \union Permutations(Session)

\* The state but for the history variable dismissed.  No guard, no other
\* variable's next value and, in the runs that use this view, no property
\* other than the type of dismissed depends on it.
Undismissed ==
    <<store, oauth, expiry, handler, drawn, jar, request, cronTarget>>
=============================================================================
