-------------------------- MODULE MCSharedProxyHook --------------------------
(* A small instance of SharedProxyHook for TLC.  An execution ends when all  *)
(* its requests are answered.                                                *)
EXTENDS SharedProxyHook, TLC

Symmetry == Permutations(Req) \union Permutations(Session)
=============================================================================
