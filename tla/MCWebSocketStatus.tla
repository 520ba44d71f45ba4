-------------------------- MODULE MCWebSocketStatus --------------------------
(* Small instances of WebSocketStatus for TLC: two tabs, of one browser or   *)
(* of two, and the requests of either.                                       *)
EXTENDS WebSocketStatus, TLC
=============================================================================
