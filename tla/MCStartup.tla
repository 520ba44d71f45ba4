------------------------------ MODULE MCStartup ------------------------------
(* The start of console-service for TLC, with a few log configurations.      *)
EXTENDS Startup, TLC
=============================================================================
