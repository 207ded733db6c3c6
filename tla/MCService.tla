------------------------------ MODULE MCService ------------------------------
(* Instances of the local service for TLC. *)
EXTENDS LocalService

CONSTANTS h1, service, install, a, b
==============================================================================
