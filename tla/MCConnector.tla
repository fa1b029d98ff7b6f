----------------------------- MODULE MCConnector -----------------------------
(***************************************************************************)
(* The connector's one worker and the application thread that calls Connect. *)
(***************************************************************************)
EXTENDS Connector

CONSTANTS w1, a1
=============================================================================
