------------------------------ MODULE MCSession ------------------------------
(***************************************************************************)
(* One slot served by worker threads, and an application thread that calls *)
(* Send and Disconnect with its NetId and, in single-thread mode, Update.  *)
(* The workers are interchangeable: SessionApps, which checks invariants   *)
(* only, uses that.                                                        *)
(***************************************************************************)
EXTENDS Acceptors, TLC

CONSTANTS w1, w2, a1

Interchangeable == Permutations(Workers)
=============================================================================
