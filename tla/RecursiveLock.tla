---------------------------- MODULE RecursiveLock ----------------------------
(***************************************************************************)
(* What HNET::LIB::SpinLock promises: one holder at a time, and the holder *)
(* may lock again as long as it unlocks as often.                          *)
(***************************************************************************)
EXTENDS Naturals

CONSTANTS Threads, None

VARIABLES holder, depth

vars == <<holder, depth>>

Init == holder = None /\ depth = 0

Acquire(t) == /\ holder \in {None, t}
              /\ holder' = t
              /\ depth' = depth + 1

Release(t) == /\ holder = t
              /\ depth' = depth - 1
              /\ holder' = IF depth = 1 THEN None ELSE t

Next == \E t \in Threads : Acquire(t) \/ Release(t)

Spec == Init /\ [][Next]_vars
=============================================================================
