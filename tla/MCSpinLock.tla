----------------------------- MODULE MCSpinLock -----------------------------
(***************************************************************************)
(* Three threads that nest their locks two deep: the smallest instance in  *)
(* which a thread spins while a second takes the lock from a third.        *)
(***************************************************************************)
EXTENDS SpinLock

CONSTANTS t1, t2, t3

MCThreads == {t1, t2, t3}
=============================================================================
