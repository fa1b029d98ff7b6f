------------------------------ MODULE SpinLock ------------------------------
(***************************************************************************)
(* HNET::LIB::SpinLock (Common/SpinLock.cpp:22-71), the lock of HNet and   *)
(* of the I/O job queue, one memory access per step.  _count is taken with *)
(* a compare-and-swap; _threadId is a plain variable which the holder      *)
(* writes after it has taken _count and clears before it gives it back,    *)
(* and which every spinning thread reads.                                  *)
(*                                                                         *)
(* Threads lock and unlock in balanced pairs and may nest them, as a       *)
(* callback that runs inside HNet::Update does.  The accesses take effect  *)
(* in program order (MSVC, x86).  A definition named X_Y is X with the     *)
(* defect Y; no specification uses it.                                     *)
(***************************************************************************)
EXTENDS Naturals

CONSTANTS Threads,   \* thread identifiers
          None,      \* the thread identifier 0, which no thread has
          MaxDepth   \* bound: how deep a thread nests its locks

ASSUME SpinAssumption == None \notin Threads /\ MaxDepth \in Nat \ {0}

VARIABLES count,      \* _count
          threadId,   \* _threadId
          pc,         \* the next access of each thread
          depth,      \* how many Lock calls of a thread have returned
          lockCount   \* the local lockCount of Unlock

vars == <<count, threadId, pc, depth, lockCount>>

Init == /\ count = 0
        /\ threadId = None
        /\ pc = [t \in Threads |-> "out"]
        /\ depth = [t \in Threads |-> 0]
        /\ lockCount = [t \in Threads |-> 0]

Goto(t, l) == pc' = [pc EXCEPT ![t] = l]

(***************************************************************************)
(* Lock                                                                    *)
(***************************************************************************)
Call(t) == /\ pc[t] = "out" /\ depth[t] < MaxDepth
           /\ Goto(t, "cas")
           /\ UNCHANGED <<count, threadId, depth, lockCount>>

\* InterlockedCompareExchange(&_count, 1, 0)
CasTakes_Always(t) == /\ pc[t] = "cas"
                      /\ count' = 1
                      /\ Goto(t, "own")
                      /\ UNCHANGED <<threadId, depth, lockCount>>
CasTakes(t) == /\ pc[t] = "cas" /\ count = 0
               /\ count' = 1
               /\ Goto(t, "own")
               /\ UNCHANGED <<threadId, depth, lockCount>>

CasFails(t) == /\ pc[t] = "cas" /\ count # 0
               /\ Goto(t, "compare")
               /\ UNCHANGED <<count, threadId, depth, lockCount>>

\* curThreadId == _threadId
IsOwner(t) == /\ pc[t] = "compare" /\ threadId = t
              /\ Goto(t, "nest")
              /\ UNCHANGED <<count, threadId, depth, lockCount>>

Spin(t) == /\ pc[t] = "compare" /\ threadId # t
           /\ Goto(t, "cas")
           /\ UNCHANGED <<count, threadId, depth, lockCount>>

Locked(t) == depth' = [depth EXCEPT ![t] = @ + 1] /\ Goto(t, "out")

\* ++_count
Nest(t) == /\ pc[t] = "nest"
           /\ count' = count + 1
           /\ Locked(t)
           /\ UNCHANGED <<threadId, lockCount>>

\* _threadId = curThreadId
Own_Forgotten(t) == /\ pc[t] = "own"
                    /\ Locked(t)
                    /\ UNCHANGED <<count, threadId, lockCount>>
Own(t) == /\ pc[t] = "own"
          /\ threadId' = t
          /\ Locked(t)
          /\ UNCHANGED <<count, lockCount>>

(***************************************************************************)
(* Unlock                                                                  *)
(***************************************************************************)
\* lockCount = _count; --lockCount
UnlockRead(t) == /\ pc[t] = "out" /\ depth[t] > 0
                 /\ lockCount' = [lockCount EXCEPT ![t] = count - 1]
                 /\ depth' = [depth EXCEPT ![t] = @ - 1]
                 /\ Goto(t, IF count = 1 THEN "disown" ELSE "unnest")
                 /\ UNCHANGED <<count, threadId>>

\* _count = lockCount
Unnest_OffByOne(t) == /\ pc[t] = "unnest"
                      /\ count' = lockCount[t] + 1
                      /\ Goto(t, "out")
                      /\ UNCHANGED <<threadId, depth, lockCount>>
Unnest(t) == /\ pc[t] = "unnest"
             /\ count' = lockCount[t]
             /\ Goto(t, "out")
             /\ UNCHANGED <<threadId, depth, lockCount>>

\* _threadId = 0, then _count = 0
Disown_Late(t) == /\ pc[t] = "disown"
                  /\ count' = 0
                  /\ Goto(t, "free")
                  /\ UNCHANGED <<threadId, depth, lockCount>>
Disown(t) == /\ pc[t] = "disown"
             /\ threadId' = None
             /\ Goto(t, "free")
             /\ UNCHANGED <<count, depth, lockCount>>

Free(t) == /\ pc[t] = "free"
           /\ count' = 0
           /\ Goto(t, "out")
           /\ UNCHANGED <<threadId, depth, lockCount>>

LockStep(t) == CasTakes(t) \/ CasFails(t) \/ IsOwner(t) \/ Spin(t) \/ Nest(t) \/ Own(t)
UnlockStep(t) == UnlockRead(t) \/ Unnest(t) \/ Disown(t) \/ Free(t)

Next == \E t \in Threads : Call(t) \/ LockStep(t) \/ UnlockStep(t)

Spec == Init /\ [][Next]_vars

\* A thread inside Lock or holding the lock is scheduled, and every holder
\* unlocks in the end.  The compare-and-swap is not assumed to win a race.
Fairness == \A t \in Threads : WF_vars(LockStep(t)) /\ WF_vars(UnlockStep(t))

FairSpec == Spec /\ Fairness

-----------------------------------------------------------------------------
(***************************************************************************)
(* Properties                                                              *)
(***************************************************************************)
\* Every variable keeps its type: no Unlock takes _count below 0.
TypeOK == /\ count \in Nat
          /\ threadId \in Threads \cup {None}
          /\ pc \in [Threads -> {"out", "cas", "own", "compare", "nest",
                                  "unnest", "disown", "free"}]
          /\ depth \in [Threads -> Nat]
          /\ lockCount \in [Threads -> Nat]

\* t has taken _count and not yet given it back
Holds(t) == depth[t] > 0 \/ pc[t] \in {"own", "unnest", "disown", "free"}

\* One thread at a time holds the lock, for all that _threadId is read and
\* written without synchronisation.
Mutex == \A t, u \in Threads : Holds(t) /\ Holds(u) => t = u

\* A thread that finds its own identifier in _threadId holds the lock, and one
\* that holds it finds its identifier: it neither enters twice nor spins for ever
\* on itself.
OwnerKnown ==
    \A t \in Threads : pc[t] \in {"cas", "compare", "nest"} =>
        (depth[t] > 0 <=> threadId = t) /\ (pc[t] = "nest" => depth[t] > 0)

\* _count is the number of Lock calls its holder has not undone.
Undone(t) == depth[t] + IF pc[t] \in {"own", "unnest", "disown", "free"} THEN 1 ELSE 0
CountIsDepth == \A t \in Threads : Holds(t) => count = Undone(t)

\* What _threadId is, access by access: the holder's identifier from Own to
\* Disown, and 0 otherwise.
OwnerInv ==
    /\ \A t \in Threads : (depth[t] > 0 \/ pc[t] = "disown") <=> threadId = t
    /\ \A t \in Threads : pc[t] \in {"own", "disown", "free"} => depth[t] = 0
    /\ \A t \in Threads : pc[t] \in {"nest", "unnest"} => depth[t] > 0
    /\ \A t \in Threads : pc[t] = "unnest" => lockCount[t] = depth[t]

\* _count is 0 only when nobody holds the lock.
FreeInv == count # 0 => \E t \in Threads : Holds(t)

\* The inductive invariant.
LInv == TypeOK /\ Mutex /\ OwnerInv /\ CountIsDepth /\ FreeInv

(***************************************************************************)
(* The abstract lock is acquired when Lock returns and released by the     *)
(* write that gives _count back.                                           *)
(***************************************************************************)
HeldDepth(t) == depth[t] + IF pc[t] \in {"unnest", "disown", "free"} THEN 1 ELSE 0
Holder == IF \E t \in Threads : HeldDepth(t) > 0
          THEN CHOOSE t \in Threads : HeldDepth(t) > 0 ELSE None

HolderDepth == IF Holder = None THEN 0 ELSE HeldDepth(Holder)

Lock == INSTANCE RecursiveLock WITH holder <- Holder, depth <- HolderDepth

\* Lock and Unlock implement the recursive lock of RecursiveLock.
ImplementsLock == Lock!Spec

\* While threads want the lock, somebody gets it.
SomebodyGetsIt ==
    (\E t \in Threads : pc[t] = "cas") ~> (\E t \in Threads : depth[t] > 0)
=============================================================================
