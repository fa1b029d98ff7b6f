--------------------------- MODULE SpinLockProofs ---------------------------
(***************************************************************************)
(* Mutual exclusion of SpinLock for any number of threads and any nesting, *)
(* and that it implements RecursiveLock.  LInv adds to Mutex what          *)
(* _threadId and _count are between the accesses of Lock and Unlock: it is *)
(* OwnerInv that makes the unsynchronised test of _threadId sound.         *)
(***************************************************************************)
EXTENDS SpinLock, TLAPS

LEMMA InitLInv == Init => LInv
  <1> SUFFICES ASSUME Init PROVE LInv
    OBVIOUS
  <1> USE SpinAssumption DEF Init
  <1>1. TypeOK
    BY DEF TypeOK
  <1>2. Mutex /\ OwnerInv /\ CountIsDepth /\ FreeInv
    BY DEF Mutex, OwnerInv, CountIsDepth, FreeInv, Holds
  <1>3. QED
    BY <1>1, <1>2 DEF LInv

LEMMA LockPreserves ==
  ASSUME LInv, NEW t \in Threads, Call(t) \/ LockStep(t)
  PROVE  LInv'
  <1> USE SpinAssumption DEF LInv, Goto, Locked
  <1>1. CASE Call(t) \/ CasFails(t) \/ IsOwner(t) \/ Spin(t)
    <2> USE <1>1 DEF Call, CasFails, IsOwner, Spin
    <2>1. TypeOK'
      BY DEF TypeOK
    <2>2. Mutex' /\ FreeInv'
      BY DEF Mutex, FreeInv, Holds, TypeOK
    <2>3. OwnerInv'
      BY DEF OwnerInv, TypeOK
    <2>4. CountIsDepth'
      BY DEF CountIsDepth, Holds, Undone, TypeOK
    <2>5. QED
      BY <2>1, <2>2, <2>3, <2>4
  <1>2. CASE CasTakes(t)
    <2> USE <1>2 DEF CasTakes
    <2>1. \A u \in Threads : ~Holds(u)
      BY DEF CountIsDepth, Holds, Undone, OwnerInv, TypeOK
    <2>2. TypeOK'
      BY DEF TypeOK
    <2>3. Mutex' /\ FreeInv'
      BY <2>1 DEF Mutex, FreeInv, Holds, TypeOK
    <2>4. OwnerInv'
      BY <2>1 DEF OwnerInv, Holds, TypeOK
    <2>5. CountIsDepth'
      BY <2>1 DEF CountIsDepth, Holds, Undone, TypeOK
    <2>6. QED
      BY <2>2, <2>3, <2>4, <2>5
  <1>3. CASE Nest(t) \/ Own(t)
    <2> USE <1>3 DEF Nest, Own
    <2>1. Holds(t) /\ \A u \in Threads : u # t => ~Holds(u)
      BY DEF Mutex, Holds, OwnerInv
    <2>2. TypeOK'
      BY DEF TypeOK
    <2>3. Mutex' /\ FreeInv'
      BY <2>1 DEF Mutex, FreeInv, Holds, TypeOK
    <2>4. OwnerInv'
      BY <2>1 DEF OwnerInv, Holds, TypeOK
    <2>5. CountIsDepth'
      BY <2>1 DEF CountIsDepth, Holds, Undone, TypeOK, OwnerInv
    <2>6. QED
      BY <2>2, <2>3, <2>4, <2>5
  <1>4. QED
    BY <1>1, <1>2, <1>3 DEF LockStep

LEMMA UnlockPreserves ==
  ASSUME LInv, NEW t \in Threads, UnlockStep(t)
  PROVE  LInv'
  <1> USE SpinAssumption DEF LInv, Goto
  <1>1. Holds(t) /\ count = Undone(t) /\ \A u \in Threads : u # t => ~Holds(u)
    BY DEF Mutex, Holds, CountIsDepth, UnlockStep, UnlockRead, Unnest, Disown, Free
  <1>2. CASE UnlockRead(t)
    <2> USE <1>2 DEF UnlockRead
    <2>1. depth[t] \in Nat /\ count = depth[t] /\ count > 0
      BY <1>1 DEF Undone, TypeOK
    <2>2. TypeOK'
      BY <2>1 DEF TypeOK
    <2>3. Mutex' /\ FreeInv'
      BY <1>1, <2>1 DEF Mutex, FreeInv, Holds, TypeOK
    <2>4. OwnerInv'
      BY <1>1, <2>1 DEF OwnerInv, Holds, TypeOK
    <2>5. CountIsDepth'
      BY <1>1, <2>1 DEF CountIsDepth, Holds, Undone, TypeOK
    <2>6. QED
      BY <2>2, <2>3, <2>4, <2>5
  <1>3. CASE Unnest(t) \/ Disown(t) \/ Free(t)
    <2> USE <1>3 DEF Unnest, Disown, Free
    <2>1. TypeOK'
      BY DEF TypeOK
    <2>2. Mutex' /\ FreeInv'
      BY <1>1 DEF Mutex, FreeInv, Holds, TypeOK, OwnerInv
    <2>3. OwnerInv'
      BY <1>1 DEF OwnerInv, Holds, TypeOK
    <2>4. CountIsDepth'
      BY <1>1 DEF CountIsDepth, Holds, Undone, TypeOK, OwnerInv
    <2>5. QED
      BY <2>1, <2>2, <2>3, <2>4
  <1>4. QED
    BY <1>2, <1>3 DEF UnlockStep

LEMMA LInvInductive == LInv /\ [Next]_vars => LInv'
  <1> SUFFICES ASSUME LInv, [Next]_vars PROVE LInv'
    OBVIOUS
  <1>1. ASSUME NEW t \in Threads, Call(t) \/ LockStep(t) \/ UnlockStep(t) PROVE LInv'
    BY <1>1, LockPreserves, UnlockPreserves
  <1>2. CASE UNCHANGED vars
    BY <1>2 DEF vars, LInv, TypeOK, Mutex, OwnerInv, CountIsDepth, FreeInv, Holds, Undone
  <1>3. QED
    BY <1>1, <1>2 DEF Next

LEMMA LockInvariance == Spec => []LInv
  <1>1. QED
    BY InitLInv, LInvInductive, PTL DEF Spec

-----------------------------------------------------------------------------
\* At most one thread is between the compare-and-swap of Lock that succeeded and
\* the write of Unlock that gives _count back.
THEOREM MutualExclusion == Spec => []Mutex
  <1>1. LInv => Mutex
    BY DEF LInv
  <1>2. QED
    BY <1>1, LockInvariance, PTL

\* The test curThreadId == _threadId in Lock is right whatever the other threads
\* are doing to _threadId at that time.
THEOREM OwnershipTest == Spec => []OwnerKnown
  <1>1. LInv => OwnerKnown
    BY DEF LInv, OwnerInv, OwnerKnown
  <1>2. QED
    BY <1>1, LockInvariance, PTL

\* _count counts the nested locks of the holder.
THEOREM NestingCount == Spec => []CountIsDepth
  <1>1. LInv => CountIsDepth
    BY DEF LInv
  <1>2. QED
    BY <1>1, LockInvariance, PTL

-----------------------------------------------------------------------------
(***************************************************************************)
(* Refinement.  Only one thread has a positive HeldDepth, so the CHOOSE in *)
(* Holder picks it.                                                        *)
(***************************************************************************)
LEMMA HolderIs ==
  ASSUME LInv, NEW t \in Threads, HeldDepth(t) > 0
  PROVE  Holder = t /\ HolderDepth = HeldDepth(t)
  <1>1. \A u \in Threads : HeldDepth(u) > 0 => u = t
    BY DEF LInv, Mutex, Holds, HeldDepth, TypeOK
  <1>2. Holder = t
    BY <1>1 DEF Holder
  <1>3. QED
    BY <1>2, SpinAssumption DEF HolderDepth

LEMMA NoHolder ==
  ASSUME \A t \in Threads : ~(HeldDepth(t) > 0)
  PROVE  Holder = None /\ HolderDepth = 0
  BY DEF Holder, HolderDepth

\* Steps that leave HeldDepth alone leave the abstract lock alone.
LEMMA SameHeld ==
  ASSUME \A t \in Threads : HeldDepth(t)' = HeldDepth(t), LInv, LInv'
  PROVE  Holder' = Holder /\ HolderDepth' = HolderDepth
  <1>1. CASE \E t \in Threads : HeldDepth(t) > 0
    <2>1. PICK t \in Threads : HeldDepth(t) > 0
      BY <1>1
    <2>2. Holder = t /\ HolderDepth = HeldDepth(t)
      BY <2>1, HolderIs
    <2>3. \A u \in Threads : HeldDepth(u)' > 0 => u = t
      BY <2>1 DEF LInv, Mutex, Holds, HeldDepth, TypeOK
    <2>4. Holder' = t
      BY <2>1, <2>3 DEF Holder
    <2>5. QED
      BY <2>2, <2>4, SpinAssumption DEF HolderDepth
  <1>2. CASE \A t \in Threads : ~(HeldDepth(t) > 0)
    <2>1. Holder = None /\ HolderDepth = 0
      BY <1>2, NoHolder
    <2>2. Holder' = None
      BY <1>2 DEF Holder
    <2>3. QED
      BY <2>1, <2>2 DEF HolderDepth
  <1>3. QED
    BY <1>1, <1>2

LEMMA StepRefines ==
  ASSUME LInv, LInv', NEW t \in Threads, Call(t) \/ LockStep(t) \/ UnlockStep(t)
  PROVE  [Lock!Next]_<<Holder, HolderDepth>>
  <1> USE DEF Goto, Locked
  <1>1. CASE Nest(t) \/ Own(t)
    <2>1. /\ \A u \in Threads : u # t => ~(HeldDepth(u) > 0)
          /\ HeldDepth(t) \in Nat /\ HeldDepth(t)' = HeldDepth(t) + 1
          /\ \A u \in Threads : u # t => HeldDepth(u)' = HeldDepth(u)
      BY <1>1 DEF LInv, Mutex, Holds, HeldDepth, TypeOK, OwnerInv, Nest, Own
    <2>2. Holder' = t /\ HolderDepth' = HeldDepth(t) + 1
      <3>1. \A u \in Threads : HeldDepth(u)' > 0 <=> u = t
        BY <2>1
      <3>2. Holder' = t
        BY <3>1 DEF Holder
      <3>3. QED
        BY <2>1, <3>2, SpinAssumption DEF HolderDepth
    <2>3. CASE HeldDepth(t) > 0
      <3>1. Holder = t /\ HolderDepth = HeldDepth(t)
        BY <2>3, HolderIs
      <3>2. Lock!Acquire(t)
        BY <2>2, <3>1 DEF Lock!Acquire
      <3>3. QED
        BY <3>2 DEF Lock!Next
    <2>4. CASE HeldDepth(t) = 0
      <3>1. Holder = None /\ HolderDepth = 0
        BY <2>1, <2>4, NoHolder
      <3>2. Lock!Acquire(t)
        BY <2>2, <2>4, <3>1 DEF Lock!Acquire
      <3>3. QED
        BY <3>2 DEF Lock!Next
    <2>5. QED
      BY <2>1, <2>3, <2>4
  <1>2. CASE Unnest(t) \/ Free(t)
    <2>1. /\ \A u \in Threads : u # t => ~(HeldDepth(u) > 0)
          /\ HeldDepth(t) \in Nat /\ HeldDepth(t) > 0 /\ HeldDepth(t)' = HeldDepth(t) - 1
          /\ \A u \in Threads : u # t => HeldDepth(u)' = HeldDepth(u)
      BY <1>2 DEF LInv, Mutex, Holds, HeldDepth, TypeOK, OwnerInv, Unnest, Free
    <2>2. Holder = t /\ HolderDepth = HeldDepth(t)
      BY <2>1, HolderIs
    <2>3. CASE HeldDepth(t) = 1
      <3>1. Holder' = None
        BY <2>1, <2>3 DEF Holder
      <3>2. HolderDepth' = 0
        BY <3>1 DEF HolderDepth
      <3>3. Lock!Release(t)
        BY <2>2, <2>3, <3>1, <3>2 DEF Lock!Release
      <3>4. QED
        BY <3>3 DEF Lock!Next
    <2>4. CASE HeldDepth(t) > 1
      <3>1. \A u \in Threads : HeldDepth(u)' > 0 <=> u = t
        BY <2>1, <2>4
      <3>2. Holder' = t
        BY <3>1 DEF Holder
      <3>3. HolderDepth' = HeldDepth(t) - 1
        BY <2>1, <3>2, SpinAssumption DEF HolderDepth
      <3>4. Lock!Release(t)
        BY <2>2, <2>4, <3>2, <3>3 DEF Lock!Release
      <3>5. QED
        BY <3>4 DEF Lock!Next
    <2>5. QED
      BY <2>1, <2>3, <2>4
  <1>3. CASE Call(t) \/ CasTakes(t) \/ CasFails(t) \/ IsOwner(t) \/ Spin(t) \/ UnlockRead(t) \/ Disown(t)
    <2>1. \A u \in Threads : HeldDepth(u)' = HeldDepth(u)
      BY <1>3
      DEF HeldDepth, LInv, TypeOK, Call, CasTakes, CasFails, IsOwner, Spin, UnlockRead, Disown
    <2>2. QED
      BY <2>1, SameHeld
  <1>4. QED
    BY <1>1, <1>2, <1>3 DEF LockStep, UnlockStep

\* SpinLock implements a recursive lock: Lock returns only when the caller has it,
\* and the lock passes to another thread only after as many Unlocks.
THEOREM Refinement == Spec => ImplementsLock
  <1>1. Init => Lock!Init
    <2> SUFFICES ASSUME Init PROVE Lock!Init
      OBVIOUS
    <2>1. ASSUME NEW t \in Threads PROVE ~(HeldDepth(t) > 0)
      <3>1. depth[t] = 0 /\ pc[t] = "out"
        BY DEF Init
      <3>2. HeldDepth(t) = 0
        BY <3>1 DEF HeldDepth
      <3>3. QED
        BY <3>2
    <2>2. QED
      BY <2>1, NoHolder DEF Lock!Init
  <1>2. LInv /\ LInv' /\ [Next]_vars => [Lock!Next]_(Lock!vars)
    <2> SUFFICES ASSUME LInv, LInv', [Next]_vars PROVE [Lock!Next]_(Lock!vars)
      OBVIOUS
    <2>1. CASE UNCHANGED vars
      <3>1. \A t \in Threads : HeldDepth(t)' = HeldDepth(t)
        BY <2>1 DEF vars, HeldDepth
      <3>2. QED
        BY <3>1, SameHeld DEF Lock!vars
    <2>2. ASSUME NEW t \in Threads, Call(t) \/ LockStep(t) \/ UnlockStep(t)
          PROVE  [Lock!Next]_(Lock!vars)
      BY <2>2, StepRefines DEF Lock!vars
    <2>3. QED
      BY <2>1, <2>2 DEF Next
  <1>3. QED
    BY <1>1, <1>2, LockInvariance, PTL DEF Spec, ImplementsLock, Lock!Spec
=============================================================================
