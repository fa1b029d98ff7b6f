--------------------------- MODULE SendQueueProofs ---------------------------
(***************************************************************************)
(* Proofs about SendQueue, for every set of senders and packets and every  *)
(* MAX_SIZE.  The inductive invariant IInv says where the duty to issue    *)
(* the next WSASend lies and what the ring holds meanwhile; with it every  *)
(* step of the ring is a step of the byte stream of SendStream.            *)
(***************************************************************************)
EXTENDS SendQueue, SequenceTheorems, WellFoundedInduction, TLAPS

LEMMA EmptyBuffer == Empty \in Buffer /\ Empty.lenth = 0 /\ Empty.data = <<>>
  BY EmptySeq DEF Empty, Buffer

\* What the list is after _head moves one buffer on: the same buffers, the
\* first one last.
LEMMA RotatedRing ==
  ASSUME ring \in Seq(Buffer), Len(ring) >= 1
  PROVE  /\ Rotated \in Seq(Buffer)
         /\ Len(Rotated) = Len(ring)
         /\ Rotated[Len(ring)] = ring[1]
         /\ \A i \in 1..Len(ring) - 1 : Rotated[i] = ring[i + 1]
  <1> DEFINE n == Len(ring)
  <1>1. n \in Nat /\ n >= 1 /\ \A i \in 1..n : ring[i] \in Buffer
    BY LenProperties, ElementOfSeq
  <1>2. Rotated \in [1..n -> Buffer]
    BY <1>1 DEF Rotated
  <1>3. Rotated \in Seq(Buffer) /\ Len(Rotated) = n
    BY <1>1, <1>2
  <1>4. Rotated[n] = ring[1]
    BY <1>1 DEF Rotated
  <1>5. ASSUME NEW i \in 1..n - 1 PROVE Rotated[i] = ring[i + 1]
    <2>1. i \in 1..n /\ i # n
      BY <1>1
    <2>2. QED
      BY <2>1 DEF Rotated
  <1>6. QED
    BY <1>3, <1>4, <1>5

\* Gathering::Release on *_head leaves the other buffers alone.
LEMMA ClearedRing ==
  ASSUME ring \in Seq(Buffer), Len(ring) >= 1
  PROVE  /\ Cleared \in Seq(Buffer)
         /\ Len(Cleared) = Len(ring)
         /\ Cleared[1] = Empty
         /\ \A i \in 2..Len(ring) : Cleared[i] = ring[i]
  <1>1. Len(ring) \in Nat /\ 1 \in 1..Len(ring)
    BY LenProperties
  <1>2. QED
    BY <1>1, ExceptSeq, EmptyBuffer DEF Cleared

\* A buffer with room takes a packet, stays below MAX_SIZE and is not empty.
LEMMA AddToBuffer ==
  ASSUME NEW b \in Buffer, NEW m \in Msg, HasRoom(b, m)
  PROVE  /\ Add(b, m) \in Buffer
         /\ Add(b, m).lenth > 0
         /\ Add(b, m).lenth < MaxSize
         /\ Add(b, m).data # <<>>
         /\ Add(b, m) # Empty
  <1>1. Size[m] \in Nat /\ Size[m] > 0 /\ b.lenth \in Nat /\ b.data \in Seq(Msg)
    BY SendAssumption DEF Buffer
  <1>2. Append(b.data, m) \in Seq(Msg) /\ Append(b.data, m) # <<>>
    BY <1>1, AppendProperties
  <1>3. QED
    BY <1>1, <1>2, SendAssumption DEF Add, Buffer, HasRoom, Empty

\* NextBuffer moves _tail to an empty buffer, a new one if it must.
LEMMA NextBufferRing ==
  ASSUME TypeOK, NextBuffer,
         \A i \in 1..Len(ring) : i > tail => ring[i] = Empty
  PROVE  /\ ring' \in Seq(Buffer)
         /\ Len(ring') >= Len(ring)
         /\ tail' \in 2..Len(ring')
         /\ tail' = tail + 1
         /\ \A i \in 1..Len(ring) : ring'[i] = ring[i]
         /\ \A i \in 1..Len(ring') : i > tail => ring'[i] = Empty
  <1>1. Len(ring) \in Nat /\ Len(ring) >= 1 /\ tail \in 1..Len(ring) /\ ring \in Seq(Buffer)
    BY LenProperties DEF TypeOK
  <1>2. CASE tail = Len(ring)
    BY <1>1, <1>2, AppendProperties, EmptyBuffer DEF NextBuffer
  <1>3. CASE tail # Len(ring)
    BY <1>1, <1>3 DEF NextBuffer
  <1>4. QED
    BY <1>2, <1>3

-----------------------------------------------------------------------------
LEMMA InitIInv == Init => IInv
  <1> SUFFICES ASSUME Init PROVE IInv
    OBVIOUS
  <1> USE SendAssumption, EmptyBuffer
  <1>1. TypeOK
    <2>1. ring \in Seq(Buffer) /\ Len(ring) = 1 /\ wire \in Seq(Msg)
      BY EmptySeq DEF Init
    <2>2. pc \in [Threads -> {"idle"}] /\ arg \in [Senders -> {None}]
      BY DEF Init
    <2>3. /\ pc \in [Threads -> {"idle", "append", "check", "post", "release", "advance"}]
          /\ \A t \in Threads : pc[t] = "idle"
      BY <2>2
    <2>4. arg \in [Senders -> Msg \cup {None}]
      BY <2>2
    <2>5. tail \in 1..Len(ring) /\ Len(ring) >= 1
      BY <2>1 DEF Init
    <2>6. \A t \in Senders : pc[t] = "idle" /\ pc[Worker] = "idle"
      BY <2>3 DEF Threads
    <2>7. pc[Worker] = "idle"
      BY <2>3 DEF Threads
    <2>8. /\ pending \in BOOLEAN /\ owner \in Senders \cup {None} /\ flight \in Nat \cup {None}
          /\ conn \in {"up", "cancelled", "reset"} /\ accepted \in Nat
      BY DEF Init
    <2>9. QED
      BY <2>1, <2>3, <2>4, <2>5, <2>6, <2>7, <2>8 DEF TypeOK
  <1>2. LockInv /\ OneDriver /\ NoStall /\ NoEmptySend
    BY DEF Init, LockInv, OneDriver, NoStall, NoEmptySend, Driving, Threads
  <1>3. RingInv /\ HeadInv
    BY DEF Init, RingInv, HeadInv, Threads
  <1>4. QED
    BY <1>1, <1>2, <1>3 DEF IInv

LEMMA SendLockStep ==
  ASSUME IInv, NEW t \in Senders, NEW m \in Msg, SendLock(t, m)
  PROVE  IInv'
  <1> USE SendAssumption DEF IInv, SendLock, Threads
  <1>1. TypeOK'
    BY DEF TypeOK
  <1>2. LockInv'
    BY DEF LockInv, TypeOK
  <1>3. OneDriver' /\ NoStall' /\ NoEmptySend'
    BY DEF OneDriver, NoStall, NoEmptySend, Driving, TypeOK
  <1>4. RingInv'
    BY DEF RingInv
  <1>5. HeadInv'
    BY DEF HeadInv, TypeOK
  <1>6. QED
    BY <1>1, <1>2, <1>3, <1>4, <1>5

LEMMA AppendOkStep ==
  ASSUME IInv, NEW t \in Senders, AppendOk(t)
  PROVE  IInv'
  <1> USE SendAssumption DEF IInv, Threads
  <1> DEFINE b == Add(ring[tail], arg[t])
  <1>1. /\ Len(ring) \in Nat /\ tail \in 1..Len(ring) /\ ring[tail] \in Buffer
        /\ arg[t] \in Msg /\ pc[t] = "append" /\ owner = t
    BY LenProperties, ElementOfSeq DEF TypeOK, AppendOk, LockInv
  <1>2. b \in Buffer /\ b.lenth > 0 /\ b.lenth < MaxSize /\ b.data # <<>> /\ b # Empty
    BY <1>1, AddToBuffer DEF AppendOk
  <1>3. /\ ring' \in Seq(Buffer) /\ Len(ring') = Len(ring) /\ ring'[tail] = b
        /\ \A i \in 1..Len(ring) : i # tail => ring'[i] = ring[i]
    BY <1>1, <1>2, ExceptSeq DEF TypeOK, AppendOk
  <1>4. TypeOK'
    BY <1>3 DEF TypeOK, AppendOk
  <1>5. LockInv'
    BY DEF LockInv, TypeOK, AppendOk
  <1>6. OneDriver' /\ NoStall'
    BY DEF OneDriver, NoStall, Driving, TypeOK, AppendOk
  <1>7. NoEmptySend'
    BY <1>1, <1>3 DEF NoEmptySend, AppendOk, OneDriver, RingInv, TypeOK
  <1>8. RingInv'
    BY <1>1, <1>2, <1>3 DEF RingInv, AppendOk
  <1>9. HeadInv'
    BY <1>1, <1>2, <1>3, EmptyBuffer DEF HeadInv, AppendOk, TypeOK, LockInv, RingInv
  <1>10. QED
    BY <1>4, <1>5, <1>6, <1>7, <1>8, <1>9

LEMMA AppendFullStep ==
  ASSUME Fits, IInv, NEW t \in Senders, AppendFull(t)
  PROVE  IInv'
  <1> USE SendAssumption DEF IInv, Threads
  <1>1. /\ Len(ring) \in Nat /\ tail \in 1..Len(ring) /\ ring[tail] \in Buffer
        /\ arg[t] \in Msg /\ pc[t] = "append" /\ owner = t
    BY LenProperties, ElementOfSeq DEF TypeOK, AppendFull, LockInv
  <1>2. ring[tail] # Empty /\ ring[tail].lenth > 0
    BY <1>1, EmptyBuffer DEF AppendFull, HasRoom, Fits, HeadInv, Buffer
  <1>3. pending /\ tail # 1
    BY <1>1, <1>2 DEF HeadInv, RingInv, TypeOK
  <1>4. /\ ring' \in Seq(Buffer)
        /\ Len(ring') >= Len(ring)
        /\ tail' \in 2..Len(ring')
        /\ tail' = tail + 1
        /\ \A i \in 1..Len(ring) : ring'[i] = ring[i]
        /\ \A i \in 1..Len(ring') : i > tail => ring'[i] = Empty
    BY NextBufferRing DEF AppendFull, RingInv
  <1>5. TypeOK'
    BY <1>1, <1>4 DEF TypeOK, AppendFull
  <1>6. LockInv' /\ OneDriver' /\ NoStall'
    BY DEF LockInv, OneDriver, NoStall, Driving, AppendFull
  <1>7. NoEmptySend'
    <2>1. ring'[1] = ring[1] /\ flight' = flight
      BY <1>1, <1>4 DEF AppendFull
    <2>2. QED
      BY <2>1 DEF NoEmptySend
  <1>8. RingInv'
    <2>1. pending' /\ tail' # 1
      BY <1>1, <1>3, <1>4 DEF AppendFull
    <2>2. \A i \in 1..Len(ring') : i > tail' => ring'[i] = Empty
      BY <1>1, <1>4
    <2>3. ASSUME NEW i \in 2..Len(ring'), i < tail' PROVE ring'[i].lenth > 0
      <3>1. i \in 2..Len(ring) /\ ring'[i] = ring[i] /\ (i < tail \/ i = tail)
        BY <1>1, <1>4, <2>3
      <3>2. QED
        BY <1>2, <3>1 DEF RingInv
    <2>4. ASSUME NEW i \in 1..Len(ring') PROVE ring'[i].lenth < MaxSize
      <3>1. CASE i > tail
        BY <1>4, <3>1, EmptyBuffer
      <3>2. CASE ~(i > tail)
        <4>1. i \in 1..Len(ring) /\ ring'[i] = ring[i]
          BY <1>1, <1>4, <3>2
        <4>2. QED
          BY <4>1 DEF RingInv
      <3>3. QED
        BY <3>1, <3>2
    <2>5. QED
      BY <2>1, <2>2, <2>3, <2>4 DEF RingInv
  <1>9. HeadInv'
    <2>1. ASSUME NEW i \in 1..Len(ring')
          PROVE  ring'[i] = Empty \/ (i \in 1..Len(ring) /\ ring'[i] = ring[i])
      <3>1. Len(ring') \in Nat
        BY <1>4
      <3>2. i > tail \/ i \in 1..Len(ring)
        BY <1>1, <3>1
      <3>3. QED
        BY <1>4, <3>2
    <2>2. \A i \in 1..Len(ring') : /\ ring'[i].lenth = 0 <=> ring'[i] = Empty
                                   /\ ring'[i].data = <<>> => ring'[i] = Empty
      BY <2>1, EmptyBuffer DEF HeadInv
    <2>3. ring'[1] = ring[1]
      BY <1>1, <1>4
    <2>4. QED
      BY <1>3, <2>2, <2>3 DEF HeadInv, AppendFull
  <1>10. QED
    BY <1>5, <1>6, <1>7, <1>8, <1>9

LEMMA LeavePendingStep ==
  ASSUME IInv, NEW t \in Senders, LeavePending(t)
  PROVE  IInv'
  <1> USE SendAssumption DEF IInv, LeavePending, Threads
  <1>1. TypeOK'
    BY DEF TypeOK
  <1>2. LockInv' /\ OneDriver' /\ NoStall' /\ NoEmptySend'
    BY DEF LockInv, OneDriver, NoStall, NoEmptySend, Driving, TypeOK
  <1>3. RingInv' /\ HeadInv'
    BY DEF RingInv, HeadInv, TypeOK
  <1>4. QED
    BY <1>1, <1>2, <1>3

LEMMA StartSendStep ==
  ASSUME IInv, NEW t \in Senders, StartSend(t)
  PROVE  IInv'
  <1> USE SendAssumption DEF IInv, Threads
  <1>1. /\ Len(ring) \in Nat /\ tail = 1 /\ Len(ring) >= 1 /\ ring[1] # Empty
        /\ pc[t] = "check" /\ owner = t /\ ~pending /\ flight = None
    BY LenProperties DEF TypeOK, StartSend, LockInv, RingInv, HeadInv, OneDriver
  <1>2. /\ ring' \in Seq(Buffer)
        /\ Len(ring') >= Len(ring)
        /\ tail' \in 2..Len(ring')
        /\ tail' = 2
        /\ \A i \in 1..Len(ring) : ring'[i] = ring[i]
        /\ \A i \in 1..Len(ring') : i > 1 => ring'[i] = Empty
    <2>1. TypeOK /\ NextBuffer
      BY DEF StartSend
    <2>2. \A i \in 1..Len(ring) : i > tail => ring[i] = Empty
      BY <1>1 DEF RingInv
    <2>3. tail' = tail + 1
      BY ONLY <2>1 DEF NextBuffer
    <2>4. QED
      BY ONLY <1>1, <2>1, <2>2, <2>3, NextBufferRing
  <1>3. TypeOK'
    BY <1>2 DEF TypeOK, StartSend
  <1>4. LockInv'
    BY DEF LockInv, StartSend, TypeOK
  <1>5. OneDriver' /\ NoStall' /\ NoEmptySend'
    BY <1>1 DEF OneDriver, NoStall, NoEmptySend, Driving, StartSend, TypeOK
  <1>6. RingInv'
    <2>1. \A i \in 1..Len(ring') : ring'[i].lenth < MaxSize
      BY <1>1, <1>2, EmptyBuffer DEF RingInv
    <2>2. QED
      BY <1>1, <1>2, <2>1 DEF RingInv, StartSend
  <1>7. HeadInv'
    <2>1. pc'[Worker] = pc[Worker] /\ pc[Worker] = "idle"
      BY <1>1 DEF StartSend, TypeOK, OneDriver, Driving
    <2>2. pending' /\ ring'[1] # Empty
      BY <1>1, <1>2 DEF StartSend
    <2>3. \A i \in 1..Len(ring') : /\ ring'[i].lenth = 0 <=> ring'[i] = Empty
                                   /\ ring'[i].data = <<>> => ring'[i] = Empty
      BY <1>1, <1>2, EmptyBuffer DEF HeadInv
    <2>4. QED
      BY <2>1, <2>2, <2>3 DEF HeadInv
  <1>8. QED
    BY <1>3, <1>4, <1>5, <1>6, <1>7

LEMMA PostStep ==
  ASSUME IInv, NEW t \in Threads, Post(t)
  PROVE  IInv'
  <1> USE SendAssumption DEF IInv, Threads
  <1>1. /\ pc[t] = "post" /\ pending /\ flight = None /\ pc' = [pc EXCEPT ![t] = "idle"]
        /\ \A u \in Threads : u # t => ~Driving(u)
        /\ ring \in Seq(Buffer) /\ Len(ring) >= 1 /\ ring[1] \in Buffer
    BY ElementOfSeq, LenProperties DEF Post, PostOk, PostFail, OneDriver, Driving, TypeOK
  <1>2. pc[Worker] # "advance" /\ ring[1] # Empty /\ ring[1].data # <<>>
    BY <1>1, LenProperties DEF HeadInv, Driving
  <1>3. Len(ring[1].data) \in Nat /\ Len(ring[1].data) > 0
    BY <1>1, <1>2, EmptySeq DEF Buffer
  <1>4. TypeOK'
    BY <1>1, <1>3 DEF TypeOK, Post, PostOk, PostFail
  <1>5. LockInv'
    BY <1>1 DEF LockInv, Post, PostOk, PostFail, TypeOK
  <1>6. OneDriver'
    BY <1>1 DEF OneDriver, Driving, Post, PostOk, PostFail, TypeOK
  <1>7. NoStall' /\ NoEmptySend'
    BY <1>1, <1>3 DEF NoStall, NoEmptySend, Post, PostOk, PostFail, TypeOK
  <1>8. RingInv'
    BY DEF RingInv, Post, PostOk, PostFail
  <1>9. HeadInv'
    BY <1>1, <1>2 DEF HeadInv, Post, PostOk, PostFail, TypeOK
  <1>10. QED
    BY <1>4, <1>5, <1>6, <1>7, <1>8, <1>9

LEMMA CompletionStep ==
  ASSUME IInv, Completion
  PROVE  IInv'
  <1> USE SendAssumption DEF IInv, Threads
  <1>1. /\ flight # None /\ pc[Worker] = "idle" /\ flight' = None /\ pending
        /\ pc' = [pc EXCEPT ![Worker] = "release"]
        /\ UNCHANGED <<ring, tail, pending, owner, arg, conn, accepted>>
        /\ \A u \in Threads : ~Driving(u)
    BY DEF Completion, CompletedOk, CompletedAborted, Completed, OneDriver
  <1>2. wire' \in Seq(Msg)
    <2>1. CASE CompletedAborted
      BY <2>1 DEF CompletedAborted, TypeOK
    <2>2. CASE CompletedOk
      <3>1. ring[1] \in Buffer /\ flight = Len(ring[1].data)
        BY <1>1, ElementOfSeq, LenProperties DEF TypeOK, NoEmptySend
      <3>2. ring[1].data \in Seq(Msg)
        BY <3>1 DEF Buffer
      <3>3. SubSeq(ring[1].data, 1, flight) \in Seq(Msg)
        BY <3>1, <3>2, SubSeqFull
      <3>4. QED
        BY <2>2, <3>3, ConcatProperties DEF CompletedOk, TypeOK
    <2>3. QED
      BY <2>1, <2>2 DEF Completion
  <1>3. TypeOK'
    BY <1>1, <1>2 DEF TypeOK
  <1>4. LockInv'
    BY <1>1 DEF LockInv, TypeOK
  <1>5. OneDriver' /\ NoStall' /\ NoEmptySend'
    BY <1>1 DEF OneDriver, NoStall, NoEmptySend, Driving, TypeOK
  <1>6. RingInv' /\ HeadInv'
    BY <1>1 DEF RingInv, HeadInv, TypeOK
  <1>7. QED
    BY <1>3, <1>4, <1>5, <1>6

LEMMA SendedReleaseStep ==
  ASSUME IInv, SendedRelease
  PROVE  IInv'
  <1> USE SendAssumption DEF IInv, Threads
  <1>1. /\ pc[Worker] = "release" /\ pc' = [pc EXCEPT ![Worker] = "advance"]
        /\ pending /\ flight = None
        /\ UNCHANGED <<tail, pending, owner, arg, flight, conn, wire, accepted>>
        /\ Len(ring) \in Nat /\ Len(ring) >= 1
    BY LenProperties DEF SendedRelease, OneDriver, Driving, TypeOK
  <1>2. /\ ring' \in Seq(Buffer) /\ Len(ring') = Len(ring) /\ ring'[1] = Empty
        /\ \A i \in 2..Len(ring) : ring'[i] = ring[i]
    BY ClearedRing DEF SendedRelease, TypeOK
  <1>3. TypeOK'
    BY <1>1, <1>2 DEF TypeOK
  <1>4. LockInv' /\ OneDriver' /\ NoStall' /\ NoEmptySend'
    BY <1>1 DEF LockInv, OneDriver, NoStall, NoEmptySend, Driving, TypeOK
  <1>5. \A i \in 1..Len(ring) : i = 1 \/ i \in 2..Len(ring)
    BY <1>1
  <1>6. RingInv'
    <2>1. tail # 1 /\ \A i \in 1..Len(ring) : i > tail => i # 1
      BY <1>1 DEF RingInv, TypeOK
    <2>2. \A i \in 1..Len(ring) : i > tail => ring'[i] = Empty
      BY <1>2, <1>5, <2>1 DEF RingInv
    <2>3. \A i \in 1..Len(ring) : ring'[i].lenth < MaxSize
      BY <1>2, <1>5, EmptyBuffer DEF RingInv
    <2>4. \A i \in 2..Len(ring) : i < tail => ring'[i].lenth > 0
      BY <1>2 DEF RingInv
    <2>5. QED
      BY <1>1, <1>2, <2>1, <2>2, <2>3, <2>4 DEF RingInv
  <1>7. HeadInv'
    <2>1. \A i \in 1..Len(ring) : /\ ring'[i].lenth = 0 <=> ring'[i] = Empty
                                  /\ ring'[i].data = <<>> => ring'[i] = Empty
      BY <1>2, <1>5, EmptyBuffer DEF HeadInv
    <2>2. pc'[Worker] = "advance" /\ pending'
      BY <1>1 DEF TypeOK
    <2>3. QED
      BY <1>2, <2>1, <2>2 DEF HeadInv
  <1>8. QED
    BY <1>3, <1>4, <1>6, <1>7

LEMMA SendedAdvanceStep ==
  ASSUME IInv, SendedAdvance
  PROVE  IInv'
  <1> USE SendAssumption DEF IInv, Threads
  <1> DEFINE n == Len(ring)
  <1>1. /\ pc[Worker] = "advance" /\ owner = None /\ pending /\ flight = None
        /\ ring[1] = Empty /\ n \in Nat /\ tail \in 2..n /\ ring' = Rotated
        /\ UNCHANGED <<owner, arg, flight, conn, wire, accepted>>
        /\ TailRotated = tail - 1
        /\ \A u \in Threads : Driving(u) => u = Worker
        /\ \A u \in Senders : pc[u] \notin {"append", "check"}
    BY LenProperties
    DEF SendedAdvance, OneDriver, Driving, TypeOK, RingInv, HeadInv, TailRotated, LockInv
  <1>2. /\ ring' \in Seq(Buffer) /\ Len(ring') = n /\ ring'[n] = Empty
        /\ \A i \in 1..n - 1 : ring'[i] = ring[i + 1]
    BY <1>1, RotatedRing DEF TypeOK
  <1>3. \A i \in 1..n : i >= tail => ring'[i] = Empty
    <2>1. ASSUME NEW i \in 1..n, i >= tail, i # n PROVE ring'[i] = Empty
      <3>1. i + 1 \in 1..n /\ i + 1 > tail /\ ring'[i] = ring[i + 1]
        BY <1>1, <1>2, <2>1
      <3>2. QED
        BY <3>1 DEF RingInv
    <2>2. QED
      BY <1>2, <2>1
  <1>4. \A i \in 1..n : i < tail - 1 => ring'[i].lenth > 0
    <2>1. ASSUME NEW i \in 1..n, i < tail - 1 PROVE ring'[i].lenth > 0
      <3>1. i + 1 \in 2..n /\ i + 1 < tail /\ ring'[i] = ring[i + 1]
        BY <1>1, <1>2, <2>1
      <3>2. QED
        BY <3>1 DEF RingInv
    <2>2. QED
      BY <2>1
  <1>5. \A i \in 1..n : /\ ring'[i].lenth < MaxSize
                        /\ ring'[i].lenth = 0 <=> ring'[i] = Empty
                        /\ ring'[i].data = <<>> => ring'[i] = Empty
    <2>1. ASSUME NEW i \in 1..n - 1
          PROVE  /\ ring'[i].lenth < MaxSize
                 /\ ring'[i].lenth = 0 <=> ring'[i] = Empty
                 /\ ring'[i].data = <<>> => ring'[i] = Empty
      <3>1. i + 1 \in 1..n /\ ring'[i] = ring[i + 1]
        BY <1>1, <1>2, <2>1
      <3>2. QED
        BY <3>1 DEF RingInv, HeadInv
    <2>2. QED
      BY <1>1, <1>2, <2>1, EmptyBuffer
  <1>6. CASE SendedStop
    <2>1. /\ pending' = FALSE /\ tail' = tail - 1 /\ pc' = [pc EXCEPT ![Worker] = "idle"]
          /\ ring'[1].lenth = 0
      BY <1>1, <1>6 DEF SendedStop, NothingLeft
    <2>2. tail' = 1 /\ ring'[1] = Empty
      BY <1>1, <1>4, <1>5, <2>1
    <2>3. TypeOK'
      <3>1. Len(ring') >= 1 /\ tail' \in 1..Len(ring')
        BY <1>1, <1>2, <2>2
      <3>2. QED
        BY <1>1, <1>2, <2>1, <3>1 DEF TypeOK
    <2>4. LockInv' /\ OneDriver' /\ NoStall' /\ NoEmptySend'
      BY <1>1, <2>1 DEF LockInv, OneDriver, NoStall, NoEmptySend, Driving, TypeOK
    <2>5. RingInv'
      BY <1>1, <1>2, <1>3, <1>5, <2>1, <2>2 DEF RingInv
    <2>6. HeadInv'
      BY <1>1, <1>2, <1>5, <2>1, <2>2 DEF HeadInv, TypeOK
    <2>7. QED
      BY <2>3, <2>4, <2>5, <2>6
  <1>7. CASE SendedNext
    <2>1. /\ pending' = pending /\ pc' = [pc EXCEPT ![Worker] = "post"]
          /\ ring'[1].lenth # 0
      BY <1>1, <1>7 DEF SendedNext, NothingLeft
    <2>2. tail' \in 2..n /\ (tail' = tail - 1 \/ (tail = 2 /\ tail' = 2))
      <3>1. n \in Nat /\ tail \in 2..n
        BY <1>1
      <3>2. n # 1 /\ tail - 1 \in 1..n /\ (tail - 1 = 1 => tail = 2)
        <4> HIDE DEF n
        <4>1. QED
          BY <3>1
      <3>3. tail' = TailPastHead /\ TailRotated = tail - 1
        BY <1>1, <1>7 DEF SendedNext
      <3>4. CASE tail - 1 = 1
        BY <3>1, <3>2, <3>3, <3>4 DEF TailPastHead
      <3>5. CASE tail - 1 # 1
        BY <3>1, <3>2, <3>3, <3>5 DEF TailPastHead
      <3>6. QED
        BY <3>4, <3>5
    <2>3. TypeOK'
      BY <1>1, <1>2, <2>1, <2>2 DEF TypeOK
    <2>4. LockInv' /\ OneDriver' /\ NoStall' /\ NoEmptySend'
      BY <1>1, <2>1 DEF LockInv, OneDriver, NoStall, NoEmptySend, Driving, TypeOK
    <2>5. RingInv'
      <3>1. pending' /\ tail' # 1 /\ tail' >= tail - 1 /\ Len(ring') = n
        BY <1>1, <1>2, <2>1, <2>2
      <3>2. \A i \in 1..n : i > tail' => ring'[i] = Empty
        BY <1>1, <1>3, <3>1, <2>2
      <3>3. \A i \in 2..n : i < tail' => ring'[i].lenth > 0
        BY <1>1, <1>4, <2>2
      <3>4. QED
        BY <1>5, <3>1, <3>2, <3>3 DEF RingInv
    <2>6. HeadInv'
      BY <1>1, <1>2, <1>5, <2>1, EmptyBuffer DEF HeadInv, TypeOK
    <2>7. QED
      BY <2>3, <2>4, <2>5, <2>6
  <1>8. QED
    BY <1>6, <1>7 DEF SendedAdvance

LEMMA EndStep ==
  ASSUME IInv, Cancel \/ PeerReset \/ UNCHANGED vars
  PROVE  IInv'
  <1>1. /\ UNCHANGED <<ring, tail, pending, owner, pc, arg, flight, wire, accepted>>
        /\ conn' \in {"cancelled", "reset"} \/ conn' = conn
    BY DEF Cancel, PeerReset, vars
  <1>2. TypeOK' /\ LockInv' /\ OneDriver' /\ NoStall' /\ NoEmptySend'
    BY <1>1 DEF IInv, TypeOK, LockInv, OneDriver, NoStall, NoEmptySend, Driving
  <1>3. RingInv' /\ HeadInv'
    BY <1>1 DEF IInv, RingInv, HeadInv
  <1>4. QED
    BY <1>2, <1>3 DEF IInv

\* IInv is inductive, as long as every packet fits an empty buffer.
LEMMA InductiveStep == ASSUME Fits PROVE IInv /\ [Next]_vars => IInv'
  <1> SUFFICES ASSUME IInv, [Next]_vars PROVE IInv'
    OBVIOUS
  <1>1. ASSUME NEW t \in Senders, SendStep(t) PROVE IInv'
    BY <1>1, AppendOkStep, AppendFullStep, LeavePendingStep, StartSendStep DEF SendStep
  <1>2. ASSUME NEW t \in Senders, NEW m \in Msg, SendLock(t, m) PROVE IInv'
    BY <1>2, SendLockStep
  <1>3. ASSUME NEW t \in Threads, Post(t) PROVE IInv'
    BY <1>3, PostStep
  <1>4. CASE Completion
    BY <1>4, CompletionStep
  <1>5. CASE Sended
    BY <1>5, SendedReleaseStep, SendedAdvanceStep DEF Sended
  <1>6. CASE Cancel \/ PeerReset \/ UNCHANGED vars
    BY <1>6, EndStep
  <1>7. QED
    BY <1>1, <1>2, <1>3, <1>4, <1>5, <1>6 DEF Next

-----------------------------------------------------------------------------
LEMMA Invariance == ASSUME Fits PROVE Spec => []IInv
  <1>1. Init => IInv
    BY InitIInv
  <1>2. IInv /\ [Next]_vars => IInv'
    BY InductiveStep
  <1>3. QED
    BY <1>1, <1>2, PTL DEF Spec

\* Every variable of the send side keeps its type; in particular _tail always
\* is a buffer of the ring.
THEOREM TypeCorrect == ASSUME Fits PROVE Spec => []TypeOK
  <1>1. IInv => TypeOK
    BY DEF IInv
  <1>2. QED
    BY <1>1, Invariance, PTL

\* _pending gives the head buffer and the OVERLAPPED of the session to one
\* thread or one WSASend at a time (637-687, 740-757).
THEOREM OneSendAtATime == ASSUME Fits PROVE Spec => []OneDriver
  <1>1. IInv => OneDriver
    BY DEF IInv
  <1>2. QED
    BY <1>1, Invariance, PTL

\* _pending is TRUE only while somebody is going to run Sended, until the
\* connection fails: no packet is left in the ring with nobody to send it.
THEOREM NeverStalls == ASSUME Fits PROVE Spec => []NoStall
  <1>1. IInv => NoStall
    BY DEF IInv
  <1>2. QED
    BY <1>1, Invariance, PTL

\* The shape of the ring that Sended's test of the next buffer relies on.
THEOREM RingShape == ASSUME Fits PROVE Spec => []RingInv
  <1>1. IInv => RingInv
    BY DEF IInv
  <1>2. QED
    BY <1>1, Invariance, PTL

\* WSASend is issued with the whole of *_head, which is not empty.
THEOREM SendsSomething == ASSUME Fits PROVE Spec => []NoEmptySend
  <1>1. IInv => NoEmptySend
    BY DEF IInv
  <1>2. QED
    BY <1>1, Invariance, PTL

\* No step writes the buffer the kernel is sending from (Append is to _tail,
\* Release to _head, and neither is it then).
THEOREM KernelBufferStable == ASSUME Fits PROVE Spec => BufferStable
  <1>1. ASSUME IInv, [Next]_vars, flight # None, flight' # None
        PROVE  ring'[1] = ring[1] /\ flight' = flight
    <2> USE <1>1
    <2>1. /\ pending /\ tail # 1 /\ Len(ring) \in Nat /\ tail \in 1..Len(ring)
          /\ ring \in Seq(Buffer)
          /\ \A t \in Threads : pc[t] \notin {"post", "release", "advance"}
      BY LenProperties DEF IInv, OneDriver, RingInv, TypeOK, Driving
    <2>2. ASSUME NEW t \in Senders, SendStep(t) PROVE ring'[1] = ring[1] /\ flight' = flight
      <3>1. CASE AppendOk(t)
        BY <2>1, <3>1 DEF AppendOk
      <3>2. CASE AppendFull(t)
        <4>1. \A i \in 1..Len(ring) : ring'[i] = ring[i]
          BY <3>2, NextBufferRing DEF AppendFull, IInv, RingInv
        <4>2. QED
          BY <2>1, <3>2, <4>1 DEF AppendFull
      <3>3. CASE LeavePending(t)
        BY <3>3 DEF LeavePending
      <3>4. CASE StartSend(t)
        BY <2>1, <3>4 DEF StartSend
      <3>5. QED
        BY <2>2, <3>1, <3>2, <3>3, <3>4 DEF SendStep
    <2>3. ASSUME NEW t \in Senders, NEW m \in Msg, SendLock(t, m)
          PROVE  ring'[1] = ring[1] /\ flight' = flight
      BY <2>3 DEF SendLock
    <2>4. ASSUME NEW t \in Threads, Post(t) PROVE FALSE
      BY <2>1, <2>4 DEF Post, PostOk, PostFail
    <2>5. CASE Completion
      BY <2>5 DEF Completion, CompletedOk, CompletedAborted, Completed
    <2>6. CASE Sended
      BY <2>1, <2>6 DEF Sended, SendedRelease, SendedAdvance, Threads
    <2>7. CASE Cancel \/ PeerReset \/ UNCHANGED vars
      BY <2>7 DEF Cancel, PeerReset, vars
    <2>8. QED
      BY <2>2, <2>3, <2>4, <2>5, <2>6, <2>7 DEF Next
  <1>2. IInv /\ [Next]_vars
          => [flight # None /\ flight' # None => ring'[1] = ring[1] /\ flight' = flight]_vars
    BY <1>1
  <1>3. QED
    BY <1>2, Invariance, PTL DEF Spec, BufferStable

-----------------------------------------------------------------------------
(***************************************************************************)
(* The refinement of SendStream.  Waiting is a recursive function of the   *)
(* ring, which the provers see only through the equations below: first     *)
(* that it has a value, by induction on the length of the ring, and then   *)
(* what the moves of *_head and *_tail make of it.                         *)
(***************************************************************************)
LEMMA Induction ==
  ASSUME NEW D \in SUBSET Nat, 0 \in D, \A n \in D : n + 1 \in D
  PROVE  D = Nat
  <1> DEFINE R == {ss \in Nat \X Nat : ss[1] < ss[2]}
  <1> SUFFICES ASSUME Nat \ D # {} PROVE FALSE
    OBVIOUS
  <1>1. IsWellFoundedOn(R, Nat)
    BY ONLY NatLessThanWellFounded DEF OpToRel
  <1>2. PICK n \in Nat \ D : \A m \in Nat \ D : <<m, n>> \notin R
    <2> HIDE DEF R
    <2>1. Nat \ D \subseteq Nat
      OBVIOUS
    <2>2. QED
      BY <1>1, <2>1, WFMin
  <1>3. \A m \in Nat \ D : ~(m < n)
    BY <1>2
  <1>4. n # 0 /\ n - 1 \in D
    BY <1>3
  <1>5. QED
    BY <1>4

\* What buffer i of ring r contributes to the queue while the worker is at w.
Piece(r, w, i) == IF i = 1 /\ w = "release" THEN <<>> ELSE r[i].data

\* q[i] is what the first i buffers hold, for i up to n.
Holds(q, r, w, n) == /\ q \in [0..n -> Seq(Msg)]
                     /\ q[0] = <<>>
                     /\ \A i \in 1..n : q[i] = q[i - 1] \o Piece(r, w, i)

LEMMA PieceType ==
  ASSUME NEW r \in Seq(Buffer), NEW w, NEW i \in 1..Len(r)
  PROVE  Piece(r, w, i) \in Seq(Msg)
  <1>1. r[i] \in Buffer
    BY ElementOfSeq
  <1>2. r[i].data \in Seq(Msg)
    BY <1>1 DEF Buffer
  <1>3. QED
    BY <1>2, EmptySeq DEF Piece

LEMMA HoldsExists ==
  ASSUME NEW r \in Seq(Buffer), NEW w
  PROVE  \E q : Holds(q, r, w, Len(r))
  <1> DEFINE D == {n \in Nat : n <= Len(r) => \E q : Holds(q, r, w, n)}
  <1>0. Len(r) \in Nat
    BY LenProperties
  <1>1. 0 \in D
    <2>1. Holds([i \in 0..0 |-> <<>>], r, w, 0)
      BY EmptySeq DEF Holds
    <2>2. QED
      BY <2>1
  <1>2. ASSUME NEW n \in D PROVE n + 1 \in D
    <2> SUFFICES ASSUME n + 1 <= Len(r) PROVE \E q : Holds(q, r, w, n + 1)
      OBVIOUS
    <2>1. PICK q : Holds(q, r, w, n)
      BY <1>0
    <2> DEFINE last == q[n] \o Piece(r, w, n + 1)
               g == [i \in 0..n + 1 |-> IF i = n + 1 THEN last ELSE q[i]]
    <2>2. last \in Seq(Msg)
      <3>1. q[n] \in Seq(Msg) /\ Piece(r, w, n + 1) \in Seq(Msg)
        BY <1>0, <2>1, PieceType DEF Holds
      <3>2. QED
        BY <3>1, ConcatProperties
    <2>3. g \in [0..n + 1 -> Seq(Msg)] /\ g[0] = <<>>
      <3> HIDE DEF last
      <3> QED BY <2>1, <2>2 DEF Holds
    <2>4. ASSUME NEW i \in 1..n + 1 PROVE g[i] = g[i - 1] \o Piece(r, w, i)
      <3>1. CASE i = n + 1
        BY <3>1
      <3>2. CASE i # n + 1
        <4>1. i \in 1..n /\ g[i] = q[i] /\ g[i - 1] = q[i - 1]
          BY <3>2
        <4>2. QED
          BY <2>1, <4>1 DEF Holds
      <3>3. QED
        BY <3>1, <3>2
    <2>5. QED
      <3> HIDE DEF g
      <3> QED BY <2>3, <2>4 DEF Holds
  <1>3. D = Nat
    <2> HIDE DEF D
    <2>1. D \in SUBSET Nat
      BY DEF D
    <2>2. QED
      BY <1>1, <1>2, <2>1, Induction
  <1>4. Len(r) \in D
    <2> HIDE DEF D
    <2> QED BY <1>0, <1>3
  <1>5. QED
    BY <1>4

\* Waiting, of any ring and any state of the worker.
WaitingIn(r, w) ==
    CHOOSE f : f = [i \in 0..Len(r) |->
                      IF i = 0 THEN <<>>
                      ELSE f[i - 1] \o IF i = 1 /\ w = "release" THEN <<>> ELSE r[i].data]

LEMMA WaitingIs == /\ Waiting = WaitingIn(ring, pc[Worker])
                   /\ Waiting' = WaitingIn(ring', pc'[Worker])
  BY DEF Waiting, WaitingIn

\* Two solutions agree as far as their buffers do.
LEMMA SamePieces ==
  ASSUME NEW r, NEW w, NEW q, NEW n \in Nat, Holds(q, r, w, n),
         NEW r2, NEW w2, NEW q2, NEW n2 \in Nat, Holds(q2, r2, w2, n2),
         NEW k \in Nat, k <= n, k <= n2,
         \A i \in 1..k : Piece(r2, w2, i) = Piece(r, w, i)
  PROVE  \A i \in 0..k : q2[i] = q[i]
  <1> DEFINE D == {i \in Nat : i <= k => q2[i] = q[i]}
  <1>1. 0 \in D
    BY DEF Holds
  <1>2. ASSUME NEW i \in D PROVE i + 1 \in D
    <2> SUFFICES ASSUME i + 1 <= k PROVE q2[i + 1] = q[i + 1]
      OBVIOUS
    <2>1. q2[i] = q[i] /\ i + 1 \in 1..k /\ (i + 1) - 1 = i /\ i + 1 \in 1..n /\ i + 1 \in 1..n2
      OBVIOUS
    <2>2. q2[i + 1] = q2[i] \o Piece(r2, w2, i + 1) /\ q[i + 1] = q[i] \o Piece(r, w, i + 1)
      BY <2>1 DEF Holds
    <2>3. Piece(r2, w2, i + 1) = Piece(r, w, i + 1)
      BY <2>1
    <2>4. QED
      BY <2>1, <2>2, <2>3
  <1>3. D = Nat
    <2> HIDE DEF D
    <2>1. D \in SUBSET Nat
      BY DEF D
    <2>2. QED
      BY <1>1, <1>2, <2>1, Induction
  <1>4. ASSUME NEW i \in 0..k PROVE q2[i] = q[i]
    <2>1. i \in D
      <3> HIDE DEF D
      <3> QED BY <1>3
    <2>2. QED
      BY <2>1
  <1>5. QED
    BY <1>4

LEMMA WaitingHolds ==
  ASSUME NEW r \in Seq(Buffer), NEW w
  PROVE  Holds(WaitingIn(r, w), r, w, Len(r))
  <1> DEFINE E(f) == f = [i \in 0..Len(r) |->
                            IF i = 0 THEN <<>>
                            ELSE f[i - 1] \o IF i = 1 /\ w = "release" THEN <<>> ELSE r[i].data]
             S == WaitingIn(r, w)
  <1>0. Len(r) \in Nat
    BY LenProperties
  <1>1. PICK q : Holds(q, r, w, Len(r))
    BY HoldsExists
  <1>2. E(q)
    <2> DEFINE rhs == [i \in 0..Len(r) |->
                         IF i = 0 THEN <<>>
                         ELSE q[i - 1] \o IF i = 1 /\ w = "release" THEN <<>> ELSE r[i].data]
    <2>1. ASSUME NEW i \in 0..Len(r) PROVE q[i] = rhs[i]
      <3>1. CASE i = 0
        BY <1>1, <3>1 DEF Holds
      <3>2. CASE i # 0
        <4>1. i \in 1..Len(r)
          BY <1>0, <3>2
        <4>2. q[i] = q[i - 1] \o Piece(r, w, i)
          BY <1>1, <4>1 DEF Holds
        <4>3. rhs[i] = q[i - 1] \o Piece(r, w, i)
          BY <3>2 DEF Piece
        <4>4. QED
          BY <4>2, <4>3
      <3>3. QED
        BY <3>1, <3>2
    <2>2. q = [i \in 0..Len(r) |-> q[i]]
      BY <1>1 DEF Holds
    <2>3. QED
      BY <2>1, <2>2
  <1>3. S = CHOOSE f : E(f)
    BY DEF WaitingIn
  <1>4. E(S)
    <2> HIDE DEF E, S
    <2> QED BY <1>2, <1>3
  <1> HIDE DEF S
  <1>5. S[0] = <<>> /\ \A i \in 1..Len(r) : S[i] = S[i - 1] \o Piece(r, w, i)
    <2>1. S[0] = <<>>
      BY <1>0, <1>4
    <2>2. ASSUME NEW i \in 1..Len(r) PROVE S[i] = S[i - 1] \o Piece(r, w, i)
      <3>1. i \in 0..Len(r) /\ i # 0
        BY <1>0
      <3>2. QED
        BY <1>4, <3>1 DEF Piece
    <2>3. QED
      BY <2>1, <2>2
  <1>6. \A i \in Nat : i <= Len(r) => S[i] \in Seq(Msg)
    <2> DEFINE D == {i \in Nat : i <= Len(r) => S[i] \in Seq(Msg)}
    <2>1. 0 \in D
      BY <1>5, EmptySeq
    <2>2. ASSUME NEW i \in D PROVE i + 1 \in D
      <3> SUFFICES ASSUME i + 1 <= Len(r) PROVE S[i + 1] \in Seq(Msg)
        OBVIOUS
      <3>1. i + 1 \in 1..Len(r) /\ (i + 1) - 1 = i /\ S[i] \in Seq(Msg)
        BY <1>0
      <3>2. S[i + 1] = S[i] \o Piece(r, w, i + 1) /\ Piece(r, w, i + 1) \in Seq(Msg)
        BY <1>5, <3>1, PieceType
      <3>3. QED
        BY <3>1, <3>2, ConcatProperties
    <2>3. D = Nat
      <3> HIDE DEF D
      <3>1. D \in SUBSET Nat
        BY DEF D
      <3>2. QED
        BY <2>1, <2>2, <3>1, Induction
    <2>4. QED
      BY <2>3
  <1>7. S \in [0..Len(r) -> Seq(Msg)]
    <2>1. S = [i \in 0..Len(r) |-> S[i]]
      BY <1>4
    <2>2. \A i \in 0..Len(r) : S[i] \in Seq(Msg)
      BY <1>0, <1>6
    <2>3. QED
      BY <2>1, <2>2
  <1>8. QED
    BY <1>5, <1>7 DEF Holds, S

\* A prefix and the rest of a concatenation.
LEMMA ConcatSplits ==
  ASSUME NEW s \in Seq(Msg), NEW t \in Seq(Msg)
  PROVE  /\ SubSeq(s \o t, 1, Len(s)) = s
         /\ SubSeq(s \o t, Len(s) + 1, Len(s \o t)) = t
  <1>1. /\ Len(s) \in Nat /\ Len(t) \in Nat
        /\ s \o t \in Seq(Msg) /\ Len(s \o t) = Len(s) + Len(t)
    BY ConcatProperties, LenProperties
  <1>2. SubSeq(s \o t, 1, Len(s)) = s
    <2>1. CASE s = <<>>
      BY <1>1, <2>1, EmptySeq, SubSeqEmpty
    <2>2. CASE s # <<>>
      <3>1. Len(s) > 0
        BY <2>2, EmptySeq
      <3>2. 1 \in 1..Len(s) /\ Len(s) \in 1..Len(s)
        BY <1>1, <3>1
      <3>3. QED
        BY <3>2, SubSeqOfConcat1, SubSeqFull
    <2>3. QED
      BY <2>1, <2>2
  <1>3. SubSeq(s \o t, Len(s) + 1, Len(s \o t)) = t
    <2>1. CASE t = <<>>
      BY <1>1, <2>1, EmptySeq, SubSeqEmpty
    <2>2. CASE t # <<>>
      <3>1. Len(t) > 0
        BY <2>2, EmptySeq
      <3> DEFINE m == Len(s) + 1
                 n == Len(s) + Len(t)
      <3>2. m \in Len(s) + 1..Len(s) + Len(t) /\ n \in Len(s) + 1..Len(s) + Len(t)
        BY <1>1, <3>1
      <3>3. m - Len(s) = 1 /\ n - Len(s) = Len(t)
        BY <1>1
      <3>4. SubSeq(s \o t, m, n) = SubSeq(t, m - Len(s), n - Len(s))
        <4> HIDE DEF m, n
        <4> QED BY <3>2, SubSeqOfConcat2
      <3>5. QED
        BY <1>1, <3>3, <3>4, SubSeqFull
    <2>3. QED
      BY <2>1, <2>2
  <1>4. QED
    BY <1>2, <1>3

\* When *_head is empty and moves one buffer on, every buffer is one place
\* nearer the head.
LEMMA RotatedHolds ==
  ASSUME NEW r \in Seq(Buffer), NEW w, NEW q, Holds(q, r, w, Len(r)),
         NEW r2 \in Seq(Buffer), NEW w2, NEW q2, Holds(q2, r2, w2, Len(r)),
         Len(r) >= 1, r[1] = Empty, w # "release", w2 # "release",
         \A i \in 1..Len(r) - 1 : r2[i] = r[i + 1]
  PROVE  \A i \in 0..Len(r) - 1 : q2[i] = q[i + 1]
  <1> DEFINE n == Len(r)
             D == {i \in Nat : i <= n - 1 => q2[i] = q[i + 1]}
  <1>0. n \in Nat /\ n >= 1
    BY LenProperties
  <1>1. 0 \in D
    <2>0. Piece(r, w, 1) = <<>> /\ 1 \in 1..Len(r)
      BY <1>0, EmptyBuffer DEF Piece
    <2>1. q[1] = q[0] \o <<>> /\ q[0] = <<>> /\ q2[0] = <<>>
      BY <2>0 DEF Holds
    <2>2. q[1] = <<>>
      BY <2>1, ConcatEmptySeq, EmptySeq
    <2>3. QED
      BY <2>1, <2>2
  <1>2. ASSUME NEW i \in D PROVE i + 1 \in D
    <2> SUFFICES ASSUME i + 1 <= n - 1 PROVE q2[i + 1] = q[i + 2]
      BY <1>0
    <2>1. /\ i + 1 \in 1..n - 1 /\ i + 1 \in 1..n /\ i + 2 \in 1..n
          /\ (i + 1) - 1 = i /\ (i + 2) - 1 = i + 1 /\ i + 2 # 1 /\ (i + 1) + 1 = i + 2
          /\ q2[i] = q[i + 1]
      BY <1>0
    <2>2. q2[i + 1] = q2[i] \o Piece(r2, w2, i + 1) /\ q[i + 2] = q[i + 1] \o Piece(r, w, i + 2)
      <3> HIDE DEF n, D
      <3>1. \A k \in 1..n : /\ q2[k] = q2[k - 1] \o Piece(r2, w2, k)
                            /\ q[k] = q[k - 1] \o Piece(r, w, k)
        BY DEF Holds, n
      <3>2. QED
        BY <2>1, <3>1
    <2>3. r2[i + 1] = r[i + 2]
      BY <2>1
    <2>4. Piece(r2, w2, i + 1) = Piece(r, w, i + 2)
      BY <2>1, <2>3 DEF Piece
    <2>5. QED
      BY <2>1, <2>2, <2>4
  <1>3. D = Nat
    <2> HIDE DEF D
    <2>1. D \in SUBSET Nat
      BY DEF D
    <2>2. QED
      BY <1>1, <1>2, <2>1, Induction
  <1>4. ASSUME NEW i \in 0..n - 1 PROVE q2[i] = q[i + 1]
    <2>1. i \in Nat /\ i <= n - 1
      BY <1>0
    <2>2. i \in D
      <3> HIDE DEF D
      <3> QED BY <1>3, <2>1
    <2>3. QED
      BY <2>1, <2>2
  <1>5. QED
    BY <1>4

\* Up to buffer n, q is q2 with h in front.
InFront(h, q, q2, n) == \A i \in 1..n : q[i] = h \o q2[i]

\* Sended starts: what *_head holds no longer waits, the rest does.
LEMMA HeadHolds ==
  ASSUME NEW r \in Seq(Buffer), NEW w, NEW q, Holds(q, r, w, Len(r)),
         NEW q2, Holds(q2, r, "release", Len(r)), Len(r) >= 1, w # "release"
  PROVE  InFront(r[1].data, q, q2, Len(r))
  <1> DEFINE n == Len(r)
             h == r[1].data
             D == {i \in Nat : i + 1 <= n => q[i + 1] = h \o q2[i + 1]}
  <1>0. n \in Nat /\ n >= 1 /\ 1 \in 1..n /\ h \in Seq(Msg)
    <2>1. n \in Nat /\ n >= 1
      BY LenProperties
    <2>2. 1 \in 1..n
      <3> HIDE DEF n
      <3> QED BY <2>1
    <2>3. r[1] \in Buffer
      BY <2>2, ElementOfSeq
    <2>4. QED
      BY <2>1, <2>2, <2>3 DEF Buffer
  <1>h. Piece(r, w, 1) = h /\ Piece(r, "release", 1) = <<>>
    BY DEF Piece
  <1> HIDE DEF h
  <1>1. 0 \in D
    <2>1. q[1] = <<>> \o h /\ q2[1] = <<>> \o <<>>
      <3>1. \A k \in 1..n : q[k] = q[k - 1] \o Piece(r, w, k)
        BY DEF Holds
      <3>2. \A k \in 1..n : q2[k] = q2[k - 1] \o Piece(r, "release", k)
        BY DEF Holds
      <3>3. q[1 - 1] = <<>> /\ q2[1 - 1] = <<>>
        <4>1. 1 - 1 = 0
          OBVIOUS
        <4>2. QED
          BY ONLY <4>1, Holds(q, r, w, Len(r)), Holds(q2, r, "release", Len(r)), Zenon DEF Holds
      <3>4. q[1] = q[1 - 1] \o h /\ q2[1] = q2[1 - 1] \o <<>>
        <4> HIDE DEF n
        <4> QED BY <1>0, <1>h, <3>1, <3>2
      <3>5. QED
        BY ONLY <3>3, <3>4, Zenon
    <2>2. q[1] = h /\ q2[1] = <<>>
      BY <1>0, <2>1, ConcatEmptySeq, EmptySeq
    <2>3. q[1] = h \o q2[1]
      BY <1>0, <2>2, ConcatEmptySeq
    <2>4. QED
      BY <2>3
  <1>2. ASSUME NEW i \in D PROVE i + 1 \in D
    <2> SUFFICES ASSUME (i + 1) + 1 <= n
                 PROVE  q[(i + 1) + 1] = h \o q2[(i + 1) + 1]
      OBVIOUS
    <2>0. (i + 1) + 1 = i + 2 /\ i + 2 <= n /\ i + 1 <= n
      BY <1>0
    <2>1. /\ i + 2 \in 1..n /\ i + 1 \in 0..n /\ i + 2 # 1 /\ (i + 2) - 1 = i + 1
          /\ q[i + 1] = h \o q2[i + 1]
      BY <1>0, <2>0
    <2>2. q2[i + 2] = q2[i + 1] \o Piece(r, "release", i + 2) /\ q[i + 2] = q[i + 1] \o Piece(r, w, i + 2)
      <3> HIDE DEF n, D
      <3>1. \A k \in 1..n : /\ q2[k] = q2[k - 1] \o Piece(r, "release", k)
                            /\ q[k] = q[k - 1] \o Piece(r, w, k)
        BY DEF Holds, n
      <3>2. QED
        BY <2>1, <3>1
    <2>3. Piece(r, "release", i + 2) = Piece(r, w, i + 2) /\ Piece(r, w, i + 2) \in Seq(Msg)
      BY <2>1, PieceType DEF Piece
    <2>4. q2[i + 1] \in Seq(Msg)
      BY <2>1 DEF Holds
    <2>5. q[i + 2] = h \o (q2[i + 1] \o Piece(r, w, i + 2))
      <3> DEFINE a == q2[i + 1]
                 p == Piece(r, w, i + 2)
      <3>1. a \in Seq(Msg) /\ p \in Seq(Msg) /\ h \in Seq(Msg)
        BY <1>0, <2>3, <2>4
      <3>2. (h \o a) \o p = h \o (a \o p)
        <4> HIDE DEF a, p
        <4> QED BY ONLY <3>1, ConcatAssociative
      <3>3. q[i + 2] = (h \o a) \o p
        BY <2>1, <2>2, Zenon
      <3>4. QED
        BY <3>2, <3>3, Zenon
    <2>6. q[i + 2] = h \o q2[i + 2]
      BY <2>2, <2>3, <2>5
    <2>7. QED
      BY <2>0, <2>6
  <1>3. D = Nat
    <2> HIDE DEF D
    <2>1. D \in SUBSET Nat
      BY DEF D
    <2>2. QED
      BY <1>1, <1>2, <2>1, Induction
  <1>4. ASSUME NEW i \in 1..n PROVE q[i] = h \o q2[i]
    <2>1. i - 1 \in Nat /\ (i - 1) + 1 = i /\ i <= n
      BY <1>0
    <2>2. i - 1 \in D
      <3> HIDE DEF D
      <3> QED BY <1>3, <2>1
    <2>3. QED
      BY <2>1, <2>2
  <1>5. QED
    BY <1>4 DEF h, InFront

LEMMA QueueHolds ==
  /\ TypeOK => Holds(Waiting, ring, pc[Worker], Len(ring))
  /\ TypeOK' => Holds(Waiting', ring', pc'[Worker], Len(ring'))
  BY WaitingHolds, WaitingIs DEF TypeOK

\* The queue up to a buffer before which nothing changed.
LEMMA WaitingKept ==
  ASSUME TypeOK, TypeOK', NEW k \in Nat, k <= Len(ring), k <= Len(ring'),
         \A i \in 1..k : Piece(ring', pc'[Worker], i) = Piece(ring, pc[Worker], i)
  PROVE  \A i \in 0..k : Waiting'[i] = Waiting[i]
  <1>1. Len(ring) \in Nat /\ Len(ring') \in Nat
    BY LenProperties DEF TypeOK
  <1>2. /\ Holds(Waiting, ring, pc[Worker], Len(ring))
        /\ Holds(Waiting', ring', pc'[Worker], Len(ring'))
    BY QueueHolds
  <1>3. QED
    BY <1>1, <1>2, SamePieces

LEMMA QueueKept ==
  ASSUME TypeOK, TypeOK', ring' = ring, tail' = tail,
         pc'[Worker] = "release" <=> pc[Worker] = "release"
  PROVE  Queue' = Queue
  <1>1. Len(ring) \in Nat /\ tail \in 1..Len(ring) /\ tail \in Nat
    BY LenProperties DEF TypeOK
  <1>2. \A i \in 1..tail : Piece(ring', pc'[Worker], i) = Piece(ring, pc[Worker], i)
    BY DEF Piece
  <1>3. \A i \in 0..tail : Waiting'[i] = Waiting[i]
    BY <1>1, <1>2, WaitingKept
  <1>4. QED
    BY <1>1, <1>3 DEF Queue

\* Append puts the packet behind all that wait.
LEMMA AppendOkQueue ==
  ASSUME IInv, IInv', NEW t \in Senders, AppendOk(t)
  PROVE  arg[t] \in Msg /\ Queue' = Append(Queue, arg[t])
  <1> USE SendAssumption DEF Threads
  <1>1. /\ Len(ring) \in Nat /\ tail \in 1..Len(ring) /\ ring[tail] \in Buffer
        /\ arg[t] \in Msg /\ TypeOK /\ TypeOK'
    BY LenProperties, ElementOfSeq DEF IInv, TypeOK, AppendOk
  <1>2. /\ ring' = [ring EXCEPT ![tail] = Add(ring[tail], arg[t])]
        /\ tail' = tail /\ pc' = [pc EXCEPT ![t] = "check"]
    BY DEF AppendOk
  <1>3. pc'[Worker] = pc[Worker]
    BY <1>1, <1>2 DEF TypeOK
  <1>4. ~(tail = 1 /\ pc[Worker] = "release")
    BY DEF IInv, OneDriver, RingInv, Driving
  <1>5. /\ Len(ring') = Len(ring)
        /\ ring'[tail] = Add(ring[tail], arg[t])
        /\ \A i \in 1..Len(ring) : i # tail => ring'[i] = ring[i]
    BY <1>1, <1>2 DEF TypeOK
  <1>6. \A i \in 0..tail - 1 : Waiting'[i] = Waiting[i]
    <2>1. tail - 1 \in Nat /\ tail - 1 <= Len(ring) /\ tail - 1 <= Len(ring')
      BY <1>1, <1>5
    <2>2. \A i \in 1..tail - 1 : ring'[i] = ring[i]
      BY <1>1, <1>5
    <2>3. \A i \in 1..tail - 1 : Piece(ring', pc'[Worker], i) = Piece(ring, pc[Worker], i)
      BY <1>3, <2>2 DEF Piece
    <2>4. QED
      BY <1>1, <2>1, <2>3, WaitingKept
  <1> DEFINE d == ring[tail].data
             q == Waiting[tail - 1]
  <1>7. Piece(ring, pc[Worker], tail) = d /\ Piece(ring', pc'[Worker], tail) = Append(d, arg[t])
    BY <1>3, <1>4, <1>5 DEF Piece, Add
  <1>8. /\ Waiting[tail] = Waiting[tail - 1] \o d
        /\ Waiting'[tail] = Waiting'[tail - 1] \o Append(d, arg[t])
        /\ Waiting[tail - 1] \in Seq(Msg)
    <2>1. tail \in 1..Len(ring') /\ tail - 1 \in 0..Len(ring)
      BY <1>1, <1>5
    <2>2. QED
      BY <1>1, <1>7, <2>1, QueueHolds DEF Holds
  <1>9. Waiting'[tail - 1] = q /\ d \in Seq(Msg) /\ q \in Seq(Msg)
    <2>1. tail - 1 \in 0..tail - 1
      BY <1>1
    <2>2. Waiting'[tail - 1] = Waiting[tail - 1]
      BY <1>6, <2>1
    <2>3. d \in Seq(Msg)
      BY <1>1 DEF Buffer
    <2>4. QED
      BY <1>8, <2>2, <2>3
  <1>10. q \o Append(d, arg[t]) = Append(q \o d, arg[t])
    <2> HIDE DEF q, d
    <2>1. Append(d, arg[t]) = d \o <<arg[t]>> /\ Append(q \o d, arg[t]) = (q \o d) \o <<arg[t]>>
      BY <1>1, <1>9, AppendIsConcat, ConcatProperties
    <2>2. <<arg[t]>> \in Seq(Msg)
      BY <1>1
    <2>3. QED
      BY <1>9, <2>1, <2>2, ConcatAssociative
  <1>11. QED
    BY <1>1, <1>2, <1>8, <1>9, <1>10 DEF Queue

\* Moving _tail to an empty buffer adds nothing.
LEMMA NextBufferQueue ==
  ASSUME IInv, IInv', NextBuffer, pc'[Worker] = pc[Worker]
  PROVE  Queue' = Queue
  <1>1. Len(ring) \in Nat /\ tail \in 1..Len(ring) /\ TypeOK /\ TypeOK'
    BY LenProperties DEF IInv, TypeOK
  <1>2. /\ ring' \in Seq(Buffer) /\ Len(ring') >= Len(ring)
        /\ tail' \in 2..Len(ring') /\ tail' = tail + 1
        /\ \A i \in 1..Len(ring) : ring'[i] = ring[i]
        /\ \A i \in 1..Len(ring') : i > tail => ring'[i] = Empty
    BY NextBufferRing DEF IInv, RingInv
  <1>3. Len(ring') \in Nat
    BY <1>2, LenProperties
  <1>4. \A i \in 1..tail : ring'[i] = ring[i]
    BY <1>1, <1>2
  <1>5. \A i \in 0..tail : Waiting'[i] = Waiting[i]
    <2>1. \A i \in 1..tail : Piece(ring', pc'[Worker], i) = Piece(ring, pc[Worker], i)
      BY <1>4 DEF Piece
    <2>2. tail \in Nat /\ tail <= Len(ring) /\ tail <= Len(ring')
      BY <1>1, <1>2, <1>3
    <2>3. QED
      BY <1>1, <2>1, <2>2, WaitingKept
  <1>6. Piece(ring', pc'[Worker], tail + 1) = <<>>
    <2>1. tail + 1 \in 1..Len(ring') /\ tail + 1 > tail /\ tail + 1 # 1
      BY <1>1, <1>2, <1>3
    <2>2. ring'[tail + 1] = Empty
      BY <1>2, <2>1
    <2>3. QED
      BY <2>1, <2>2, EmptyBuffer DEF Piece
  <1>7. Waiting'[tail + 1] = Waiting'[tail] \o <<>> /\ Waiting'[tail] \in Seq(Msg)
    <2>1. tail + 1 \in 1..Len(ring') /\ (tail + 1) - 1 = tail /\ tail \in 0..Len(ring')
      BY <1>1, <1>2, <1>3
    <2>2. Waiting'[tail + 1] = Waiting'[(tail + 1) - 1] \o Piece(ring', pc'[Worker], tail + 1)
      BY <1>1, <2>1, QueueHolds DEF Holds
    <2>3. Waiting'[tail] \in Seq(Msg)
      BY <1>1, <2>1, QueueHolds DEF Holds
    <2>4. QED
      BY <1>6, <2>1, <2>2, <2>3
  <1>8. Waiting'[tail'] = Waiting[tail]
    BY <1>1, <1>2, <1>5, <1>7, ConcatEmptySeq
  <1>9. QED
    BY <1>8 DEF Queue

\* The worker takes what *_head holds from the front of the queue.
LEMMA CompletionQueue ==
  ASSUME IInv, IInv', Completed(Worker)
  PROVE  /\ flight \in 1..Len(Queue)
         /\ SubSeq(ring[1].data, 1, flight) = SubSeq(Queue, 1, flight)
         /\ Queue' = SubSeq(Queue, flight + 1, Len(Queue))
  <1> USE SendAssumption DEF Threads
  <1> DEFINE h == ring[1].data
  <1>1. /\ Len(ring) \in Nat /\ Len(ring) >= 1 /\ tail \in 1..Len(ring) /\ TypeOK /\ TypeOK'
        /\ ring \in Seq(Buffer)
        /\ ring' = ring /\ tail' = tail /\ pc[Worker] = "idle" /\ pc'[Worker] = "release"
    BY LenProperties DEF IInv, TypeOK, Completed
  <1>2. h \in Seq(Msg) /\ flight = Len(h) /\ flight > 0 /\ Len(h) \in Nat
    <2>1. ring[1] \in Buffer
      BY <1>1, ElementOfSeq DEF TypeOK
    <2>2. QED
      BY <2>1, LenProperties DEF Buffer, IInv, NoEmptySend, Completed
  <1>3. /\ Holds(Waiting, ring, pc[Worker], Len(ring))
        /\ Holds(Waiting', ring, "release", Len(ring))
    BY <1>1, QueueHolds
  <1>4. Waiting[tail] = h \o Waiting'[tail]
    <2>1. pc[Worker] # "release"
      BY <1>1
    <2>2. InFront(h, Waiting, Waiting', Len(ring))
      BY <1>1, <1>3, <2>1, HeadHolds
    <2>3. QED
      <3> HIDE DEF h
      <3> QED BY <1>1, <2>2 DEF InFront
  <1>5. Waiting'[tail] \in Seq(Msg)
    <2>1. tail \in 0..Len(ring)
      BY <1>1
    <2>2. QED
      BY <1>3, <2>1 DEF Holds
  <1>6. Queue = h \o Queue' /\ Queue' \in Seq(Msg)
    BY <1>1, <1>4, <1>5 DEF Queue
  <1> HIDE DEF h
  <1>7. Len(Queue) = Len(h) + Len(Queue') /\ Len(Queue') \in Nat
    BY <1>2, <1>6, ConcatProperties, LenProperties
  <1>8. /\ SubSeq(Queue, 1, Len(h)) = h
        /\ SubSeq(Queue, Len(h) + 1, Len(Queue)) = Queue'
    BY <1>2, <1>6, ConcatSplits
  <1>9. SubSeq(h, 1, Len(h)) = h
    BY <1>2, SubSeqFull
  <1>10. flight \in 1..Len(Queue)
    BY <1>2, <1>7
  <1>11. QED
    BY <1>2, <1>8, <1>9, <1>10 DEF h

\* Release clears what has left the queue already.
LEMMA SendedReleaseQueue ==
  ASSUME IInv, IInv', SendedRelease
  PROVE  Queue' = Queue
  <1> USE SendAssumption DEF Threads
  <1>1. /\ Len(ring) \in Nat /\ Len(ring) >= 1 /\ tail \in 1..Len(ring) /\ TypeOK /\ TypeOK'
        /\ tail' = tail /\ pc[Worker] = "release" /\ pc'[Worker] = "advance"
    BY LenProperties DEF IInv, TypeOK, SendedRelease
  <1>2. /\ Len(ring') = Len(ring) /\ ring'[1] = Empty
        /\ \A i \in 2..Len(ring) : ring'[i] = ring[i]
    BY ClearedRing DEF SendedRelease, IInv, TypeOK
  <1>3. ASSUME NEW i \in 1..tail PROVE Piece(ring', pc'[Worker], i) = Piece(ring, pc[Worker], i)
    <2>1. CASE i = 1
      BY <1>1, <1>2, <2>1, EmptyBuffer DEF Piece
    <2>2. CASE i # 1
      <3>1. i \in 2..Len(ring)
        BY <1>1, <2>2
      <3>2. QED
        BY <1>2, <2>2, <3>1 DEF Piece
    <2>3. QED
      BY <2>1, <2>2
  <1>4. \A i \in 0..tail : Waiting'[i] = Waiting[i]
    BY <1>1, <1>2, <1>3, WaitingKept
  <1>5. QED
    BY <1>1, <1>4 DEF Queue

\* _head moves past an empty buffer; _tail, if it moves with it, goes to one.
LEMMA SendedAdvanceQueue ==
  ASSUME IInv, IInv', SendedAdvance
  PROVE  Queue' = Queue
  <1> USE SendAssumption DEF Threads
  <1> DEFINE n == Len(ring)
  <1>1. /\ n \in Nat /\ n >= 1 /\ tail \in 2..n /\ TypeOK /\ TypeOK' /\ ring \in Seq(Buffer)
        /\ ring' \in Seq(Buffer)
        /\ ring' = Rotated /\ pc[Worker] = "advance" /\ pc'[Worker] # "release"
        /\ ring[1] = Empty /\ TailRotated = tail - 1
    BY LenProperties
    DEF IInv, TypeOK, SendedAdvance, SendedStop, SendedNext, OneDriver, Driving, RingInv,
        HeadInv, TailRotated
  <1>2. /\ Len(ring') = n /\ ring'[n] = Empty
        /\ \A i \in 1..n - 1 : ring'[i] = ring[i + 1]
    BY <1>1, RotatedRing
  <1>3. \A i \in 0..n - 1 : Waiting'[i] = Waiting[i + 1]
    <2>1. /\ Holds(Waiting, ring, pc[Worker], Len(ring))
          /\ Holds(Waiting', ring', pc'[Worker], Len(ring))
      BY <1>1, <1>2, QueueHolds
    <2>2. pc[Worker] # "release"
      BY <1>1
    <2>3. QED
      <3>1. /\ ring \in Seq(Buffer) /\ ring' \in Seq(Buffer) /\ Len(ring) >= 1
            /\ ring[1] = Empty /\ pc'[Worker] # "release"
            /\ \A i \in 1..Len(ring) - 1 : ring'[i] = ring[i + 1]
        BY <1>1, <1>2
      <3>2. QED
        BY ONLY <2>1, <2>2, <3>1, RotatedHolds
  <1>4. Waiting'[tail - 1] = Waiting[tail]
    <2>1. tail - 1 \in 0..n - 1 /\ (tail - 1) + 1 = tail
      <3> HIDE DEF n
      <3> QED BY <1>1
    <2>2. QED
      BY <1>3, <2>1
  <1>5. CASE tail' = tail - 1
    BY <1>4, <1>5 DEF Queue
  <1>6. CASE tail' # tail - 1
    <2>1. SendedNext
      BY <1>1, <1>6 DEF SendedAdvance, SendedStop
    <2>2. tail - 1 = 1 /\ tail' = 2 /\ 2 \in 1..n
      <3>1. tail' = TailPastHead
        BY <2>1 DEF SendedNext
      <3>2. n \in Nat /\ n # 1 /\ 2 \in 1..n
        <4> HIDE DEF n
        <4> QED BY <1>1
      <3>3. TailPastHead = IF tail - 1 # 1 THEN tail - 1 ELSE 2
        BY <1>1, <3>2 DEF TailPastHead
      <3>4. QED
        BY <1>6, <3>1, <3>2, <3>3
    <2>3. ring'[2] = Empty
      <3>1. CASE n = 2
        BY <1>2, <3>1
      <3>2. CASE n # 2
        <4>1. 2 \in 1..n - 1 /\ 3 \in 1..n /\ 3 > tail
          <5> HIDE DEF n
          <5> QED BY <1>1, <2>2, <3>2
        <4>2. ring'[2] = ring[3] /\ ring[3] = Empty
          BY <1>2, <4>1 DEF IInv, RingInv
        <4>3. QED
          BY <4>2
      <3>3. QED
        BY <3>1, <3>2
    <2>4. Waiting'[2] = Waiting'[1] \o <<>> /\ Waiting'[1] \in Seq(Msg)
      <3>1. Holds(Waiting', ring', pc'[Worker], n)
        BY <1>1, <1>2, QueueHolds
      <3>2. Piece(ring', pc'[Worker], 2) = <<>>
        BY <2>3, EmptyBuffer DEF Piece
      <3>3. 2 - 1 = 1 /\ 1 \in 0..n
        <4> HIDE DEF n
        <4> QED BY <1>1
      <3>4. Waiting'[2] = Waiting'[2 - 1] \o Piece(ring', pc'[Worker], 2)
        <4> HIDE DEF n
        <4> QED BY <2>2, <3>1 DEF Holds
      <3>5. Waiting'[1] \in Seq(Msg)
        <4> HIDE DEF n
        <4> QED BY <3>1, <3>3 DEF Holds
      <3>6. QED
        BY <3>2, <3>3, <3>4, <3>5
    <2>5. Waiting'[2] = Waiting'[1]
      BY <2>4, ConcatEmptySeq
    <2>6. Waiting'[tail'] = Waiting[tail]
      BY <1>4, <2>2, <2>5
    <2>7. QED
      BY <2>6 DEF Queue
  <1>7. QED
    BY <1>5, <1>6

\* Every step of the send side is a step of the stream, or none of its.
LEMMA StreamStep ==
  ASSUME IInv, IInv', [Next]_vars
  PROVE  [Stream!Next]_Stream!vars
  <1> USE SendAssumption DEF Threads
  <1>0. TypeOK /\ TypeOK'
    BY DEF IInv
  <1>1. ASSUME Queue' = Queue, wire' = wire, conn' = conn
        PROVE  UNCHANGED Stream!vars
    BY <1>1 DEF Stream!vars
  <1>2. ASSUME Queue' = Queue, wire' = wire, conn' # "up"
        PROVE  Stream!Break
    BY <1>2 DEF Stream!Break
  <1>3. ASSUME NEW t \in Senders, NEW m \in Msg, SendLock(t, m)
        PROVE  UNCHANGED Stream!vars
    <2>1. pc'[Worker] = pc[Worker]
      BY <1>0, <1>3 DEF SendLock, TypeOK
    <2>2. QED
      BY <1>0, <1>1, <1>3, <2>1, QueueKept DEF SendLock
  <1>4. ASSUME NEW t \in Senders, AppendOk(t)
        PROVE  Stream!Next
    <2>1. arg[t] \in Msg /\ Queue' = Append(Queue, arg[t])
      BY <1>4, AppendOkQueue
    <2>2. wire' = wire /\ conn' = conn
      BY <1>4 DEF AppendOk
    <2>3. Stream!Accept(arg[t])
      BY <2>1, <2>2 DEF Stream!Accept
    <2>4. QED
      BY <2>1, <2>3 DEF Stream!Next
  <1>5. ASSUME NEW t \in Senders, AppendFull(t)
        PROVE  UNCHANGED Stream!vars
    BY <1>1, <1>5, NextBufferQueue DEF AppendFull
  <1>6. ASSUME NEW t \in Senders, LeavePending(t)
        PROVE  UNCHANGED Stream!vars
    <2>1. pc'[Worker] = pc[Worker]
      BY <1>0, <1>6 DEF LeavePending, TypeOK
    <2>2. QED
      BY <1>0, <1>1, <1>6, <2>1, QueueKept DEF LeavePending
  <1>7. ASSUME NEW t \in Senders, StartSend(t)
        PROVE  UNCHANGED Stream!vars
    <2>1. pc'[Worker] = pc[Worker]
      BY <1>0, <1>7 DEF StartSend, TypeOK
    <2>2. QED
      BY <1>1, <1>7, <2>1, NextBufferQueue DEF StartSend
  <1>8. ASSUME NEW t \in Threads, Post(t)
        PROVE  Stream!Break \/ UNCHANGED Stream!vars
    <2>1. ring' = ring /\ tail' = tail /\ wire' = wire /\ pc[t] = "post" /\ pc' = [pc EXCEPT ![t] = "idle"]
      BY <1>8 DEF Post, PostOk, PostFail
    <2>2. Queue' = Queue
      BY <1>0, <2>1, QueueKept DEF TypeOK
    <2>3. conn' = conn \/ conn' # "up"
      BY <1>8 DEF Post, PostOk, PostFail
    <2>4. QED
      BY <1>1, <1>2, <2>1, <2>2, <2>3
  <1>9. CASE Completion
    <2>1. Completed(Worker)
      BY <1>9 DEF Completion, CompletedOk, CompletedAborted
    <2>2. /\ flight \in 1..Len(Queue)
          /\ SubSeq(ring[1].data, 1, flight) = SubSeq(Queue, 1, flight)
          /\ Queue' = Stream!Rest(flight)
      BY <2>1, CompletionQueue DEF Stream!Rest
    <2>3. conn' = conn
      BY <2>1 DEF Completed
    <2>4. CASE CompletedOk
      <3>1. wire' = wire \o SubSeq(Queue, 1, flight)
        BY <2>2, <2>4 DEF CompletedOk
      <3>2. Stream!Transmit(flight)
        BY <2>2, <2>3, <3>1 DEF Stream!Transmit
      <3>3. QED
        BY <2>2, <3>2 DEF Stream!Next
    <2>5. CASE CompletedAborted
      <3>1. Stream!Lose(flight)
        BY <2>2, <2>3, <2>5 DEF CompletedAborted, Stream!Lose
      <3>2. QED
        BY <2>2, <3>1 DEF Stream!Next
    <2>6. QED
      BY <1>9, <2>4, <2>5 DEF Completion
  <1>10. CASE Sended
    <2>1. wire' = wire /\ conn' = conn
      BY <1>10 DEF Sended, SendedRelease, SendedAdvance
    <2>2. Queue' = Queue
      BY <1>10, SendedReleaseQueue, SendedAdvanceQueue DEF Sended
    <2>3. QED
      BY <1>1, <2>1, <2>2
  <1>11. CASE Cancel \/ PeerReset \/ UNCHANGED vars
    <2>1. ring' = ring /\ tail' = tail /\ wire' = wire /\ pc' = pc /\ (conn' = conn \/ conn' # "up")
      BY <1>11 DEF Cancel, PeerReset, vars
    <2>2. Queue' = Queue
      BY <1>0, <2>1, QueueKept
    <2>3. Stream!Break \/ UNCHANGED Stream!vars
      BY <1>1, <1>2, <2>1, <2>2
    <2>4. QED
      BY <2>3 DEF Stream!Next
  <1>12. CASE \E t \in Senders : SendStep(t)
    BY <1>4, <1>5, <1>6, <1>7, <1>12 DEF SendStep
  <1>13. CASE \E t \in Senders : \E m \in Msg : SendLock(t, m)
    BY <1>3, <1>13
  <1>14. CASE \E t \in Threads : Post(t)
    BY <1>8, <1>14 DEF Stream!Next
  <1>15. CASE Next
    BY <1>9, <1>10, <1>11, <1>12, <1>13, <1>14, <1>15 DEF Next
  <1>16. QED
    BY <1>11, <1>15

\* Send, _Send and Sended implement the byte stream of SendStream for any
\* number of senders, any packets that fit a buffer and however the ring grows:
\* nothing is lost, repeated or overtaken while the connection is up, and what
\* is lost afterwards is lost from the front.
THEOREM SendImplementsStream == ASSUME Fits PROVE Spec => ImplementsStream
  <1>1. Init => Stream!Init
    <2> SUFFICES ASSUME Init PROVE Stream!Init
      OBVIOUS
    <2>1. TypeOK /\ tail = 1 /\ Len(ring) = 1 /\ ring[1] = Empty /\ wire = <<>> /\ conn = "up"
      BY InitIInv DEF Init, IInv
    <2>2. Piece(ring, pc[Worker], 1) = <<>>
      BY <2>1, EmptyBuffer DEF Piece
    <2>3. Waiting[1] = Waiting[0] \o Piece(ring, pc[Worker], 1) /\ Waiting[0] = <<>>
      <3>1. Holds(Waiting, ring, pc[Worker], 1)
        BY <2>1, QueueHolds
      <3>2. 1 \in 1..1 /\ 1 - 1 = 0
        OBVIOUS
      <3>3. Waiting[1] = Waiting[1 - 1] \o Piece(ring, pc[Worker], 1) /\ Waiting[0] = <<>>
        BY <3>1, <3>2 DEF Holds
      <3>4. QED
        BY <3>2, <3>3
    <2>4. Queue = <<>>
      BY <2>1, <2>2, <2>3, ConcatEmptySeq, EmptySeq DEF Queue
    <2>5. QED
      BY <2>1, <2>4 DEF Stream!Init
  <1>2. IInv /\ IInv' /\ [Next]_vars => [Stream!Next]_Stream!vars
    BY StreamStep
  <1>3. QED
    BY <1>1, <1>2, Invariance, PTL DEF Spec, ImplementsStream, Stream!Spec
=============================================================================
