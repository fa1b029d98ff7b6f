------------------------------ MODULE SendQueue ------------------------------
(***************************************************************************)
(* HNetIoSend (HNetIo.cpp:545-757): the send side of one session, from     *)
(* Initialize to the end of the connection.  Any number of threads call    *)
(* Send; one WSASend at a time is outstanding, and the worker thread that  *)
(* dequeues its completion runs Sended.  Packets wait in a ring of         *)
(* Gathering buffers which grows and never shrinks.                        *)
(*                                                                         *)
(* `ring' lists the buffers from *_head along _next, so that ring[1] is    *)
(* *_head, the last element's _next is ring[1], and `tail' is the index of *)
(* *_tail.  A step of a thread is what it does between two points at which *)
(* another thread can observe it: `_head->Release()' and the reads in      *)
(* _Send are outside the lock.  A definition named X_Y is X with the       *)
(* defect Y: no specification uses it, it shows that a property would      *)
(* notice.                                                                 *)
(***************************************************************************)
EXTENDS Naturals, Sequences

CONSTANTS Senders,      \* threads that call HNetSession::Send
          Worker,       \* the I/O thread that runs Sended
          Msg,          \* packets
          Size,         \* Size[m]: length of packet m in bytes
          MaxSize,      \* HNetPacket::MAX_SIZE
          MaxAccepted,  \* bound: packets accepted in a behaviour
          None

Threads == Senders \cup {Worker}

\* Check (HNetPacket.cpp:23-33) lets every size up to MAX_SIZE through.
ASSUME SendAssumption ==
    /\ MaxSize \in Nat \ {0}
    /\ Size \in [Msg -> 1..MaxSize]
    /\ Worker \notin Senders
    /\ None \notin Threads
    /\ None \notin Nat
    /\ MaxAccepted \in Nat

\* The packets that fit an empty buffer: Append refuses MaxSize itself.
Fits == \A m \in Msg : Size[m] < MaxSize

VARIABLES ring,      \* the Gathering buffers from _head along _next
          tail,      \* the index of _tail in ring
          pending,   \* _pending
          owner,     \* the thread that holds _lock, or None
          pc,        \* where each thread is
          arg,       \* the packet a sender is in Send with
          flight,    \* packets of the outstanding WSASend, or None
          conn,      \* "up", "cancelled" (CancelIoEx was called) or "reset"
          wire,      \* packets the peer's TCP has received
          accepted   \* history: packets appended to the ring

vars == <<ring, tail, pending, owner, pc, arg, flight, conn, wire, accepted>>

Buffer == [data : Seq(Msg), lenth : Nat]
Empty == [data |-> <<>>, lenth |-> 0]
HasRoom(b, m) == Size[m] + b.lenth < MaxSize
Add(b, m) == [data |-> Append(b.data, m), lenth |-> b.lenth + Size[m]]

\* Gathering::Release on *_head
Cleared_NoRelease == ring
Cleared == [ring EXCEPT ![1] = Empty]

\* _head = _head->_next: the list starts one buffer later
Rotated == [i \in 1..Len(ring) |-> IF i = Len(ring) THEN ring[1] ELSE ring[i + 1]]

Init == /\ ring = <<Empty>>
        /\ tail = 1
        /\ pending = FALSE
        /\ owner = None
        /\ pc = [t \in Threads |-> "idle"]
        /\ arg = [t \in Senders |-> None]
        /\ flight = None
        /\ conn = "up"
        /\ wire = <<>>
        /\ accepted = 0

NextBuffer_Unlinked == ring' = ring /\ tail' = tail + 1
NextBuffer == /\ ring' = IF tail = Len(ring) THEN Append(ring, Empty) ELSE ring
              /\ tail' = tail + 1

(***************************************************************************)
(* Send, by an application or I/O thread                                   *)
(***************************************************************************)
SendLock(t, m) ==
    /\ pc[t] = "idle" /\ owner = None /\ accepted < MaxAccepted
    /\ owner' = t
    /\ arg' = [arg EXCEPT ![t] = m]
    /\ pc' = [pc EXCEPT ![t] = "append"]
    /\ UNCHANGED <<ring, tail, pending, flight, conn, wire, accepted>>

AppendOk(t) ==
    /\ pc[t] = "append" /\ HasRoom(ring[tail], arg[t])
    /\ ring' = [ring EXCEPT ![tail] = Add(@, arg[t])]
    /\ accepted' = accepted + 1
    /\ pc' = [pc EXCEPT ![t] = "check"]
    /\ UNCHANGED <<tail, pending, owner, arg, flight, conn, wire>>

AppendFull(t) ==
    /\ pc[t] = "append" /\ ~HasRoom(ring[tail], arg[t])
    /\ NextBuffer
    /\ UNCHANGED <<pending, owner, pc, arg, flight, conn, wire, accepted>>

\* a WSASend is outstanding: its completion will pick the packet up
LeavePending(t) ==
    /\ pc[t] = "check" /\ pending
    /\ owner' = None
    /\ arg' = [arg EXCEPT ![t] = None]
    /\ pc' = [pc EXCEPT ![t] = "idle"]
    /\ UNCHANGED <<ring, tail, pending, flight, conn, wire, accepted>>

StartSend_NoFlag(t) ==
    /\ pc[t] = "check" /\ ~pending
    /\ NextBuffer
    /\ owner' = None
    /\ arg' = [arg EXCEPT ![t] = None]
    /\ pc' = [pc EXCEPT ![t] = "post"]
    /\ UNCHANGED <<pending, flight, conn, wire, accepted>>

StartSend(t) ==
    /\ pc[t] = "check" /\ ~pending
    /\ pending' = TRUE
    /\ NextBuffer
    /\ owner' = None
    /\ arg' = [arg EXCEPT ![t] = None]
    /\ pc' = [pc EXCEPT ![t] = "post"]
    /\ UNCHANGED <<flight, conn, wire, accepted>>

(***************************************************************************)
(* _Send, by a sender or by the worker; the lock is not held               *)
(***************************************************************************)
PostOk(t) ==
    /\ pc[t] = "post" /\ conn # "reset"
    /\ flight' = Len(ring[1].data)
    /\ pc' = [pc EXCEPT ![t] = "idle"]
    /\ UNCHANGED <<ring, tail, pending, owner, arg, conn, wire, accepted>>

\* WSASend fails at once: Disconnect, and _pending stays TRUE for good
PostFail(t) ==
    /\ pc[t] = "post"
    /\ conn' = IF conn = "up" THEN "cancelled" ELSE conn
    /\ pc' = [pc EXCEPT ![t] = "idle"]
    /\ UNCHANGED <<ring, tail, pending, owner, arg, flight, wire, accepted>>

(***************************************************************************)
(* The completion of the outstanding WSASend.  The kernel reads the buffer *)
(* any time before, so the peer gets what *_head holds now.  Worker (88-   *)
(* 109 of HNetIocp.cpp) calls Sended whether or not the I/O succeeded.     *)
(***************************************************************************)
Completed(t) ==
    /\ flight # None /\ pc[t] = "idle"
    /\ flight' = None
    /\ pc' = [pc EXCEPT ![t] = "release"]
    /\ UNCHANGED <<ring, tail, pending, owner, arg, conn, accepted>>

CompletedOk == /\ conn # "reset"
               /\ Completed(Worker)
               /\ wire' = wire \o SubSeq(ring[1].data, 1, flight)

CompletedAborted == conn # "up" /\ Completed(Worker) /\ UNCHANGED wire

(***************************************************************************)
(* Sended, by the worker                                                   *)
(***************************************************************************)
SendedRelease ==
    /\ pc[Worker] = "release"
    /\ ring' = Cleared
    /\ pc' = [pc EXCEPT ![Worker] = "advance"]
    /\ UNCHANGED <<tail, pending, owner, arg, flight, conn, wire, accepted>>

\* the index of *_tail once the list starts one buffer later
TailRotated == IF tail = 1 THEN Len(ring) ELSE tail - 1

\* 0 == _head->_lenth, of the new _head
NothingLeft_Always == TRUE
NothingLeft == Rotated[1].lenth = 0

\* if (_tail == _head) _tail = _tail->_next: senders leave the new _head alone
TailPastHead_Dropped == TailRotated
TailPastHead == IF TailRotated # 1 THEN TailRotated
                ELSE IF Len(ring) = 1 THEN 1 ELSE 2

SendedStop_KeepsPending == /\ NothingLeft
                           /\ tail' = TailRotated
                           /\ pc' = [pc EXCEPT ![Worker] = "idle"]
                           /\ UNCHANGED pending
SendedStop == /\ NothingLeft
              /\ tail' = TailRotated
              /\ pending' = FALSE
              /\ pc' = [pc EXCEPT ![Worker] = "idle"]

SendedNext == /\ ~NothingLeft
              /\ tail' = TailPastHead
              /\ pc' = [pc EXCEPT ![Worker] = "post"]
              /\ UNCHANGED pending

SendedAdvance ==
    /\ pc[Worker] = "advance" /\ owner = None
    /\ ring' = Rotated
    /\ SendedStop \/ SendedNext
    /\ UNCHANGED <<owner, arg, flight, conn, wire, accepted>>

(***************************************************************************)
(* What ends a connection: HNetSession::Cancel, or the peer                *)
(***************************************************************************)
Cancel == /\ conn = "up" /\ conn' = "cancelled"
          /\ UNCHANGED <<ring, tail, pending, owner, pc, arg, flight, wire, accepted>>

PeerReset == /\ conn # "reset" /\ conn' = "reset"
             /\ UNCHANGED <<ring, tail, pending, owner, pc, arg, flight, wire, accepted>>

SendStep(t) == AppendOk(t) \/ AppendFull(t) \/ LeavePending(t) \/ StartSend(t)
Post(t) == PostOk(t) \/ PostFail(t)
Completion == CompletedOk \/ CompletedAborted
Sended == SendedRelease \/ SendedAdvance

Next == \/ \E t \in Senders : SendStep(t) \/ \E m \in Msg : SendLock(t, m)
        \/ \E t \in Threads : Post(t)
        \/ Completion
        \/ Sended
        \/ Cancel
        \/ PeerReset

Spec == Init /\ [][Next]_vars

\* A thread that has entered Send or Sended is scheduled, and Windows
\* completes an overlapped send.  Nothing is assumed of the callers of Send.
Fairness == /\ \A t \in Senders : WF_vars(SendStep(t))
            /\ \A t \in Threads : WF_vars(Post(t))
            /\ WF_vars(Completion) /\ WF_vars(Sended)

FairSpec == Spec /\ Fairness

-----------------------------------------------------------------------------
(***************************************************************************)
(* Properties                                                              *)
(***************************************************************************)
\* Every variable keeps its type; in particular _tail is a buffer of the ring and
\* only a sender is ever seen holding the lock.
TypeOK == /\ ring \in Seq(Buffer) /\ Len(ring) >= 1
          /\ tail \in 1..Len(ring)
          /\ pending \in BOOLEAN
          /\ owner \in Senders \cup {None}
          /\ pc \in [Threads -> {"idle", "append", "check", "post", "release", "advance"}]
          /\ pc[Worker] \in {"idle", "release", "advance", "post"}
          /\ \A t \in Senders : pc[t] \in {"idle", "append", "check", "post"}
          /\ arg \in [Senders -> Msg \cup {None}]
          /\ \A t \in Senders : pc[t] \in {"append", "check"} => arg[t] \in Msg
          /\ flight \in Nat \cup {None}
          /\ conn \in {"up", "cancelled", "reset"}
          /\ wire \in Seq(Msg)
          /\ accepted \in Nat

\* Two threads are never between LockW and UnlockW of Send at once, and the
\* lock is held exactly by the one that is.
LockInv == \A t \in Senders : pc[t] \in {"append", "check"} <=> owner = t

\* t is the thread that has to issue the next WSASend
Driving(t) == pc[t] \in {"post", "release", "advance"}

\* _pending hands the head buffer to exactly one party: a thread about to call
\* WSASend, the outstanding WSASend, or the worker in Sended.  No second thread
\* issues a WSASend on the same OVERLAPPED, and Sended and _Send may therefore
\* read and clear *_head without the lock.
OneDriver ==
    /\ \A t \in Threads : Driving(t) => pending /\ flight = None
    /\ \A t, u \in Threads : Driving(t) /\ Driving(u) => t = u
    /\ flight # None => pending

\* _pending is never left TRUE with nobody to clear it, unless a WSASend failed
\* or was cancelled: otherwise every later packet would wait for ever.
NoStall ==
    pending /\ conn = "up" => flight # None \/ \E t \in Threads : Driving(t)

\* The ring is packets from _head to _tail and empty buffers after it: while a
\* send is under way _tail is never the buffer the kernel reads, and a buffer
\* in between is never empty, or Sended would stop with packets behind it.
RingInv ==
    /\ pending <=> tail # 1
    /\ \A i \in 1..Len(ring) : i > tail => ring[i] = Empty
    /\ \A i \in 2..Len(ring) : i < tail => ring[i].lenth > 0
    /\ \A i \in 1..Len(ring) : ring[i].lenth < MaxSize

\* The buffer given to WSASend is not touched until the completion: the peer
\* gets whole packets, and what WSASend was told to send.
BufferStable ==
    [][flight # None /\ flight' # None => ring'[1] = ring[1] /\ flight' = flight]_vars

\* WSASend is only issued with something to send.
NoEmptySend == flight # None => flight > 0 /\ flight = Len(ring[1].data)

\* An empty buffer takes any packet Check lets through, so that the loop of
\* Send (644-647) ends.
AppendTerminates ==
    \A t \in Senders : pc[t] = "append" /\ ring[tail] = Empty => HasRoom(ring[tail], arg[t])

\* What *_head holds: nothing when no send is under way, unless a sender has
\* just appended to it, and something from StartSend to Sended's Release.
HeadInv ==
    /\ \A i \in 1..Len(ring) : ring[i].lenth = 0 <=> ring[i] = Empty
    /\ \A i \in 1..Len(ring) : ring[i].data = <<>> => ring[i] = Empty
    /\ pending /\ pc[Worker] # "advance" => ring[1] # Empty
    /\ pending /\ pc[Worker] = "advance" => ring[1] = Empty
    /\ ~pending /\ (owner # None => pc[owner] = "append") => ring[1] = Empty
    /\ \A t \in Senders : pc[t] = "check" /\ ~pending => ring[1] # Empty

\* The inductive invariant.
IInv == TypeOK /\ LockInv /\ OneDriver /\ NoStall /\ RingInv /\ HeadInv /\ NoEmptySend

(***************************************************************************)
(* The abstract queue: the packets in the ring, from _head to _tail,       *)
(* without those the completed WSASend carried.                            *)
(***************************************************************************)
Waiting[i \in 0..Len(ring)] ==
    IF i = 0 THEN <<>>
    ELSE Waiting[i - 1] \o IF i = 1 /\ pc[Worker] = "release" THEN <<>> ELSE ring[i].data

Queue == Waiting[tail]

Stream == INSTANCE SendStream WITH queue <- Queue, up <- (conn = "up")

\* Send and Sended implement the FIFO byte stream of SendStream: no packet is
\* lost, repeated or overtaken on a connection that stays up.
ImplementsStream == Stream!Spec

\* Every packet Send accepted reaches the peer, unless the connection goes.
Delivered == \A n \in 1..MaxAccepted : accepted >= n ~> (Len(wire) >= n \/ conn # "up")
=============================================================================
