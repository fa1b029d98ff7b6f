----------------------------- MODULE RecvFraming -----------------------------
(***************************************************************************)
(* HNetIoRecv (HNetIo.cpp:316-504): how one session cuts the byte stream   *)
(* of its peer into packets.  One WSARecv is outstanding at a time; the    *)
(* worker thread that dequeues its completion runs Recved, which delivers  *)
(* every whole packet, keeps what is left and posts the next WSARecv.      *)
(*                                                                         *)
(* A byte is its position in the peer's stream, and 0 is a byte that was   *)
(* never received, so that a copy that goes wrong shows.  RecvJobs adds    *)
(* the single-thread mode and the specification.  A definition named X_Y   *)
(* is X with the defect Y; no specification uses it.                       *)
(***************************************************************************)
EXTENDS Integers, Sequences

CONSTANTS Threads,       \* I/O worker threads
          Sizes,         \* what the peer may write in a packet's _size
          HeaderSize,    \* sizeof(HNetPacket)
          MaxSize,       \* HNetPacket::MAX_SIZE, also _size of the buffer
          MaxPackets,    \* bound: packets the peer sends
          OtherLens      \* lengths other sessions leave in t_wsaBuf.len

ASSUME RecvAssumption ==
    /\ Sizes \subseteq Nat \ {0}
    /\ HeaderSize \in Nat \ {0} /\ MaxSize \in Nat /\ HeaderSize <= MaxSize
    /\ MaxPackets \in Nat
    /\ OtherLens \subseteq 1..MaxSize

VARIABLES begin,       \* _begin
          end,         \* _end
          buf,         \* _buf
          len,         \* t_wsaBuf.len, a variable of each thread
          state,       \* "posted", "handling", "rearm", "closed" or "overrun"
          thread,      \* the thread in Recved
          window,      \* length given to the outstanding WSARecv
          bytes,       \* the argument and loop variable of Completed
          incomplete,  \* the local variable of Completed
          packets,     \* the sizes of the packets the peer sent
          fin,         \* the peer closed its side
          taken,       \* stream position up to which the kernel filled buffers
          delivered    \* the packets given to _OnMessage

recvVars == <<begin, end, buf, len, window>>
loopVars == <<state, thread, bytes, incomplete>>
peerVars == <<packets, fin>>
vars == <<recvVars, loopVars, peerVars, taken, delivered>>

Smaller(a, b) == IF a < b THEN a ELSE b

\* Stream position before packet k + 1.
Start[k \in 0..Len(packets)] == IF k = 0 THEN 0 ELSE Start[k - 1] + packets[k]
StreamEnd == Start[Len(packets)]
Handled == Start[Len(delivered)]

Init == /\ begin = 0 /\ end = 0
        /\ buf = [i \in 0..MaxSize - 1 |-> 0]
        /\ thread \in Threads
        /\ len = [t \in Threads |-> IF t = thread THEN MaxSize ELSE 0]
        /\ state = "posted" /\ window = MaxSize
        /\ bytes = 0 /\ incomplete = 0
        /\ packets = <<>> /\ fin = FALSE
        /\ taken = 0 /\ delivered = <<>>

(***************************************************************************)
(* The peer and the other sessions of the same threads                     *)
(***************************************************************************)
PeerSend(s) == /\ ~fin /\ Len(packets) < MaxPackets
               /\ packets' = Append(packets, s)
               /\ UNCHANGED <<recvVars, loopVars, fin, taken, delivered>>

PeerClose == /\ ~fin /\ fin' = TRUE
             /\ UNCHANGED <<recvVars, loopVars, packets, taken, delivered>>

\* t_wsaBuf is shared by all sessions whose completions thread t handles.  When this one
\* has ended it no longer matters.
OtherSession(t, n) == /\ state \notin {"closed", "overrun"}
                      /\ t # thread \/ state = "posted"
                      /\ len' = [len EXCEPT ![t] = n]
                      /\ UNCHANGED <<begin, end, buf, window, loopVars, peerVars, taken, delivered>>

(***************************************************************************)
(* The outstanding WSARecv                                                 *)
(***************************************************************************)
Available == StreamEnd - taken

Receive(t, n) ==
    /\ state = "posted" /\ n <= Smaller(window, Available) /\ end + n <= MaxSize
    /\ buf' = [i \in 0..MaxSize - 1 |->
                 IF end <= i /\ i < end + n THEN taken + i - end + 1 ELSE buf[i]]
    /\ taken' = taken + n
    /\ state' = "handling" /\ thread' = t
    /\ bytes' = n
    /\ incomplete' = (end - begin) + n
    /\ UNCHANGED <<begin, end, len, window, peerVars, delivered>>

\* The window was longer than the rest of _buf and the peer had sent as much: the kernel
\* writes over what follows _buf.  Nothing is said of the session after that.
Overrun(n) == /\ state = "posted" /\ n <= Smaller(window, Available) /\ end + n > MaxSize
              /\ state' = "overrun"
              /\ UNCHANGED <<recvVars, thread, bytes, incomplete, peerVars, taken, delivered>>

\* 0 == bytes in Recved: Disconnect
ReceiveNothing == /\ state = "posted"
                  /\ window = 0 \/ (fin /\ Available = 0)
                  /\ state' = "closed"
                  /\ UNCHANGED <<recvVars, thread, bytes, incomplete, peerVars, taken, delivered>>

(***************************************************************************)
(* Completed: one action per turn of its loop                              *)
(***************************************************************************)
LeaveCompleted(s) == state' = s /\ bytes' = 0 /\ incomplete' = 0
Looping == state = "handling" /\ bytes # 0
HasHeader_OffByOne == incomplete > HeaderSize
HasHeader == incomplete >= HeaderSize

\* packet->Size(): the _size the peer wrote, if _begin is at a packet
AtPacket == \E k \in 1..Len(packets) : buf[begin] = Start[k - 1] + 1
PacketSize == IF AtPacket
              THEN packets[CHOOSE k \in 1..Len(packets) : buf[begin] = Start[k - 1] + 1]
              ELSE 0
Check == HeaderSize <= PacketSize /\ PacketSize <= MaxSize

KeepRest_Overwrites == UNCHANGED end
KeepRest == end' = end + bytes

Keep == /\ Looping
        /\ ~HasHeader \/ (Check /\ PacketSize > incomplete)
        /\ KeepRest
        /\ LeaveCompleted("rearm")
        /\ UNCHANGED <<begin, buf, len, window, thread, peerVars, taken, delivered>>

BadPacket == /\ Looping /\ HasHeader /\ ~Check
             /\ LeaveCompleted("closed")
             /\ UNCHANGED <<recvVars, thread, peerVars, taken, delivered>>

Rest == bytes - (PacketSize - (end - begin))

Deliver == /\ Looping /\ HasHeader /\ Check /\ PacketSize <= incomplete
           /\ delivered' = Append(delivered, [i \in 1..PacketSize |-> buf[begin + i - 1]])
           /\ bytes' = Rest
           /\ incomplete' = incomplete - PacketSize
           /\ begin' = begin + PacketSize
           /\ end' = begin'
           /\ UNCHANGED <<buf, len, window, state, thread, peerVars, taken>>

LoopEnds == /\ state = "handling" /\ bytes = 0
            /\ LeaveCompleted("rearm")
            /\ UNCHANGED <<recvVars, thread, peerVars, taken, delivered>>

(***************************************************************************)
(* Recv: PrepareBuffer and WSARecv                                         *)
(***************************************************************************)
BufferEmpty == /\ begin = end
               /\ begin' = 0 /\ end' = 0
               /\ len' = [len EXCEPT ![thread] = MaxSize]
               /\ UNCHANGED buf

\* _begin = 0 before the memcpy
MoveToFront_ResetFirst == /\ begin # end /\ begin # 0
                          /\ begin' = 0
                          /\ end' = end - begin
                          /\ len' = [len EXCEPT ![thread] = MaxSize - (end - begin)]
                          /\ UNCHANGED buf

\* memcpy forwards to a lower address; MSVC's copes with the overlap
MoveToFront == /\ begin # end /\ begin # 0
               /\ begin' = 0
               /\ end' = end - begin
               /\ buf' = [i \in 0..MaxSize - 1 |->
                            IF i < end - begin THEN buf[begin + i] ELSE buf[i]]
               /\ len' = [len EXCEPT ![thread] = MaxSize - (end - begin)]

\* neither branch of PrepareBuffer: t_wsaBuf.len keeps what it has
AtFront == /\ begin # end /\ begin = 0
           /\ UNCHANGED <<begin, end, buf, len>>

PrepareBuffer == BufferEmpty \/ MoveToFront \/ AtFront

Recv == /\ state = "rearm"
        /\ PrepareBuffer
        /\ window' = len'[thread]
        /\ state' = "posted"
        /\ UNCHANGED <<thread, bytes, incomplete, peerVars, taken, delivered>>

\* IsDisconnect, or WSARecv fails at once
RecvFails == /\ state = "rearm"
             /\ PrepareBuffer \/ UNCHANGED <<begin, end, buf, len>>
             /\ state' = "closed"
             /\ UNCHANGED <<window, thread, bytes, incomplete, peerVars, taken, delivered>>

Completed == Keep \/ BadPacket \/ Deliver \/ LoopEnds

-----------------------------------------------------------------------------
(***************************************************************************)
(* Properties                                                              *)
(***************************************************************************)
\* The position at which a packet's header is read holds the first byte of the next
\* packet, and the bytes up to the end of what was received follow it.
Aligned ==
    Looping => \A i \in 0..incomplete - 1 : buf[begin + i] = Handled + i + 1

\* _OnMessage gets the peer's packets, whole and in order.
InOrder ==
    \A k \in 1..Len(delivered) :
        delivered[k] = [i \in 1..packets[k] |-> Start[k - 1] + i]

\* When the session waits for more bytes, it has no whole packet left to deliver.
NoneWithheld ==
    state = "posted" =>
        \/ taken - Handled < HeaderSize
        \/ taken < Start[Len(delivered) + 1]

\* WSARecv is given the rest of the buffer: room for every packet Check accepts.
WindowIsRest == state = "posted" => window = MaxSize - end
=============================================================================
