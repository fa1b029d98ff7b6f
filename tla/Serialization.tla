---------------------------- MODULE Serialization ----------------------------
(***************************************************************************)
(* A packet that one thread builds, sends and reuses, and that its         *)
(* receivers read: HNetPacketEx over HNET::LIB::Buffer, RefPacket, WsaSend *)
(* and the encryption of HNet.  The receiver casts the bytes it got to an  *)
(* HNetPacketEx, so it reads with the cursors the sender left.             *)
(*                                                                         *)
(* Bytes are not kept, only how many there are: an item is a scalar, or a  *)
(* string with its two bytes of length, and the buffer holds the items of  *)
(* `kept` and `fresh` one after the other.  A definition named X_Y is X    *)
(* with the defect Y; no specification uses it.                            *)
(***************************************************************************)
EXTENDS Integers, Sequences, SequencesExt

CONSTANTS BufferSize,  \* BUFFER_SIZE
          Word,        \* the values of a USHORT
          PacketHeader, \* sizeof(HNetPacket), sizeof(HNetWsPacket)
          Prefix,      \* PacketHeader + Buffer::Offset()
          MaxSize,     \* HNetPacket::MAX_SIZE
          Items,       \* what may be put: [bytes, string]
          MaxItems     \* bound: items in one packet

VARIABLES base,     \* _size of the packet when it is new
          size,     \* _size of the packet
          success, in, out, try,  \* of its Buffer (_try is _trySize)
          kept,     \* the items of the batches that Success has confirmed
          fresh,    \* the items put since
          torn,     \* a batch with a string was undone after another batch
          read,     \* the items the receiver has taken out
          xored,    \* how often the body was encrypted
          phase     \* "build", "sent", "cleared" or "fault"

cursors == <<success, in, out, try>>
ghosts == <<kept, fresh, torn, read>>
vars == <<base, size, cursors, ghosts, xored, phase>>

Bytes(items) == FoldLeft(LAMBDA n, x : n + x.bytes, 0, items)

\* HNetPacketEx corrects the size that operator new wrote.  HNetWsPacket's constructor
\* writes 0 over it, and HNetWsPacketEx, which then shows a message box, leaves it so.
PacketExSize == Prefix
WsPacketExSize == 0
NewSizes == {PacketExSize, WsPacketExSize}

\* new(_wsaSend) P, then Buffer::Clear
Fresh == /\ size' = base /\ success' = TRUE /\ in' = 0 /\ out' = 0 /\ try' = 0
         /\ kept' = <<>> /\ fresh' = <<>> /\ torn' = FALSE /\ read' = <<>>
         /\ xored' = 0 /\ phase' = "build" /\ UNCHANGED base

Init == /\ base \in NewSizes /\ size = base /\ success = TRUE /\ in = 0 /\ out = 0 /\ try = 0
        /\ kept = <<>> /\ fresh = <<>> /\ torn = FALSE /\ read = <<>>
        /\ xored = 0 /\ phase = "build"

(***************************************************************************)
(* The sender                                                              *)
(***************************************************************************)
\* _InString counts its two bytes of length, which _In has counted.
Tried(x) == x.bytes + IF x.string THEN 2 ELSE 0

PutOk(x) == /\ success /\ in + x.bytes <= BufferSize
            /\ in' = in + x.bytes /\ try' = try + Tried(x)
            /\ size' = (size + x.bytes) % Word
            /\ fresh' = Append(fresh, x)
            /\ UNCHANGED <<base, success, out, kept, torn, read, xored, phase>>

\* After this _In and _InString return 0 until Success is called.
PutFails(x) == /\ ~success \/ in + x.bytes > BufferSize
               /\ success' = FALSE
               /\ UNCHANGED <<base, size, in, out, try, ghosts, xored, phase>>

Put(x) == phase = "build" /\ (PutOk(x) \/ PutFails(x))

BatchEnds_NoReset == UNCHANGED try
BatchEnds == try' = 0

Confirm == /\ success
           /\ BatchEnds
           /\ kept' = kept \o fresh /\ fresh' = <<>>
           /\ UNCHANGED <<base, size, success, in, out, torn, read, xored, phase>>

\* _RollBack: _in is unsigned, and wraps when more was tried than is in the buffer.
Lowered == (in - try) % Word
Wrapped == Lowered > BufferSize
RollBackSize_NoWrap == try
RollBackSize == (IF Wrapped THEN try + Lowered ELSE try) % Word

RollBack == /\ ~success
            /\ success' = TRUE /\ try' = 0
            /\ in' = IF Wrapped THEN 0 ELSE Lowered
            /\ size' = (size - RollBackSize) % Word
            /\ fresh' = <<>>
            /\ torn' = (torn \/ (kept # <<>> /\ \E i \in DOMAIN fresh : fresh[i].string))
            /\ UNCHANGED <<base, out, kept, read, xored, phase>>

Success == phase = "build" /\ (Confirm \/ RollBack)

\* HNetPacket::Check in operator<: _Send uses the NULL it returns
Refused == /\ phase = "build" /\ (size < PacketHeader \/ size > MaxSize)
           /\ phase' = "fault"
           /\ UNCHANGED <<base, size, cursors, ghosts, xored>>

\* Each receiver's _Send asks NotEncrypt; only the first encrypts the body.
NotEncrypt == xored = 0
Encrypt == xored' = IF NotEncrypt THEN xored + 1 ELSE xored

Send == /\ phase \in {"build", "sent"} /\ size \in PacketHeader..MaxSize /\ read = <<>>
        /\ Encrypt
        /\ phase' = "sent"
        /\ UNCHANGED <<base, size, cursors, ghosts>>

Reuse == phase \in {"sent", "cleared"} /\ Fresh

(***************************************************************************)
(* The receiver                                                            *)
(***************************************************************************)
Sent == kept \o fresh
Next1 == Sent[Len(read) + 1]
More == Len(read) < Len(Sent)

Fits == More /\ in > out /\ out + Next1.bytes <= in

\* _Out, and _OutString, which skips a string whole however much of it is copied
OutOk == /\ Fits
         /\ out' = out + Next1.bytes
         /\ read' = Append(read, Next1)
         /\ UNCHANGED <<base, size, success, in, try, kept, fresh, torn, xored, phase>>

\* A scalar that is not there leaves the cursors alone, a string clears the buffer.
OutStringFails == /\ ~Fits
                  /\ success' = FALSE /\ in' = 0 /\ out' = 0 /\ try' = 0
                  /\ phase' = "cleared"
                  /\ UNCHANGED <<base, size, ghosts, xored>>

Out == phase = "sent" /\ base = Prefix /\ ~torn /\ (OutOk \/ OutStringFails)

Room == Len(Sent) < MaxItems
Next == \/ \E x \in Items : Room /\ Put(x)
        \/ Success \/ Refused \/ Send \/ Reuse \/ Out

(***************************************************************************)
(* Properties                                                              *)
(***************************************************************************)
\* _size, which HNetPacketEx::In (HNetPacket.h:62) adds up and Success lowers by what
\* _RollBack returns, is the size of a new packet and of what lies in the buffer, also
\* when _in wrapped: the framing of the receiver depends on it.
PacketSized == phase \in {"build", "sent"} => size = (base + in) % Word

\* A receiver that takes out what was put, in the order of the calls, gets all of it,
\* whatever was rolled back before: Success undoes just the items of its batch, and the
\* body is encrypted once for all receivers.  Not promised (Buffer.cpp:191) after a
\* batch with a string was undone behind another one.
ReadBack ==
    /\ phase = "sent" => xored = 1
    /\ phase \in {"build", "sent"} /\ ~torn =>
         in = Bytes(Sent) /\ out = Bytes(read) /\ IsPrefix(read, Sent)
    /\ phase = "cleared" /\ ~torn => read = Sent
=============================================================================
