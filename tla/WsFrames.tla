------------------------------ MODULE WsFrames ------------------------------
(***************************************************************************)
(* HNetIoWsRecv, which cuts what the peer of a WebSocket sends into        *)
(* frames.  Of the stream only positions are kept.  When a receive writes  *)
(* behind the buffer ("overrun"), or the loop goes on at a place where no  *)
(* frame begins ("astray"), nothing is said of the session any more.  A    *)
(* definition named X_Y is X with the defect Y; no specification uses it.  *)
(***************************************************************************)
EXTENDS WsHeader, Sequences, SequencesExt

CONSTANTS MaxSize,    \* HNetPacket::MAX_SIZE, _size of the buffer
          Frames,     \* the headers a peer may send
          MaxFrames   \* bound: frames the peer sends

(***************************************************************************)
(* The receiver                                                            *)
(***************************************************************************)
VARIABLES begin, end,  \* _begin, _end
          window,      \* length of the outstanding WSARecv
          state,       \* "posted", "handling", "closed", "astray" or "overrun"
          bytes,       \* the argument and loop variable of Completed
          incomplete,  \* the local variable of Completed
          frames,      \* the headers of the frames the peer sent
          got,         \* stream position up to which bytes were received
          taken,       \* frames that were handled
          told         \* the data frames given to _OnMessage

vars == <<begin, end, window, state, bytes, incomplete, frames, got, taken, told>>

Init == /\ begin = 0 /\ end = 0 /\ window = MaxSize
        /\ state = "posted" /\ bytes = 0 /\ incomplete = 0
        /\ frames = <<>> /\ got = 0 /\ taken = 0 /\ told = <<>>

\* The bytes of a frame, of some frames, and the position at which the frame after k begins
Length(h) == HeaderSize(h) + h.ext
Extent(s) == FoldLeft(LAMBDA n, h : n + Length(h), 0, s)
Start(k) == Extent(SubSeq(frames, 1, k))

PeerSends(h) == /\ Len(frames) < MaxFrames
                /\ frames' = Append(frames, h)
                /\ UNCHANGED <<begin, end, window, state, bytes, incomplete, got, taken, told>>

Ends(s) == /\ state' = s
           /\ UNCHANGED <<begin, end, window, bytes, incomplete, frames, got, taken, told>>

Arrives(n) == state = "posted" /\ n <= window /\ n <= Start(Len(frames)) - got

Received(n) == /\ Arrives(n) /\ end + n <= MaxSize
               /\ state' = "handling" /\ got' = got + n
               /\ bytes' = n /\ incomplete' = (end - begin) + n
               /\ UNCHANGED <<begin, end, window, frames, taken, told>>

Overrun(n) == Arrives(n) /\ end + n > MaxSize /\ Ends("overrun")

\* No bytes: the peer closed, or the window has none.
PeerCloses == state = "posted" /\ Ends("closed")

(***************************************************************************)
(* RecvWs: GetWsaBuf moves what is left to the front.  When it is there    *)
(* already, the length is the one the thread last used, for any session.   *)
(***************************************************************************)
GetWsaBuf(b, e) ==
    \/ /\ b = e /\ begin' = 0 /\ end' = 0 /\ window' = MaxSize
    \/ /\ b # e /\ b # 0 /\ begin' = 0 /\ end' = e - b /\ window' = MaxSize - end'
    \/ /\ b # e /\ b = 0 /\ begin' = 0 /\ end' = e /\ window' \in 0..MaxSize

RecvWs(b, e) == /\ GetWsaBuf(b, e)
                /\ state' = "posted" /\ bytes' = 0 /\ incomplete' = 0
                /\ UNCHANGED <<frames, got, taken, told>>

(***************************************************************************)
(* Completed: one action per turn of its loop                              *)
(***************************************************************************)
Looping == state = "handling" /\ bytes > 0
IsValid == incomplete >= Basic
Header == frames[taken + 1]

\* What header->Size() returns.  Where the extended length has not arrived there are bytes
\* that lay there before.
Arrived == incomplete >= Basic + Extension(Header)
SizeRead == IF Arrived THEN {Size(Header)}
            ELSE {Size([Header EXCEPT !.ext = n]) : n \in 0..(Word - 1)}

Check(n) == Basic <= n /\ n <= MaxSize
Fits(n) == Check(n) /\ n <= incomplete

Keep == /\ Looping
        /\ IsValid => \E n \in SizeRead : Check(n) /\ n > incomplete
        /\ RecvWs(begin, end + bytes)

BadFrame == /\ Looping /\ IsValid
            /\ \E n \in SizeRead : ~Check(n)
            /\ Ends("closed")

\* A pong is sent empty.
Preprocess == told' = IF Header.op = "data" THEN Append(told, Header) ELSE told

\* ToPacket writes the size over the two bytes before the data: of the key, or without one
\* of the header itself, and _Preprocess then returns what Size() reads there.
Overwritten == Header.op = "data" /\ ~Header.mask /\ Size(Header) # Basic

Rest_Ignored(n) == bytes - n
Rest(n) == bytes - (n - (end - begin))

Deliver == /\ Looping /\ IsValid /\ Header.op # "close"
           /\ \E n \in SizeRead :
                 /\ Fits(n) /\ n = Length(Header) /\ ~Overwritten
                 /\ bytes' = Rest(n)
                 /\ incomplete' = incomplete - n
                 /\ begin' = begin + n /\ end' = begin'
           /\ Preprocess
           /\ taken' = taken + 1
           /\ UNCHANGED <<window, state, frames, got>>

\* The size is not the frame's: what is handled, and where the loop goes on, is no frame.
Misread == /\ Looping /\ IsValid /\ Header.op # "close"
           /\ \E n \in SizeRead : Fits(n) /\ (n # Length(Header) \/ Overwritten)
           /\ Ends("astray")

PeerDisconnects == /\ Looping /\ IsValid /\ Header.op = "close"
                   /\ \E n \in SizeRead : Fits(n)
                   /\ Ends("closed")

LoopEnds == state = "handling" /\ bytes = 0 /\ RecvWs(begin, end)

Next == \/ \E h \in Frames : PeerSends(h)
        \/ \E n \in 1..MaxSize : Received(n) \/ Overrun(n)
        \/ PeerCloses \/ Keep \/ BadFrame \/ Deliver \/ Misread \/ PeerDisconnects \/ LoopEnds

(***************************************************************************)
(* Properties                                                              *)
(***************************************************************************)
\* However the stream is cut, what is in the buffer between two receives is the
\* beginning of the frame after those that were handled, and never a whole frame; the
\* messages are the data frames, in order; and a frame is misread only if it is unmasked,
\* its length was not there yet, or it does not fit in 16 bits.
FramesInOrder ==
    /\ state = "posted" => /\ end - begin = got - Start(taken)
                           /\ taken < Len(frames) => end - begin < Length(Header)
    /\ Looping => (end - begin) + bytes = incomplete /\ incomplete = got - Start(taken)
    /\ state = "astray" => ~Header.mask \/ ~Arrived \/ Length(Header) >= Word
    /\ \E at \in [DOMAIN told -> 1..taken] :
          /\ \A i \in DOMAIN told : told[i] = frames[at[i]]
          /\ \A i, k \in DOMAIN told : i < k => at[i] < at[k]
          /\ {at[i] : i \in DOMAIN told} = {k \in 1..taken : frames[k].op = "data"}
=============================================================================
