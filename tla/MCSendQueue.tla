---------------------------- MODULE MCSendQueue ----------------------------
(***************************************************************************)
(* Small instances of SendQueue.  Buffers of MCMaxSize = 4 hold three      *)
(* bytes: three packets "a" of one byte, or "a" and "b" of two bytes, so   *)
(* that gathering, a full buffer and the growth of the ring all occur.     *)
(***************************************************************************)
EXTENDS SendQueue

CONSTANTS s1, s2, w, a, b

MCSenders == {s1, s2}
MCSize == [m \in Msg |-> IF m = a THEN 1 ELSE 2]
OversizeSize == [m \in Msg |-> IF m = a THEN 1 ELSE MaxSize]
=============================================================================
