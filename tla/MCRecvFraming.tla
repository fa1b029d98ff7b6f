---------------------------- MODULE MCRecvFraming ----------------------------
(***************************************************************************)
(* A buffer of five bytes and headers of two.  Packets of 2 and 5 bytes (5 *)
(* is MAX_SIZE) and one whose _size is smaller than its header, in all     *)
(* orders, sent as far ahead as the peer likes, and cut at all places.     *)
(***************************************************************************)
EXTENDS RecvJobs

CONSTANTS t1, t2
=============================================================================
