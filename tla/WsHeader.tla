------------------------------ MODULE WsHeader ------------------------------
(***************************************************************************)
(* HNetWsPacket::Header, the header of a WebSocket frame, and the room     *)
(* that HNetWsPacket::operator< leaves for it in front of a packet.        *)
(*                                                                         *)
(* A header is [op, flag, ext, mask]: the opcode, the seven bits of length *)
(* (Medium and Medium + 1 stand for 126 and 127, "the length follows in 2  *)
(* or 8 bytes"), that length, and whether a masking key follows.           *)
(***************************************************************************)
EXTENDS Integers

CONSTANTS Medium,     \* PAYLOAD_LEN_126
          Long,       \* PAYLOAD_LEN_127, SHRT_MAX
          Ext2, Ext8, \* EXTEND_BYTES_126, EXTEND_BYTES_127
          Key,        \* MASK_BYTES
          Word,       \* the values of a USHORT
          Limit       \* 0xFFFFFFFF

Basic == 2  \* sizeof(Header)

Initialize(op, n, masked) ==
    [op |-> op, ext |-> n, mask |-> masked,
     flag |-> IF Long <= n THEN Medium + 1 ELSE IF Medium <= n THEN Medium ELSE n]

Extension(h) == IF h.flag = Medium THEN Ext2 ELSE IF h.flag = Medium + 1 THEN Ext8 ELSE 0

DataSize(h) == IF h.flag = Medium THEN h.ext % Word
               ELSE IF h.flag # Medium + 1 THEN h.flag
               ELSE IF h.ext > Limit THEN 0 ELSE h.ext % Word

HeaderSize(h) == Basic + Extension(h) + IF h.mask THEN Key ELSE 0
Size(h) == (HeaderSize(h) + DataSize(h)) % Word

\* The room operator< leaves for the header of n bytes of data, before it is written
Placed(n) == Basic + IF Long <= n THEN Ext8 ELSE IF Medium <= n THEN Ext2 ELSE 0
=============================================================================
