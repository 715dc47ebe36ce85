----------------------------- MODULE PcivWindow -----------------------------
(***************************************************************************)
(* The arithmetic of the PCIV transport: how a stream entry is sized, and  *)
(* where the next block goes in the master's DMA window.  Positions are    *)
(* byte offsets into a window of Window bytes, used as a ring; the staging *)
(* buffer of the slave holds half a window.                                *)
(***************************************************************************)
EXTENDS Integers

CONSTANTS
  Window,        \* RS_PCIV_WINDOW_SIZE
  StreamInfoLen, \* sizeof(pciv::StreamInfo), the header before every frame
  DmaAlign       \* 4: a frame is padded to a multiple of this many bytes

ASSUME WindowAssumption ==
  /\ Window \in Nat \ {0}
  /\ StreamInfoLen \in Nat \ {0}
  /\ DmaAlign \in Nat \ {0}
  /\ Window % (2 * DmaAlign) = 0      \* 7340032 is a multiple of 8
  /\ StreamInfoLen % DmaAlign = 0     \* 24 is a multiple of 4

Half == Window \div 2

(* Mutant of DmaLen: the padding is forgotten.                             *)
DmaLenUnpadded(len) == len

(* dma_len: len rounded up to the DMA alignment. *)
DmaLen(len) ==
  IF len % DmaAlign = 0 THEN len ELSE len + (DmaAlign - (len % DmaAlign))

(* What one frame of len bytes occupies in the staging buffer. *)
EntryLen(len) == StreamInfoLen + DmaLen(len)

(***************************************************************************)
(* PCIVTrans::QueryWritePos.  The unread bytes of the window run from s up *)
(* to e, wrapping; the result is the offset for a block of len bytes, or   *)
(* NoRoom.  Strict < when the block ends below s: a full ring would look   *)
(* like an empty one.                                                      *)
(***************************************************************************)
NoRoom == -1

(* Mutant: a block that does not fit above e wraps to 0 unchecked.          *)
QueryWritePosWrapsUnchecked(s, e, len) == IF e + len <= Window THEN e ELSE 0

QueryWritePos(s, e, len) ==
  IF e >= s
  THEN IF e + len <= Window THEN e
       ELSE IF len < s THEN 0 ELSE NoRoom
  ELSE IF e + len < s THEN e ELSE NoRoom

=============================================================================
