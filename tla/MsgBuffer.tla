------------------------------ MODULE MsgBuffer ------------------------------
(***************************************************************************)
(* class Buffer: bytes between start_pos_ and end_pos_ of a fixed block,   *)
(* moved down to its beginning when the end is reached.                    *)
(***************************************************************************)
EXTENDS Integers, Sequences

CONSTANTS
  Bytes,    \* the values of a byte
  Cap,      \* requested_size
  Chunks    \* the byte strings that are appended

ASSUME BufferAssumption == Cap \in Nat /\ Chunks \subseteq Seq(Bytes)

Offsets == 0 .. Cap - 1

VARIABLES
  data,      \* data_
  startPos,  \* start_pos_
  endPos,    \* end_pos_
  ok,        \* what the last call returned
  got        \* what the last Get() copied out

vars == <<data, startPos, endPos, ok, got>>

Size == endPos - startPos
FreeSpace == Cap - Size

(* The block comes uninitialised from HI_MPI_SYS_MmzAlloc.                  *)
Init ==
  /\ data \in [Offsets -> Bytes]
  /\ startPos = 0 /\ endPos = 0
  /\ ok = TRUE /\ got = <<>>

(* memcpy of chunk to block + at. *)
Copied(block, at, chunk) ==
  [o \in Offsets |-> IF at <= o /\ o < at + Len(chunk) THEN chunk[o - at + 1]
                                                        ELSE block[o]]

(* Mutant: memmove of one byte too few.                                     *)
MovedDownShort ==
  [o \in Offsets |-> IF o < Size - 1 THEN data[startPos + o] ELSE data[o]]

(* memmove of the bytes held to the start of the block. *)
MovedDown == [o \in Offsets |-> IF o < Size THEN data[startPos + o] ELSE data[o]]

(* return false *)
Refused == ok' = FALSE /\ UNCHANGED <<data, startPos, endPos, got>>

(* Mutant: the block is not checked for room at its end.                    *)
AppendUnmoved(chunk) ==
  IF FreeSpace < Len(chunk) THEN Refused
  ELSE /\ ok' = TRUE
       /\ data' = Copied(data, endPos, chunk)
       /\ endPos' = endPos + Len(chunk)
       /\ UNCHANGED <<startPos, got>>

AppendTo(chunk) ==
  IF FreeSpace < Len(chunk) THEN Refused
  ELSE /\ ok' = TRUE
       /\ IF Cap - endPos < Len(chunk)
          THEN /\ data' = Copied(MovedDown, Size, chunk)
               /\ startPos' = 0 /\ endPos' = Size + Len(chunk)
          ELSE /\ data' = Copied(data, endPos, chunk)
               /\ startPos' = startPos /\ endPos' = endPos + Len(chunk)
       /\ UNCHANGED got

Get(n) ==
  IF Size < n THEN Refused
  ELSE /\ ok' = TRUE
       /\ got' = [k \in 1 .. n |-> data[startPos + k - 1]]
       /\ startPos' = startPos + n
       /\ UNCHANGED <<data, endPos>>

Consume(n) ==
  IF Size < n THEN Refused
  ELSE /\ ok' = TRUE
       /\ startPos' = startPos + n
       /\ UNCHANGED <<data, endPos, got>>

Clear == startPos' = 0 /\ endPos' = 0 /\ UNCHANGED <<data, ok, got>>

Next ==
  \/ \E chunk \in Chunks : AppendTo(chunk)
  \/ \E n \in 0 .. Cap : Get(n) \/ Consume(n)
  \/ Clear

Spec == Init /\ [][Next]_vars

-----------------------------------------------------------------------------
(* Every copy stays inside the block. *)
TypeOK ==
  /\ data \in [Offsets -> Bytes]
  /\ startPos \in 0 .. endPos /\ endPos \in 0 .. Cap
  /\ ok \in BOOLEAN /\ got \in Seq(Bytes)

(* The bytes held. *)
Held == [k \in 1 .. Size |-> data[startPos + k - 1]]

Fifo == INSTANCE ByteFifo WITH fifo <- Held

(* Buffer is a byte queue: moving the bytes down loses and reorders none.   *)
IsFifo == Fifo!FifoSpec
=============================================================================
