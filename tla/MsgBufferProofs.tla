-------------------------- MODULE MsgBufferProofs --------------------------
(***************************************************************************)
(* class Buffer implements a byte queue, for every capacity, every set of  *)
(* bytes and every sequence of calls.                                      *)
(***************************************************************************)
EXTENDS MsgBuffer, SequenceTheorems, TLAPS

USE BufferAssumption

(* Every reachable state satisfies TypeOK: the offsets are ordered and      *)
(* inside the block, whatever is appended, read or consumed.                *)
THEOREM TypeCorrect == Spec => []TypeOK
<1>1. Init => TypeOK
  BY DEF Init, TypeOK
<1>2. TypeOK /\ [Next]_vars => TypeOK'
  <2> SUFFICES ASSUME TypeOK, [Next]_vars PROVE TypeOK'
    OBVIOUS
  <2> USE DEF TypeOK, Offsets
  <2>1. ASSUME NEW chunk \in Chunks, AppendTo(chunk) PROVE TypeOK'
    <3>1. chunk \in Seq(Bytes) /\ Len(chunk) \in Nat
      OBVIOUS
    <3>2. ASSUME NEW block \in [Offsets -> Bytes], NEW at \in Nat
          PROVE  Copied(block, at, chunk) \in [Offsets -> Bytes]
      BY <3>1 DEF Copied
    <3>3. MovedDown \in [Offsets -> Bytes]
      BY DEF MovedDown, Size
    <3>4. CASE FreeSpace < Len(chunk)
      BY <2>1, <3>1, <3>4 DEF AppendTo, Refused, FreeSpace, Size
    <3>5. CASE ~(FreeSpace < Len(chunk)) /\ Cap - endPos < Len(chunk)
      <4>1. data' = Copied(MovedDown, Size, chunk) /\ startPos' = 0
              /\ endPos' = Size + Len(chunk) /\ got' = got /\ ok' = TRUE
        BY <2>1, <3>5 DEF AppendTo
      <4>2. Size \in Nat /\ Size + Len(chunk) <= Cap
        BY <3>1, <3>5 DEF FreeSpace, Size
      <4>3. data' \in [Offsets -> Bytes]
        BY <3>2, <3>3, <4>1, <4>2
      <4>4. startPos' \in 0 .. endPos' /\ endPos' \in 0 .. Cap
        BY <3>1, <4>1, <4>2
      <4> QED BY <4>1, <4>3, <4>4
    <3>6. CASE ~(FreeSpace < Len(chunk)) /\ ~(Cap - endPos < Len(chunk))
      <4>1. data' = Copied(data, endPos, chunk) /\ startPos' = startPos
              /\ endPos' = endPos + Len(chunk) /\ got' = got /\ ok' = TRUE
        BY <2>1, <3>6 DEF AppendTo
      <4> QED BY <3>1, <3>2, <3>6, <4>1
    <3> QED BY <3>1, <3>4, <3>5, <3>6 DEF FreeSpace, Size
  <2>2. ASSUME NEW n \in 0 .. Cap, Get(n) PROVE TypeOK'
    <3>1. CASE ~(Size < n)
      <4>1. \A k \in 1 .. n : startPos + k - 1 \in Offsets
        BY <3>1 DEF Size
      <4>2. [k \in 1 .. n |-> data[startPos + k - 1]] \in [1 .. n -> Bytes]
        BY <4>1
      <4>3. [k \in 1 .. n |-> data[startPos + k - 1]] \in Seq(Bytes)
        BY <4>2
      <4> QED BY <2>2, <3>1, <4>3 DEF Get, Size
    <3>2. CASE Size < n
      BY <2>2, <3>2 DEF Get, Refused, Size
    <3> QED BY <3>1, <3>2
  <2>3. ASSUME NEW n \in 0 .. Cap, Consume(n) PROVE TypeOK'
    <3>1. CASE Size < n
      BY <2>3, <3>1 DEF Consume, Refused
    <3>2. CASE ~(Size < n)
      <4>1. startPos + n \in 0 .. endPos
        BY <3>2 DEF Size
      <4> QED BY <2>3, <3>2, <4>1 DEF Consume
    <3> QED BY <3>1, <3>2
  <2>4. CASE Clear
    BY <2>4 DEF Clear
  <2>5. CASE UNCHANGED vars
    BY <2>5 DEF vars
  <2> QED BY <2>1, <2>2, <2>3, <2>4, <2>5 DEF Next
<1> QED BY <1>1, <1>2, PTL DEF Spec

-----------------------------------------------------------------------------
(* The bytes held are a sequence of Size bytes. *)
LEMMA HeldType == TypeOK => Held \in Seq(Bytes) /\ Len(Held) = Size /\ Size \in Nat
<1> SUFFICES ASSUME TypeOK PROVE Held \in Seq(Bytes) /\ Len(Held) = Size /\ Size \in Nat
  OBVIOUS
<1>1. Size \in Nat
  BY DEF TypeOK, Size
<1>2. \A k \in 1 .. Size : startPos + k - 1 \in Offsets
  BY DEF TypeOK, Size, Offsets
<1>3. Held \in [1 .. Size -> Bytes]
  BY <1>2 DEF TypeOK, Held
<1> QED BY <1>1, <1>3

(* Without its first n bytes, Held is what starts n bytes higher. *)
LEMMA HeldTail ==
  ASSUME TypeOK, NEW n \in 0 .. Size
  PROVE  /\ SubSeq(Held, n + 1, Len(Held))
              = [k \in 1 .. Size - n |-> data[startPos + n + k - 1]]
         /\ SubSeq(Held, 1, n) = [k \in 1 .. n |-> data[startPos + k - 1]]
<1>1. Held \in Seq(Bytes) /\ Len(Held) = Size /\ Size \in Nat
  BY HeldType
<1>2. Held = [k \in 1 .. Size |-> data[startPos + k - 1]]
  BY DEF Held
<1>3. SubSeq(Held, n + 1, Len(Held)) = [k \in 1 .. Size - n |-> data[startPos + n + k - 1]]
  <2>1. SubSeq(Held, n + 1, Len(Held)) = [k \in 1 .. Size - n |-> Held[n + 1 + k - 1]]
    BY <1>1
  <2>2. \A k \in 1 .. Size - n : Held[n + 1 + k - 1] = data[startPos + n + k - 1]
    BY <1>1, <1>2 DEF TypeOK
  <2> QED BY <2>1, <2>2
<1>4. SubSeq(Held, 1, n) = [k \in 1 .. n |-> data[startPos + k - 1]]
  <2>1. SubSeq(Held, 1, n) = [k \in 1 .. n |-> Held[k]]
    BY <1>1
  <2>2. \A k \in 1 .. n : Held[k] = data[startPos + k - 1]
    BY <1>1, <1>2
  <2> QED BY <2>1, <2>2
<1> QED BY <1>3, <1>4

(* A function is the function of its values. *)
LEMMA AsFunction == \A S, T : \A f \in [S -> T] : f = [x \in S |-> f[x]]
OBVIOUS

(* AppendTo() adds the chunk behind the bytes held, with or without the     *)
(* memmove.                                                                 *)
LEMMA AppendHeld ==
  ASSUME TypeOK, NEW chunk \in Chunks, AppendTo(chunk), ~(FreeSpace < Len(chunk))
  PROVE  Held' = Held \o chunk
<1>1. Held \in Seq(Bytes) /\ Len(Held) = Size /\ Size \in Nat
  BY HeldType
<1>2. chunk \in Seq(Bytes) /\ Len(chunk) \in Nat
  OBVIOUS
<1>3. Held \o chunk = [k \in 1 .. Size + Len(chunk) |->
                         IF k <= Size THEN Held[k] ELSE chunk[k - Size]]
  <2>1. /\ Len(Held \o chunk) = Size + Len(chunk)
        /\ \A k \in 1 .. Size + Len(chunk) :
              (Held \o chunk)[k] = IF k <= Size THEN Held[k] ELSE chunk[k - Size]
        /\ Held \o chunk \in Seq(Bytes)
    BY <1>1, <1>2, ConcatProperties
  <2> DEFINE joined == Held \o chunk
  <2>2. PICK n \in Nat : joined \in [1 .. n -> Bytes]
    <3>1. joined \in Seq(Bytes)
      BY <2>1
    <3> HIDE DEF joined
    <3> QED BY <3>1
  <2>3. n = Size + Len(chunk)
    BY <1>1, <1>2, <2>1, <2>2
  <2>4. joined = [k \in 1 .. n |-> (Held \o chunk)[k]]
    BY <2>2, AsFunction, Zenon
  <2>5. [k \in 1 .. n |-> (Held \o chunk)[k]]
          = [k \in 1 .. n |-> IF k <= Size THEN Held[k] ELSE chunk[k - Size]]
    BY <2>1, <2>3, Zenon
  <2> QED BY <2>3, <2>4, <2>5, Zenon
<1>4. \A k \in 1 .. Size : Held[k] = data[startPos + k - 1]
  BY DEF Held
<1>5. CASE Cap - endPos < Len(chunk)
  <2>1. data' = Copied(MovedDown, Size, chunk) /\ startPos' = 0
          /\ endPos' = Size + Len(chunk)
    BY <1>5 DEF AppendTo
  <2>2. Size + Len(chunk) <= Cap
    BY <1>1, <1>2 DEF FreeSpace, TypeOK
  <2>3. Held' = [k \in 1 .. Size + Len(chunk) |-> data'[k - 1]]
    BY <1>1, <1>2, <2>1 DEF Held, Size
  <2>4. ASSUME NEW k \in 1 .. Size + Len(chunk)
        PROVE  data'[k - 1] = IF k <= Size THEN Held[k] ELSE chunk[k - Size]
    <3>1. k - 1 \in Offsets
      BY <1>1, <1>2, <2>2 DEF Offsets, TypeOK
    <3>2. CASE k <= Size
      BY <1>1, <1>4, <2>1, <3>1, <3>2 DEF Copied, MovedDown, TypeOK
    <3>3. CASE k > Size
      BY <1>1, <1>2, <2>1, <3>1, <3>3 DEF Copied
    <3> QED BY <1>1, <3>2, <3>3
  <2> QED BY <1>3, <2>3, <2>4
<1>6. CASE ~(Cap - endPos < Len(chunk))
  <2>1. data' = Copied(data, endPos, chunk) /\ startPos' = startPos
          /\ endPos' = endPos + Len(chunk)
    BY <1>6 DEF AppendTo
  <2>2. endPos + Len(chunk) <= Cap
    BY <1>2, <1>6 DEF TypeOK
  <2>3. Held' = [k \in 1 .. Size + Len(chunk) |-> data'[startPos + k - 1]]
    <3>1. Size' = Size + Len(chunk)
      BY <1>2, <2>1 DEF Size, TypeOK
    <3> QED BY <2>1, <3>1 DEF Held
  <2>4. ASSUME NEW k \in 1 .. Size + Len(chunk)
        PROVE  data'[startPos + k - 1] = IF k <= Size THEN Held[k] ELSE chunk[k - Size]
    <3>1. startPos + k - 1 \in Offsets
      BY <1>1, <1>2, <2>2 DEF Offsets, TypeOK, Size
    <3>2. CASE k <= Size
      <4>1. startPos + k - 1 < endPos
        BY <1>1, <1>2, <3>2 DEF TypeOK, Size
      <4>2. ~(endPos <= startPos + k - 1)
        BY <1>2, <4>1 DEF TypeOK
      <4> QED BY <1>4, <1>1, <2>1, <3>1, <3>2, <4>2 DEF Copied
    <3>3. CASE k > Size
      <4> DEFINE o == startPos + k - 1
      <4>1. endPos <= o /\ o < endPos + Len(chunk) /\ o - endPos + 1 = k - Size
        BY <1>1, <1>2, <3>3 DEF TypeOK, Size
      <4>2. o \in Offsets
        BY <3>1
      <4> HIDE DEF o
      <4>3. data'[o] = chunk[o - endPos + 1]
        BY <2>1, <4>1, <4>2 DEF Copied
      <4> QED BY <3>3, <1>1, <4>1, <4>3 DEF o
    <3> QED BY <1>1, <3>2, <3>3
  <2> QED BY <1>3, <2>3, <2>4
<1> QED BY <1>5, <1>6

-----------------------------------------------------------------------------
(* Buffer implements the byte queue: every call changes the bytes held as   *)
(* ByteFifo says, and Append's memmove changes nothing a caller can see.    *)
THEOREM Refinement == Spec => IsFifo
<1>1. Init => Fifo!FifoInit
  <2> SUFFICES ASSUME Init PROVE Fifo!FifoInit
    OBVIOUS
  <2>1. Size = 0
    BY DEF Init, Size
  <2>2. Held = <<>>
    BY <2>1 DEF Held
  <2> QED BY <2>2 DEF Init, Fifo!FifoInit
<1>2. TypeOK /\ TypeOK' /\ [Next]_vars => [Fifo!FifoNext]_(Fifo!fifoVars)
  <2> SUFFICES ASSUME TypeOK, TypeOK', [Next]_vars
               PROVE  [Fifo!FifoNext]_(Fifo!fifoVars)
    OBVIOUS
  <2>0. Held \in Seq(Bytes) /\ Len(Held) = Size /\ Size \in Nat
    BY HeldType
  <2>1. ASSUME NEW chunk \in Chunks, AppendTo(chunk) PROVE Fifo!FifoAppend(chunk)
    <3>1. Len(chunk) \in Nat
      OBVIOUS
    <3>2. FreeSpace < Len(chunk) <=> ~(Len(Held) + Len(chunk) <= Cap)
      BY <2>0, <3>1 DEF FreeSpace
    <3>3. CASE ~(FreeSpace < Len(chunk))
      <4>1. Held' = Held \o chunk
        BY <2>1, <3>3, AppendHeld
      <4> QED BY <2>1, <3>2, <3>3, <4>1 DEF Fifo!FifoAppend, AppendTo
    <3>4. CASE FreeSpace < Len(chunk)
      <4>1. UNCHANGED <<data, startPos, endPos, got>> /\ ok' = FALSE
        BY <2>0, <2>1, <3>1, <3>4 DEF AppendTo, Refused, FreeSpace, TypeOK
      <4>2. Held' = Held
        BY <4>1 DEF Held, Size
      <4> QED BY <3>2, <3>4, <4>1, <4>2 DEF Fifo!FifoAppend, Fifo!Refuse
    <3> QED BY <3>3, <3>4
  <2>2. ASSUME NEW n \in 0 .. Cap, ~(Size < n), startPos' = startPos + n,
               UNCHANGED <<data, endPos>>
        PROVE  Held' = SubSeq(Held, n + 1, Len(Held))
    <3>1. Size' = Size - n
      BY <2>2 DEF Size, TypeOK
    <3>2. Held' = [k \in 1 .. Size - n |-> data[startPos + n + k - 1]]
      BY <2>2, <3>1 DEF Held
    <3>3. n \in 0 .. Size
      BY <2>0, <2>2
    <3> QED BY <3>2, <3>3, HeldTail
  <2>3. ASSUME NEW n \in 0 .. Cap, Get(n) PROVE Fifo!FifoGet(n)
    <3>1. CASE ~(Size < n)
      <4>1. ok' = TRUE /\ got' = [k \in 1 .. n |-> data[startPos + k - 1]]
              /\ startPos' = startPos + n /\ UNCHANGED <<data, endPos>>
        BY <2>0, <2>3, <3>1 DEF Get
      <4>2. Held' = SubSeq(Held, n + 1, Len(Held))
        BY <2>2, <3>1, <4>1
      <4>3. n \in 0 .. Size
        BY <2>0, <3>1
      <4>4. got' = SubSeq(Held, 1, n)
        BY <4>1, <4>3, HeldTail
      <4> QED BY <2>0, <3>1, <4>1, <4>2, <4>4 DEF Fifo!FifoGet
    <3>2. CASE Size < n
      <4>1. ok' = FALSE /\ UNCHANGED <<data, startPos, endPos, got>>
        BY <2>0, <2>3, <3>2 DEF Get, Refused
      <4>2. Held' = Held
        BY <4>1 DEF Held, Size
      <4> QED BY <2>0, <3>2, <4>1, <4>2 DEF Fifo!FifoGet, Fifo!Refuse
    <3> QED BY <3>1, <3>2
  <2>4. ASSUME NEW n \in 0 .. Cap, Consume(n) PROVE Fifo!FifoConsume(n)
    <3>1. CASE ~(Size < n)
      <4>1. ok' = TRUE /\ startPos' = startPos + n /\ UNCHANGED <<data, endPos, got>>
        BY <2>0, <2>4, <3>1 DEF Consume
      <4>2. Held' = SubSeq(Held, n + 1, Len(Held))
        BY <2>2, <3>1, <4>1
      <4> QED BY <2>0, <3>1, <4>1, <4>2 DEF Fifo!FifoConsume, Fifo!Refuse
    <3>2. CASE Size < n
      <4>1. ok' = FALSE /\ UNCHANGED <<data, startPos, endPos, got>>
        BY <2>0, <2>4, <3>2 DEF Consume, Refused
      <4>2. Held' = Held
        BY <4>1 DEF Held, Size
      <4> QED BY <2>0, <3>2, <4>1, <4>2 DEF Fifo!FifoConsume, Fifo!Refuse
    <3> QED BY <3>1, <3>2
  <2>5. CASE Clear
    <3>1. Size' = 0
      BY <2>5 DEF Clear, Size
    <3>2. Held' = <<>>
      BY <3>1 DEF Held
    <3> QED BY <2>5, <3>2 DEF Clear, Fifo!FifoNext, Fifo!FifoClear
  <2>6. CASE UNCHANGED vars
    BY <2>6 DEF vars, Held, Size, Fifo!fifoVars
  <2> QED BY <2>1, <2>3, <2>4, <2>5, <2>6 DEF Next, Fifo!FifoNext
<1> QED BY <1>1, <1>2, TypeCorrect, PTL DEF Spec, IsFifo, Fifo!FifoSpec
=============================================================================
