------------------------------ MODULE ByteFifo ------------------------------
(***************************************************************************)
(* What class Buffer promises: a first-in first-out queue of at most Cap   *)
(* bytes, whose operations take effect whole or not at all.                *)
(***************************************************************************)
EXTENDS Integers, Sequences

CONSTANTS
  Bytes,    \* the values of a byte
  Cap,      \* requested_size
  Chunks    \* the byte strings that are appended

VARIABLES
  fifo,  \* the bytes in the queue, oldest first
  ok,    \* what the last call returned
  got    \* what the last Get() copied out

fifoVars == <<fifo, ok, got>>

FifoInit == fifo = <<>> /\ ok = TRUE /\ got = <<>>

Refuse == ok' = FALSE /\ UNCHANGED <<fifo, got>>

FifoAppend(chunk) ==
  IF Len(fifo) + Len(chunk) <= Cap
  THEN ok' = TRUE /\ fifo' = fifo \o chunk /\ UNCHANGED got
  ELSE Refuse

FifoGet(n) ==
  IF n <= Len(fifo)
  THEN ok' = TRUE /\ got' = SubSeq(fifo, 1, n) /\ fifo' = SubSeq(fifo, n + 1, Len(fifo))
  ELSE Refuse

FifoConsume(n) ==
  IF n <= Len(fifo)
  THEN ok' = TRUE /\ fifo' = SubSeq(fifo, n + 1, Len(fifo)) /\ UNCHANGED got
  ELSE Refuse

FifoClear == fifo' = <<>> /\ UNCHANGED <<ok, got>>

FifoNext ==
  \/ \E chunk \in Chunks : FifoAppend(chunk)
  \/ \E n \in 0 .. Cap : FifoGet(n) \/ FifoConsume(n)
  \/ FifoClear

FifoSpec == FifoInit /\ [][FifoNext]_fifoVars
=============================================================================
