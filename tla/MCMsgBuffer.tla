----------------------------- MODULE MCMsgBuffer -----------------------------
(* Buffers of a few bytes, appended to in chunks of up to three.            *)
EXTENDS MsgBuffer

ShortChunks == UNION {[1 .. n -> Bytes] : n \in 1 .. 3}
=============================================================================
