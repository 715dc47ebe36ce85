----------------------------- MODULE MCPCIVTrans -----------------------------
(***************************************************************************)
(* Instances of PCIVTrans for TLC.  The window is 16 units of two bytes    *)
(* aligned; half of it holds two small entries exactly, or one large one,  *)
(* so that a batch can fill the buffer to the last byte, overflow it, and  *)
(* wrap the window.                                                        *)
(***************************************************************************)
EXTENDS PCIVTrans

(* A large entry and a small one do not fit together, so that the small one *)
(* of channel 1 is left over and takes the turn of channel 0; with another  *)
(* of channel 1 behind it, it then fills half a window exactly.             *)
LargeAndSmall == [c \in Encoders |-> IF c = 0 THEN {4} ELSE {1}]

(* One that fills half a window by itself, and one that never fits.         *)
WholeAndTooLong == [c \in Encoders |-> IF c = 0 THEN {1} ELSE {6, 8}]

Identity == [c \in Encoders |-> c]

(* What the stack may hold: anything that is no READ_DONE, or a READ_DONE   *)
(* with a position inside or far outside the window.                        *)
MCGarbage == {NoMsg} \cup
  {[type |-> "READ_DONE", cur |-> FALSE, end |-> e] : e \in {4, 24}}
NoGarbage == {NoMsg}
=============================================================================
