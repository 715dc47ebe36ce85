----------------------------- MODULE MCPipeline -----------------------------
(* The three chains of chip 3. *)
EXTENDS Pipeline

Chip3 == <<"tea_full", "stu_full", "black_board">>
=============================================================================
