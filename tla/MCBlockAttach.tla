--------------------------- MODULE MCBlockAttach ---------------------------
(* BlockAttach, for TLC. *)
EXTENDS BlockAttach
=============================================================================
