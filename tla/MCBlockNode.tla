----------------------------- MODULE MCBlockNode -----------------------------
(* BlockNode, for TLC. *)
EXTENDS BlockNode
=============================================================================
