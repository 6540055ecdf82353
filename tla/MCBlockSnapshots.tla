-------------------------- MODULE MCBlockSnapshots --------------------------
(* BlockSnapshots, for TLC. *)
EXTENDS BlockSnapshots
=============================================================================
