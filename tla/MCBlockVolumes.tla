--------------------------- MODULE MCBlockVolumes ---------------------------
(* Values for the constants of BlockVolumes, for TLC. *)
EXTENDS BlockVolumes

AnySize == [n \in Names |-> Sizes]
=============================================================================
