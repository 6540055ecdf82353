---------------------------- MODULE MCBlockResize ----------------------------
(* BlockResize for TLC: its constants are given in the configuration. *)
EXTENDS BlockResize
=============================================================================
