--------------------------- MODULE MCDriverStart ---------------------------
(* DriverStart for TLC: its constants are given in the configuration. *)
EXTENDS DriverStart
=============================================================================
