----------------------------- MODULE MCFileNode -----------------------------
(* FileNode, for TLC. *)
EXTENDS FileNode
=============================================================================
