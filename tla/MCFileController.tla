-------------------------- MODULE MCFileController --------------------------
(* Values for the constants of FileController, for TLC. *)
EXTENDS FileController

AnySize == [n \in Names |-> Sizes]      \* claims that disagree on the size
=============================================================================
