----------------------------- MODULE Expansion -----------------------------
(***************************************************************************)
(* What the expansion of a volume promises its user: he asks for more, the *)
(* volume grows to what he has asked for, rounded up and no further, the   *)
(* file system grows into the volume, and he is told of no more than he    *)
(* can use.  Nothing shrinks and nothing is taken back.                    *)
(***************************************************************************)
EXTENDS Sizes

CONSTANT Requests   \* capacities in bytes that the user may ask for

VARIABLES
  want,    \* what the user has asked for, in bytes
  size,    \* the size of the volume, in GiB
  usable,  \* the size of the file system on it, in GiB, 0 before there is one
  told     \* the capacity the user has been told of, in bytes

vars == <<want, size, usable, told>>

Init ==
  /\ want \in Requests
  /\ size = RoundUpSize(want)
  /\ usable = 0
  /\ told = InBytes(size)

Ask ==
  /\ want' \in {r \in Requests : r > want}
  /\ UNCHANGED <<size, usable, told>>

Extend ==
  /\ size' \in (size + 1) .. RoundUpSize(want)
  /\ UNCHANGED <<want, usable, told>>

(* The first pod finds no file system and makes one, as large as the volume. *)
Format ==
  /\ usable = 0
  /\ usable' = size
  /\ UNCHANGED <<want, size, told>>

Grow ==
  /\ usable # 0
  /\ usable' \in (usable + 1) .. size
  /\ UNCHANGED <<want, size, told>>

Tell ==
  /\ usable # 0
  /\ told' \in (told + 1) .. InBytes(usable)
  /\ UNCHANGED <<want, size, usable>>

Next == Ask \/ Extend \/ Format \/ Grow \/ Tell

Spec == Init /\ [][Next]_vars
=============================================================================
