------------------------------- MODULE Sizes -------------------------------
(***************************************************************************)
(* Capacities: requests and answers are in bytes, both storage services    *)
(* deal in whole GiB.  bytesToGiB (src/driver/filestorage/util.go:40-46)   *)
(* and the library function util.RoundUpSize that the block storage driver *)
(* calls are the same function.                                            *)
(***************************************************************************)
EXTENDS Naturals

CONSTANT GiB   \* the number of bytes in a GiB

ASSUME GiBAssumption == GiB \in Nat \ {0}

RoundUpSize(bytes) == (bytes \div GiB) + (IF bytes % GiB > 0 THEN 1 ELSE 0)

InBytes(size) == size * GiB
=============================================================================
