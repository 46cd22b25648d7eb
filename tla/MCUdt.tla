------------------------------- MODULE MCUdt -------------------------------
(***************************************************************************)
(* A small instance of Udt for TLC: a block of two slices, the first of    *)
(* which may come twice and the second of which may fail, and a block of   *)
(* another sender that has the same id and as many bytes.                  *)
(***************************************************************************)
EXTENDS Udt

CONSTANTS g1, h1

SameId == [b \in Block |-> 0]

SameSize == [b \in Block |-> 4]

SecondFails == {<<g1, 2>>}

FirstTwice == [s \in AnySlice |-> IF s = <<g1, 0>> THEN 2 ELSE 1]
=============================================================================
