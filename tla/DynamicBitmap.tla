---------------------------- MODULE DynamicBitmap ---------------------------
(***************************************************************************)
(* dynamic_bitmap (dynamic_bitmap.cpp): a bitmap that grows when a bit     *)
(* beyond its end is asked for, once and by what it has, whatever bit that *)
(* is. A bit that is still beyond the end after that is memory next to the *)
(* bitmap's (boost's dynamic_bitset checks it with an assertion only).     *)
(***************************************************************************)
EXTENDS Naturals

CONSTANT BitsPerBlock   \* 32: the bits of an unsigned long

(* Bits 0 to size - 1, those in ones are set.                              *)
NewBitmap(reserve) == [size |-> reserve, ones |-> {}]

HaveBit(b, pos) == pos < b.size
Have(b, pos) == HaveBit(b, pos) /\ pos \in b.ones

(* _try_extern                                                             *)
TryExtern(b, pos) ==
  IF HaveBit(b, pos) THEN b
  ELSE [b EXCEPT !.size = @ + BitsPerBlock * ((@ * 2) \div BitsPerBlock + 1)]

(* test and test_and_set, set, just_set: on a bit the bitmap has.          *)
Test(b, pos) == pos \in b.ones
SetTo(b, pos, val) ==
  [b EXCEPT !.ones = IF val THEN @ \cup {pos} ELSE @ \ {pos}]
=============================================================================
