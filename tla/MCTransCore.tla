---------------------------- MODULE MCTransCore ----------------------------
(***************************************************************************)
(* Small instances of TransCore for TLC.                                   *)
(***************************************************************************)
EXTENDS TransCore, TLC

CONSTANTS a, b, c, t1, t2

(* Both application threads belong to endpoint a ...                       *)
OneSender == [t \in Thread |-> a]

(* ... or each endpoint has one.                                           *)
TwoSenders == [t \in Thread |-> IF t = t1 THEN a ELSE b]

(* With TwoSenders, exchanging the endpoints together with their threads   *)
(* changes nothing.                                                        *)
Exchange ==
  {f \in Permutations({a, b, t1, t2}) :
     /\ {f[a], f[b]} = {a, b}
     /\ f[a] = a <=> f[t1] = t1}
=============================================================================
