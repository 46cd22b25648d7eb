----------------------------- MODULE FrameFifo -----------------------------
(***************************************************************************)
(* What a datagram_tcp connection promises: the datagrams one end writes   *)
(* come out at the other end whole, once and in the order of writing.      *)
(* Only their lengths are kept.                                            *)
(***************************************************************************)
EXTENDS Naturals, Sequences

CONSTANT Length  \* the lengths a datagram may have

VARIABLES
  sent,   \* lengths of the datagrams written, in order
  passed  \* lengths of the datagrams that came out, in order

vars == <<sent, passed>>

Init == sent = <<>> /\ passed = <<>>

Write ==
  /\ \E l \in Length : sent' = Append(sent, l)
  /\ UNCHANGED passed

Pass ==
  /\ Len(passed) < Len(sent)
  /\ passed' = Append(passed, sent[Len(passed) + 1])
  /\ UNCHANGED sent

Next == Write \/ Pass

Spec == Init /\ [][Next]_vars
=============================================================================
