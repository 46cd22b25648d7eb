---------------------------- MODULE ReceiveFilter ---------------------------
(***************************************************************************)
(* The two bitmaps of trans_core: _packages, where a sender marks the ids  *)
(* it gives its packages, one after the other, until they are acknowledged *)
(* and _received, where the receiver marks the ids that came from a sender *)
(* to drop what comes again. Packages are lost and overtake each other,    *)
(* and a receiver may be started anew while its sender goes on.            *)
(***************************************************************************)
EXTENDS DynamicBitmap, FiniteSets

CONSTANTS
  Threads,     \* how many threads send at a time
  MaxId,       \* bound: the largest id given
  IdBoundary,  \* id_boundary, 4096
  MaxRestarts  \* bound: restarts of the receiver

VARIABLES
  next,      \* _group_allocer
  alloced,   \* ids given, not yet marked: several threads send
  packages,  \* the sender's _packages
  sent,      \* ids on the net; they stay there, and may come again
  biggest,   \* biggest_id of the receiver's thread
  received,  \* the receiver's _received[sender]
  outside,   \* a bit outside of a bitmap was read or written
  restarts

sender == <<next, alloced, packages, sent>>
receiver == <<biggest, received, restarts>>
vars == <<sender, receiver, outside>>

Init ==
  /\ next = 0 /\ alloced = {} /\ packages = NewBitmap(0) /\ sent = {}
  /\ biggest = IdBoundary /\ received = NewBitmap(0)
  /\ outside = FALSE /\ restarts = 0

AllocPackageId ==
  /\ next <= MaxId /\ Cardinality(alloced) < Threads
  /\ alloced' = alloced \cup {next}
  /\ next' = next + 1
  /\ UNCHANGED <<packages, sent, receiver, outside>>

(* assembile_send marks the id, then the package goes.                     *)
Send(id) ==
  LET b == TryExtern(packages, id) IN
  /\ id \in alloced
  /\ alloced' = alloced \ {id}
  /\ packages' = SetTo(b, id, TRUE)
  /\ outside' = (outside \/ ~HaveBit(b, id))
  /\ sent' = sent \cup {id}
  /\ UNCHANGED <<next, receiver>>

(* An acknowledgement: have() looks only where the bitmap is.              *)
Acknowledged(id) ==
  /\ id \in sent /\ Have(packages, id)
  /\ packages' = SetTo(packages, id, FALSE)
  /\ UNCHANGED <<next, alloced, sent, receiver, outside>>

(* A package comes, the first time or again; one that is too far ahead of  *)
(* the largest id is refused before it is looked up.                       *)
Receive(id) ==
  LET b == TryExtern(received, id) IN
  /\ id \in sent /\ id <= biggest * 2
  /\ biggest' = IF id > biggest THEN id ELSE biggest
  /\ received' = SetTo(b, id, TRUE)
  /\ outside' = (outside \/ ~HaveBit(b, id))
  /\ UNCHANGED <<sender, restarts>>

RestartReceiver ==
  /\ restarts < MaxRestarts /\ restarts' = restarts + 1
  /\ biggest' = IdBoundary /\ received' = NewBitmap(0)
  /\ UNCHANGED <<sender, outside>>

Next ==
  \/ AllocPackageId
  \/ \E id \in 0 .. MaxId : Send(id) \/ Acknowledged(id) \/ Receive(id)
  \/ RestartReceiver

Spec == Init /\ [][Next]_vars

(* test_and_set makes room for the bit it sets: no id that passes the      *)
(* check of _recver_thread is looked up or marked outside of the bitmap    *)
(* (dynamic_bitmap.hpp:21-31, dynamic_bitmap.cpp:30-44, 85-97,             *)
(* trans_core.cpp:505-518).                                                *)
MarksInside == ~outside
=============================================================================
