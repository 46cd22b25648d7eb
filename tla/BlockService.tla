---------------------------- MODULE BlockService ----------------------------
(***************************************************************************)
(* What udt promises its users: nothing comes out under the id of a block  *)
(* before the whole block has arrived, unless a block of another sender    *)
(* has the same id and crossed it; a block is reported sent at most once,  *)
(* and while none of its slices has failed the report means it arrived.    *)
(***************************************************************************)
CONSTANT Group   \* the blocks

VARIABLES
  accepted,  \* blocks given to send_block
  arrived,   \* blocks all of whose bytes are on the other side
  crossed,   \* blocks whose id a block of another sender over there has
  handed,    \* blocks under whose id recv() over there has returned
  reported,  \* blocks the send callback was called for
  failed     \* blocks a slice of which was given up

vars == <<accepted, arrived, crossed, handed, reported, failed>>

Init ==
  /\ accepted = {} /\ arrived = {} /\ crossed = {} /\ handed = {}
  /\ reported = {} /\ failed = {}

(* An empty block has nothing left to carry.                               *)
Accept(g) ==
  /\ g \notin accepted
  /\ accepted' = accepted \cup {g}
  /\ arrived' \in {arrived, arrived \cup {g}}
  /\ UNCHANGED <<crossed, handed, reported, failed>>

Arrive(g) ==
  /\ g \in accepted \ arrived
  /\ arrived' = arrived \cup {g}
  /\ UNCHANGED <<accepted, crossed, handed, reported, failed>>

Cross(g) ==
  /\ g \notin crossed
  /\ crossed' = crossed \cup {g}
  /\ UNCHANGED <<accepted, arrived, handed, reported, failed>>

HandUp(g) ==
  /\ g \in (arrived \cup crossed) \ handed
  /\ handed' = handed \cup {g}
  /\ UNCHANGED <<accepted, arrived, crossed, reported, failed>>

Report(g) ==
  /\ g \in accepted \ reported
  /\ g \in arrived \cup failed
  /\ reported' = reported \cup {g}
  /\ UNCHANGED <<accepted, arrived, crossed, handed, failed>>

Fail(g) ==
  /\ g \in accepted \ failed
  /\ failed' = failed \cup {g}
  /\ UNCHANGED <<accepted, arrived, crossed, handed, reported>>

Next ==
  \E g \in Group :
    \/ Accept(g) \/ Arrive(g) \/ Cross(g)
    \/ HandUp(g) \/ Report(g) \/ Fail(g)

Spec == Init /\ [][Next]_vars
=============================================================================
