-------------------------- MODULE DatagramService --------------------------
(***************************************************************************)
(* What trans_core promises the layers above it (udt, the simple           *)
(* translation kernel), without sockets, timers or threads.  A package is  *)
(* sent; the node it is for takes it, which is what the acknowledgement    *)
(* says, and later hands it to recv(), once and never again; the sender is *)
(* told of a success only for a package that some node has taken.  Nothing *)
(* is promised about order, and a taken package may stay undelivered: the  *)
(* receiving thread acknowledges first and delivers afterwards.  A node    *)
(* may lose track of a package with a far id before it has delivered it:   *)
(* that one may come out any number of times.                              *)
(***************************************************************************)

CONSTANTS
  Node,  \* the endpoints
  Pkg,   \* the packages that may ever be sent
  Far    \* those whose ids are beyond the first block of a bitmap

VARIABLES
  sent,      \* packages handed to the network
  phase,     \* phase[n][p]: what node n has done with package p
  lost,      \* lost[n]: packages node n lost track of
  succeeded  \* packages whose sender got SEND_COMPLETE

vars == <<sent, phase, lost, succeeded>>

Phase == {"none", "taken", "delivered"}

TypeOK ==
  /\ sent \subseteq Pkg
  /\ phase \in [Node -> [Pkg -> Phase]]
  /\ lost \in [Node -> SUBSET Far]
  /\ succeeded \subseteq Pkg

Init ==
  /\ sent = {}
  /\ phase = [n \in Node |-> [p \in Pkg |-> "none"]]
  /\ lost = [n \in Node |-> {}]
  /\ succeeded = {}

Move(n, p, next) == phase' = [phase EXCEPT ![n][p] = next]

Send(p) ==
  /\ sent' = sent \cup {p}
  /\ UNCHANGED <<phase, lost, succeeded>>

(* Node n acknowledges p.  It may still fail before it delivers.           *)
Take(n, p) ==
  /\ p \in sent
  /\ phase[n][p] = "none"
  /\ Move(n, p, "taken")
  /\ UNCHANGED <<sent, lost, succeeded>>

(* Node n loses track of p, which it has not delivered.                    *)
LosesTrack(n, p) ==
  /\ p \in Far
  /\ phase[n][p] # "delivered"
  /\ lost' = [lost EXCEPT ![n] = @ \cup {p}]

Lose(n, p) == LosesTrack(n, p) /\ UNCHANGED <<sent, phase, succeeded>>

(* A unicast package is taken first, a multicast one is not acknowledged.  *)
(* Once it has been delivered nothing more happens to it, unless track of  *)
(* it was lost: to deliver it again is a step of no consequence here.      *)
Deliver(n, p) ==
  /\ p \in sent
  /\ phase[n][p] # "delivered"
  /\ Move(n, p, "delivered")
  /\ UNCHANGED lost \/ LosesTrack(n, p)
  /\ UNCHANGED <<sent, succeeded>>

Succeed(p) ==
  /\ \E n \in Node : phase[n][p] # "none"
  /\ succeeded' = succeeded \cup {p}
  /\ UNCHANGED <<sent, phase, lost>>

Next ==
  \/ \E p \in Pkg : Send(p) \/ Succeed(p)
  \/ \E n \in Node, p \in Pkg : Take(n, p) \/ Deliver(n, p) \/ Lose(n, p)

Spec == Init /\ [][Next]_vars
=============================================================================
