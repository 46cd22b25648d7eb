----------------------------- MODULE Translation ----------------------------
(***************************************************************************)
(* simple_translation_kernel (imouto_simple_translation_kernel.hpp) over   *)
(* udt and trans_core: it keeps the blocks that are being sent, so that it *)
(* can tell its user of those that failed; a thread of its own gets from   *)
(* trans_core's completion port what arrived and what was sent; the timers *)
(* of trans_core give a block up; and close() tears all of it down while   *)
(* the two still run: the socket, trans_core's receiver, the port, the     *)
(* timers, then the report of the blocks that are left.                    *)
(*                                                                         *)
(* A block is one slice here; udt's groups of slices are in Udt, the       *)
(* acknowledgements and the window in TransCore.                           *)
(***************************************************************************)
EXTENDS Naturals, CompletePort

CONSTANTS
  Block,     \* the blocks sent
  Arrival,   \* the blocks that arrive, complete
  Closes     \* how often close() is called: by ~imouto_rpc_client and by
             \* the kernel's own destructor

ASSUME ClosesAssumption == Closes \in Nat \ {0}

VARIABLES
  groups,    \* the kernel's _groups
  sending,   \* udt's _sending_groups
  packages,  \* trans_core's _packages: blocks not yet acknowledged
  timer,     \* the block's timer: "none", "armed", "given up", "gone"
  acked,     \* blocks whose acknowledgement has come
  told,      \* how often the user was told that the block failed
  arrived,   \* blocks that came in
  port,      \* trans_core's _recver_port
  recver,    \* what the kernel's thread is at
  owner,     \* how far close() and the destructor are
  left,      \* the blocks the loop of close() has yet to come to
  closes     \* how often close() was called

blocks == <<groups, sending, packages, timer, acked, told>>
closing == <<owner, left, closes>>
vars == <<blocks, arrived, port, recver, closing>>

(* An exception has left a thread: the process is gone.                    *)
Terminated == owner = "terminated"
Terminate == owner' = "terminated" /\ UNCHANGED <<left, closes>>

(* trans_core's receiving thread reads the socket, or has a datagram in    *)
(* hand when close() closes the socket.  That datagram is its last: the    *)
(* next recvfrom fails with WSAENOTSOCK, none of the errors that end its   *)
(* loop, and it tries again for ever (trans_core.cpp:448-470).             *)
Receiving == owner \in {"open", "missed"}

AfterDatagram ==
  /\ owner' = IF owner = "missed" THEN "looping" ELSE owner
  /\ UNCHANGED <<left, closes>>

Init ==
  /\ groups = {} /\ sending = {} /\ packages = {} /\ acked = {}
  /\ timer = [b \in Block |-> "none"]
  /\ told = [b \in Block |-> 0]
  /\ arrived = {}
  /\ port = NewPort
  /\ recver = <<"get">>
  /\ owner = "open" /\ left = {} /\ closes = 0

-----------------------------------------------------------------------------
(* send: _register_group, before the first slice can be answered ...       *)
Register(b) ==
  /\ owner = "open" /\ b \notin groups /\ timer[b] = "none"
  /\ groups' = groups \cup {b}
  /\ UNCHANGED <<sending, packages, timer, acked, told>>
  /\ UNCHANGED <<arrived, port, recver, closing>>

(* ... and udt's send. It does not fail for one receiver.                  *)
Send(b) ==
  /\ b \in groups /\ timer[b] = "none"
  /\ sending' = sending \cup {b}
  /\ packages' = packages \cup {b}
  /\ timer' = [timer EXCEPT ![b] = "armed"]
  /\ UNCHANGED <<groups, acked, told>>
  /\ UNCHANGED <<arrived, port, recver, closing>>

(* The acknowledgement: the first one is posted and ends the timer, unless *)
(* its callback is giving the block up.                                    *)
Acknowledge(b) ==
  /\ Receiving /\ b \in packages
  /\ packages' = packages \ {b}
  /\ acked' = acked \cup {b}
  /\ port' = Posted(port, <<"sent", b>>)
  /\ timer' = [timer EXCEPT ![b] = IF @ = "armed" THEN "gone" ELSE @]
  /\ AfterDatagram
  /\ UNCHANGED <<groups, sending, told, arrived, recver>>

(* A block complete in udt's reassembly.                                   *)
Arrive(a) ==
  /\ Receiving /\ a \notin arrived
  /\ arrived' = arrived \cup {a}
  /\ port' = Posted(port, <<"block", a>>)
  /\ AfterDatagram
  /\ UNCHANGED <<blocks, recver>>

(* The retries have run out: the callback of the timer tells udt, which    *)
(* tells the kernel, which tells the user if it still has the block.       *)
BadSend(b) ==
  /\ ~Terminated
  /\ timer[b] = "armed"
  /\ timer' = [timer EXCEPT ![b] = "given up"]
  /\ told' = IF b \in groups THEN [told EXCEPT ![b] = @ + 1] ELSE told
  /\ groups' = groups \ {b}
  /\ sending' = sending \ {b}
  /\ UNCHANGED <<packages, acked, arrived, port, recver, closing>>

(* Before udt tells the kernel it cancels the slice, and cancel_io ends a  *)
(* timer by a handle that was never assigned (udt.cpp:277, 303,            *)
(* trans_core.cpp:146): what is there may end the process.                 *)
BadSendEnds(b) ==
  /\ ~Terminated
  /\ timer[b] = "armed"
  /\ Terminate
  /\ UNCHANGED <<blocks, arrived, port, recver>>

(* The rest of the callback posts the failure: to a port that was closed   *)
(* that is an exception nobody catches.                                    *)
ExitTimer(b) ==
  /\ ~Terminated
  /\ timer[b] = "given up"
  /\ timer' = [timer EXCEPT ![b] = "gone"]
  /\ packages' = packages \ {b}
  /\ IF CanPost(port)
     THEN port' = Posted(port, <<"sent", b>>) /\ UNCHANGED closing
     ELSE Terminate /\ UNCHANGED port
  /\ UNCHANGED <<groups, sending, acked, told, arrived, recver>>

-----------------------------------------------------------------------------
(* The kernel's thread: udt's recv() takes what the port has ...           *)
Get ==
  /\ ~Terminated
  /\ recver = <<"get">> /\ CanGet(port)
  /\ recver' = Got(port)
  /\ port' = AfterGet(port)
  /\ UNCHANGED <<blocks, arrived, closing>>

GetFails ==
  /\ ~Terminated
  /\ recver = <<"get">> /\ GetThrows(port)
  /\ recver' = <<"thrown">>
  /\ Terminate
  /\ UNCHANGED <<blocks, arrived, port>>

(* Mutant: the kernel is not told of what was sent.                        *)
EraseGroupInUdt ==
  /\ ~Terminated
  /\ recver[1] = "sent"
  /\ sending' = sending \ {recver[2]}
  /\ recver' = <<"get">>
  /\ UNCHANGED <<groups, packages, timer, acked, told, arrived, port, closing>>

(* ... a slice is done, sent or failed: the group is struck off in udt,    *)
(* and through _success_send in the kernel ...                             *)
EraseGroup ==
  /\ ~Terminated
  /\ recver[1] = "sent"
  /\ LET b == recver[2] IN
     /\ groups' = IF b \in sending THEN groups \ {b} ELSE groups
     /\ sending' = sending \ {b}
  /\ recver' = <<"get">>
  /\ UNCHANGED <<packages, timer, acked, told, arrived, port, closing>>

(* ... a block goes to the user ...                                        *)
HandUp ==
  /\ ~Terminated
  /\ recver[1] = "block"
  /\ recver' = <<"get">>
  /\ UNCHANGED <<blocks, arrived, port, closing>>

(* ... and what trans_core's receiver posts last ends it.                  *)
RecverEnds ==
  /\ ~Terminated
  /\ recver = <<"recv_thread_exit">>
  /\ recver' = <<"ended">>
  /\ UNCHANGED <<blocks, arrived, port, closing>>

-----------------------------------------------------------------------------
(* close(). No thread is inside send() by then.  The receiving thread is   *)
(* in recvfrom when the socket is closed, or misses it.                    *)
Close ==
  /\ owner \in {"open", "closed"} /\ closes < Closes
  /\ \A b \in groups : timer[b] # "none"
  /\ closes' = closes + 1
  /\ owner' \in IF closes = 0 THEN {"socket closed", "missed"} ELSE {"told"}
  /\ left' = IF closes = 0 THEN {} ELSE groups
  /\ UNCHANGED <<blocks, arrived, port, recver>>

(* trans_core's receiver, interrupted in recvfrom, ends; close() waits for *)
(* it.                                                                     *)
ReceiverExits ==
  /\ owner = "socket closed"
  /\ owner' = "joined"
  /\ port' = Posted(port, <<"recv_thread_exit">>)
  /\ UNCHANGED <<blocks, arrived, recver, left, closes>>

PortClosed ==
  /\ owner = "joined"
  /\ owner' = "port closed"
  /\ port' = ClosedPort(port)
  /\ UNCHANGED <<blocks, arrived, recver, left, closes>>

(* Mutant: the timers are left to the destructor of trans_core.            *)
TimersLeft ==
  /\ owner = "port closed"
  /\ owner' = "told" /\ left' = groups
  /\ UNCHANGED <<blocks, arrived, port, recver, closes>>

(* stop() waits for the callbacks of the timers.                           *)
TimersStopped ==
  /\ owner = "port closed" /\ \A b \in Block : timer[b] # "given up"
  /\ timer' = [b \in Block |-> IF timer[b] = "armed" THEN "gone" ELSE timer[b]]
  /\ owner' = "told" /\ left' = groups
  /\ UNCHANGED <<groups, sending, packages, acked, told>>
  /\ UNCHANGED <<arrived, port, recver, closes>>

(* The loop over _groups; nothing is erased, no lock is held.              *)
TellLeft ==
  /\ owner = "told"
  /\ \E b \in left \cap groups :
       /\ told' = [told EXCEPT ![b] = @ + 1]
       /\ left' = left \ {b}
  /\ UNCHANGED <<groups, sending, packages, timer, acked>>
  /\ UNCHANGED <<arrived, port, recver, owner, closes>>

Closed ==
  /\ owner = "told" /\ left \cap groups = {}
  /\ owner' = "closed" /\ left' = {}
  /\ UNCHANGED <<blocks, arrived, port, recver, closes>>

(* The destructor waits for the kernel's thread.                           *)
Join ==
  /\ owner = "closed" /\ closes = Closes /\ recver = <<"ended">>
  /\ owner' = "gone"
  /\ UNCHANGED <<blocks, arrived, port, recver, left, closes>>

-----------------------------------------------------------------------------
RecverStep == Get \/ GetFails \/ EraseGroup \/ HandUp \/ RecverEnds

CloseStep ==
  ReceiverExits \/ PortClosed \/ TimersStopped \/ TellLeft \/ Closed \/ Join

Next ==
  \/ \E b \in Block :
       Register(b) \/ Send(b) \/ Acknowledge(b)
       \/ BadSend(b) \/ BadSendEnds(b) \/ ExitTimer(b)
  \/ \E a \in Arrival : Arrive(a)
  \/ RecverStep
  \/ Close \/ CloseStep

Spec == Init /\ [][Next]_vars

(* The sender goes on, a timer that is not stopped runs out of retries,    *)
(* the kernel's thread runs, and close() goes on.                          *)
Fairness ==
  /\ \A b \in Block : WF_vars(Send(b) \/ BadSend(b) \/ ExitTimer(b))
  /\ WF_vars(RecverStep)
  /\ WF_vars(CloseStep)

FairSpec == Spec /\ Fairness

-----------------------------------------------------------------------------
(* Until close() is called again the user is told at most once that a      *)
(* block failed, by the timer that gave it up or by the loop of close(),   *)
(* and by then every block was acknowledged or the user was told           *)
(* (imouto_simple_translation_kernel.hpp:75-83, 168-211).                  *)
ToldOnce ==
  closes < 2 /\ owner # "terminated" =>
    \A b \in Block :
      /\ told[b] <= 1
      /\ owner = "closed" /\ timer[b] # "none" => b \in acked \/ told[b] = 1

(* Every block that is sent leaves _groups while the kernel is open, and a *)
(* close() that has begun ends (imouto_simple_translation_kernel.hpp:      *)
(* 75-83, 185-211), if the process lives: it ends when a timer's failure   *)
(* comes to a closed port or a slice is cancelled by an unassigned handle; *)
(* and if the receiving thread was in recvfrom when the socket was closed: *)
(* otherwise close() waits for it for ever.                                *)
EventuallySettled ==
  <>[](\/ owner \in {"closed", "gone"} \/ (owner = "open" /\ groups = {})
       \/ owner \in {"terminated", "missed", "looping"})
=============================================================================
