-------------------------- MODULE TranslationProofs --------------------------
(***************************************************************************)
(* ToldOnce of Translation for every set of blocks and arrivals and any    *)
(* number of close() calls.  The invariant follows one block: as long as   *)
(* the kernel has it in _groups nobody was told of it, until the loop of   *)
(* close() comes to it; and when it left _groups, it was acknowledged or   *)
(* its timer told the user.  It holds until close() is called again or an  *)
(* exception ends the process, which is what Young says.                   *)
(***************************************************************************)
EXTENDS Translation, TLAPS

TimerState == {"none", "armed", "given up", "gone"}

Stage == {"open", "missed", "looping", "socket closed", "joined", "port closed", "told",
          "closed", "gone", "terminated"}

Message ==
  ({"sent"} \X Block) \cup ({"block"} \X Arrival) \cup {<<"recv_thread_exit">>}

BlockTypes ==
  /\ groups \subseteq Block
  /\ sending \subseteq Block
  /\ packages \subseteq Block
  /\ acked \subseteq Block
  /\ timer \in [Block -> TimerState]
  /\ told \in [Block -> Nat]

CloseTypes ==
  /\ owner \in Stage
  /\ left \subseteq Block
  /\ closes \in Nat

PortTypes ==
  /\ port \in [queue : Seq(Message), alive : BOOLEAN]
  /\ recver \in Message \cup {<<"get">>, <<"thrown">>, <<"ended">>}

Types == BlockTypes /\ CloseTypes /\ PortTypes

-----------------------------------------------------------------------------
(* The invariant.                                                          *)

Young == closes < 2 /\ owner # "terminated"

(* The owner has begun to close exactly when close() was called.           *)
CloseInv ==
  /\ owner = "open" => closes = 0
  /\ owner \notin {"open", "terminated"} => closes >= 1

Finished == {"told", "closed", "gone"}

(* No block is between _register_group and udt's send any more once the    *)
(* kernel closes, and no timer is left once they were stopped.             *)
SentInv(b) == owner # "open" /\ b \in groups => timer[b] # "none"
StoppedInv(b) == owner \in Finished => timer[b] \in {"none", "gone"}

(* A block nobody has sent.                                                *)
FreshInv(b) == timer[b] = "none" => told[b] = 0

(* A block the kernel has: the timer would have struck it off; the loop of *)
(* close() tells of it once and leaves it where it is.                     *)
KeptInv(b) ==
  b \in groups =>
    /\ timer[b] # "given up"
    /\ owner \notin Finished => told[b] = 0
    /\ owner = "told" /\ b \in left => told[b] = 0
    /\ owner = "told" /\ b \notin left => told[b] = 1
    /\ owner \in {"closed", "gone"} => told[b] = 1

(* A block that left _groups.                                              *)
GoneInv(b) ==
  b \notin groups /\ timer[b] # "none" =>
    told[b] \in {0, 1} /\ (b \in acked \/ told[b] = 1)

(* What was posted as sent was acknowledged or given up.                   *)
Reported(b) ==
  \/ recver = <<"sent", b>>
  \/ \E i \in 1 .. Len(port.queue) : port.queue[i] = <<"sent", b>>
ReportedInv(b) ==
  Reported(b) => b \in acked \/ (b \notin groups /\ timer[b] # "none")

BlockInv(b) ==
  /\ SentInv(b) /\ StoppedInv(b)
  /\ FreshInv(b) /\ KeptInv(b) /\ GoneInv(b)
  /\ ReportedInv(b)

ToldInv == Types /\ CloseInv /\ (Young => \A b \in Block : BlockInv(b))

-----------------------------------------------------------------------------
(* The port.                                                               *)

LEMMA AppendFacts ==
  ASSUME NEW q \in Seq(Message), NEW m \in Message
  PROVE  /\ Append(q, m) \in Seq(Message)
         /\ Len(Append(q, m)) = Len(q) + 1
         /\ \A i \in 1 .. Len(q) + 1 :
              Append(q, m)[i] = (IF i = Len(q) + 1 THEN m ELSE q[i])
OBVIOUS

LEMMA TailFacts ==
  ASSUME NEW q \in Seq(Message), q # <<>>
  PROVE  /\ Len(q) >= 1 /\ Head(q) = q[1] /\ Head(q) \in Message
         /\ Tail(q) \in Seq(Message)
         /\ Len(Tail(q)) = Len(q) - 1
         /\ \A i \in 1 .. Len(q) - 1 : Tail(q)[i] = q[i + 1]
OBVIOUS

LEMMA PostedQueue ==
  ASSUME PortTypes, NEW m \in Message
  PROVE  /\ Posted(port, m) = [queue |-> Append(port.queue, m),
                               alive |-> port.alive]
         /\ Append(port.queue, m) \in Seq(Message)
         /\ Len(Append(port.queue, m)) = Len(port.queue) + 1
         /\ \A i \in 1 .. Len(port.queue) + 1 :
              Append(port.queue, m)[i] =
                (IF i = Len(port.queue) + 1 THEN m ELSE port.queue[i])
<1>1. port.queue \in Seq(Message)
  BY DEF PortTypes
<1>2. Posted(port, m) = [queue |-> Append(port.queue, m), alive |-> port.alive]
  BY DEF PortTypes, Posted
<1> QED BY <1>1, <1>2, AppendFacts

LEMMA TakenQueue ==
  ASSUME PortTypes, CanGet(port)
  PROVE  /\ Got(port) = port.queue[1]
         /\ Len(port.queue) >= 1
         /\ Got(port) \in Message
         /\ AfterGet(port) = [queue |-> Tail(port.queue), alive |-> port.alive]
         /\ Tail(port.queue) \in Seq(Message)
         /\ Len(Tail(port.queue)) = Len(port.queue) - 1
         /\ \A i \in 1 .. Len(port.queue) - 1 :
              Tail(port.queue)[i] = port.queue[i + 1]
<1>1. port.queue \in Seq(Message) /\ port.queue # <<>>
  BY DEF PortTypes, CanGet
<1>2. AfterGet(port) = [queue |-> Tail(port.queue), alive |-> port.alive]
  <2>1. PICK q \in Seq(Message), a \in BOOLEAN : port = [queue |-> q, alive |-> a]
    BY DEF PortTypes
  <2>2. q # <<>>
    BY <1>1, <2>1
  <2> DEFINE t == Tail(port.queue)
  <2>3. AfterGet(port) = [port EXCEPT !.queue = t]
    BY Zenon DEF AfterGet
  <2> HIDE DEF t
  <2>4. AfterGet(port) = [queue |-> t, alive |-> port.alive]
    BY <2>1, <2>3
  <2> QED BY <2>4 DEF t
<1> QED BY <1>1, <1>2, TailFacts DEF Got

(* Which blocks are reported as sent after a step on the port.             *)
LEMMA PostReports ==
  ASSUME PortTypes, NEW m \in Message, NEW b \in Block,
         port' = Posted(port, m), recver' = recver, Reported(b)'
  PROVE  Reported(b) \/ m = <<"sent", b>>
<1> DEFINE q == Append(port.queue, m)
<1>1. /\ port'.queue = q
      /\ Len(q) = Len(port.queue) + 1
      /\ \A i \in 1 .. Len(port.queue) + 1 :
           q[i] = (IF i = Len(port.queue) + 1 THEN m ELSE port.queue[i])
      /\ Len(port.queue) \in Nat
  BY PostedQueue DEF PortTypes
<1> HIDE DEF q
<1>2. CASE recver' = <<"sent", b>>
  BY <1>2 DEF Reported
<1>3. CASE \E i \in 1 .. Len(port'.queue) : port'.queue[i] = <<"sent", b>>
  <2>1. PICK i \in 1 .. Len(port.queue) + 1 : q[i] = <<"sent", b>>
    BY <1>1, <1>3
  <2>2. i = Len(port.queue) + 1 \/ i \in 1 .. Len(port.queue)
    BY <1>1, <2>1
  <2>3. i = Len(port.queue) + 1 => m = <<"sent", b>>
    BY <1>1, <2>1
  <2>4. i \in 1 .. Len(port.queue) => port.queue[i] = <<"sent", b>>
    BY <1>1, <2>1
  <2> QED BY <2>2, <2>3, <2>4 DEF Reported
<1>4. \/ recver' = <<"sent", b>>
      \/ \E i \in 1 .. Len(port'.queue) : port'.queue[i] = <<"sent", b>>
  BY Zenon DEF Reported
<1> QED BY <1>2, <1>3, <1>4

LEMMA GetReports ==
  ASSUME PortTypes, NEW b \in Block, CanGet(port),
         recver' = Got(port), port' = AfterGet(port), Reported(b)'
  PROVE  Reported(b)
<1> DEFINE q == Tail(port.queue)
<1>1. /\ port'.queue = q
      /\ recver' = port.queue[1]
      /\ Len(port.queue) >= 1
      /\ Len(q) = Len(port.queue) - 1
      /\ \A i \in 1 .. Len(port.queue) - 1 : q[i] = port.queue[i + 1]
      /\ Len(port.queue) \in Nat
  BY TakenQueue DEF PortTypes
<1> HIDE DEF q
<1>2. CASE recver' = <<"sent", b>>
  <2>1. 1 \in 1 .. Len(port.queue) /\ port.queue[1] = <<"sent", b>>
    BY <1>1, <1>2
  <2> QED BY <2>1, Zenon DEF Reported
<1>3. CASE \E i \in 1 .. Len(port'.queue) : port'.queue[i] = <<"sent", b>>
  <2>1. PICK i \in 1 .. Len(port.queue) - 1 : q[i] = <<"sent", b>>
    BY <1>1, <1>3
  <2>2. i + 1 \in 1 .. Len(port.queue) /\ port.queue[i + 1] = <<"sent", b>>
    BY <1>1, <2>1
  <2> QED BY <2>2 DEF Reported
<1>4. \/ recver' = <<"sent", b>>
      \/ \E i \in 1 .. Len(port'.queue) : port'.queue[i] = <<"sent", b>>
  BY Zenon DEF Reported
<1> QED BY <1>2, <1>3, <1>4

(* A thread that has nothing of the port any more.                         *)
LEMMA IdleReports ==
  ASSUME NEW b \in Block, UNCHANGED port,
         recver' \in {<<"get">>, <<"thrown">>, <<"ended">>, recver}, Reported(b)'
  PROVE  Reported(b)
BY DEF Reported

LEMMA ClosedReports ==
  ASSUME NEW b \in Block, port' = ClosedPort(port), recver' = recver, Reported(b)'
  PROVE  Reported(b)
<1>1. port'.queue = <<>> /\ Len(<<>>) = 0
  BY DEF ClosedPort
<1>2. ~ \E i \in 1 .. Len(port'.queue) : port'.queue[i] = <<"sent", b>>
  BY <1>1
<1> QED BY <1>2 DEF Reported

(* What the thread has when it has something that was sent.                *)
LEMMA SentMessage ==
  ASSUME PortTypes, recver[1] = "sent"
  PROVE  recver[2] \in Block /\ recver = <<"sent", recver[2]>>
BY DEF PortTypes, Message

-----------------------------------------------------------------------------
(* Types and close().                                                      *)

LEMMA InitToldInv == Init => ToldInv
<1> SUFFICES ASSUME Init PROVE ToldInv
  OBVIOUS
<1>1. port = [queue |-> <<>>, alive |-> TRUE]
  BY DEF Init, NewPort
<1>2. Types
  BY <1>1 DEF Init, Types, BlockTypes, CloseTypes, PortTypes, TimerState, Stage
<1>3. CloseInv
  BY DEF Init, CloseInv
<1>4. ASSUME NEW b \in Block PROVE BlockInv(b)
  <2>1. Len(port.queue) = 0 /\ recver = <<"get">>
    BY <1>1 DEF Init
  <2>2. ~ \E i \in 1 .. Len(port.queue) : port.queue[i] = <<"sent", b>>
    BY <2>1
  <2>3. ~ Reported(b)
    BY <2>1, <2>2 DEF Reported
  <2> QED
    BY <2>3 DEF Init, BlockInv, SentInv, StoppedInv, FreshInv, KeptInv, GoneInv,
                ReportedInv, Finished
<1> QED BY <1>2, <1>3, <1>4 DEF ToldInv

LEMMA OneMore ==
  ASSUME NEW n \in Nat
  PROVE  n + 1 \in Nat /\ n + 1 >= 1 /\ (n + 1 < 2 => n < 2)
OBVIOUS

LEMMA ToldMore ==
  ASSUME NEW f \in [Block -> Nat], NEW b \in Block
  PROVE  [f EXCEPT ![b] = @ + 1] \in [Block -> Nat]
OBVIOUS

LEMMA BlockTypesStep ==
  ASSUME Types, [Next]_vars
  PROVE  BlockTypes'
<1> USE DEF Types, BlockTypes, TimerState
<1>0. CASE UNCHANGED blocks
  BY <1>0 DEF blocks
<1>1. ASSUME NEW b \in Block, Register(b) PROVE BlockTypes'
  BY <1>1 DEF Register
<1>2. ASSUME NEW b \in Block, Send(b) PROVE BlockTypes'
  BY <1>2 DEF Send
<1>3. ASSUME NEW b \in Block, Acknowledge(b) PROVE BlockTypes'
  BY <1>3 DEF Acknowledge
<1>4. ASSUME NEW b \in Block, BadSend(b) PROVE BlockTypes'
  <2>1. told' \in [Block -> Nat]
    <3>1. CASE b \in groups
      <4>1. told' = [told EXCEPT ![b] = @ + 1] /\ told \in [Block -> Nat]
        BY <1>4, <3>1 DEF BadSend
      <4> QED BY <4>1, ToldMore, Zenon
    <3>2. CASE b \notin groups
      BY <1>4, <3>2 DEF BadSend
    <3> QED BY <3>1, <3>2
  <2>2. timer' \in [Block -> TimerState]
    BY <1>4 DEF BadSend
  <2>3. /\ groups' \subseteq Block /\ sending' \subseteq Block
        /\ UNCHANGED <<packages, acked>>
    BY <1>4 DEF BadSend
  <2> QED BY <2>1, <2>2, <2>3
<1>5. ASSUME NEW b \in Block, ExitTimer(b) PROVE BlockTypes'
  BY <1>5 DEF ExitTimer
<1>6. CASE EraseGroup
  BY <1>6 DEF EraseGroup
<1>7. CASE TimersStopped
  BY <1>7 DEF TimersStopped
<1>8. CASE TellLeft
  <2>1. PICK b \in left \cap groups : told' = [told EXCEPT ![b] = @ + 1]
    BY <1>8 DEF TellLeft
  <2>2. told \in [Block -> Nat] /\ b \in Block
    BY <2>1
  <2>4. told' \in [Block -> Nat]
    BY <2>1, <2>2, ToldMore, Zenon
  <2>3. UNCHANGED <<groups, sending, packages, timer, acked>>
    BY <1>8 DEF TellLeft
  <2> QED BY <2>3, <2>4
<1> QED
  BY <1>0, <1>1, <1>2, <1>3, <1>4, <1>5, <1>6, <1>7, <1>8
     DEF Next, RecverStep, CloseStep, vars, Arrive, BadSendEnds, Get, GetFails, HandUp,
         RecverEnds, Close, ReceiverExits, PortClosed, Closed, Join

LEMMA CloseTypesStep ==
  ASSUME Types, [Next]_vars
  PROVE  CloseTypes'
<1> USE DEF Types, BlockTypes, CloseTypes, Stage
<1>0. CASE UNCHANGED closing
  BY <1>0 DEF closing
<1>1. CASE Terminate
  BY <1>1 DEF Terminate
<1>2. CASE Close
  <2>1. /\ owner' \in {"socket closed", "missed", "told"} /\ owner \in {"open", "closed"}
        /\ left' \subseteq groups /\ closes' = closes + 1
    BY <1>2 DEF Close
  <2>2. closes \in Nat /\ closes' = closes + 1
    BY <2>1
  <2>3. closes' \in Nat /\ closes' >= 1 /\ (closes' < 2 => closes < 2)
    BY <2>2, OneMore, Zenon
  <2>4. owner' \in Stage
    BY <2>1
  <2>5. left' \subseteq Block
    BY <2>1
  <2> QED BY <2>1, <2>2, <2>3, <2>4, <2>5
<1>3. CASE ReceiverExits \/ PortClosed \/ Closed \/ Join
  BY <1>3 DEF ReceiverExits, PortClosed, Closed, Join
<1>4. CASE TimersStopped \/ TellLeft
  BY <1>4 DEF TimersStopped, TellLeft
<1>5. CASE AfterDatagram
  BY <1>5 DEF AfterDatagram
<1> QED
  BY <1>0, <1>1, <1>2, <1>3, <1>4, <1>5
     DEF Next, RecverStep, CloseStep, vars, Register, Send, Acknowledge,
         Arrive, BadSend, BadSendEnds, ExitTimer, Get, GetFails, EraseGroup, HandUp,
         RecverEnds

LEMMA PortMade ==
  ASSUME NEW q \in Seq(Message), NEW a \in BOOLEAN
  PROVE  [queue |-> q, alive |-> a] \in [queue : Seq(Message), alive : BOOLEAN]
OBVIOUS

LEMMA PostedTypes ==
  ASSUME PortTypes, NEW m \in Message, port' = Posted(port, m),
         UNCHANGED recver
  PROVE  PortTypes'
<1>1. port.alive \in BOOLEAN
  BY DEF PortTypes
<1>2. port' \in [queue : Seq(Message), alive : BOOLEAN]
  <2>1. Append(port.queue, m) \in Seq(Message)
    BY PostedQueue
  <2>2. [queue |-> Append(port.queue, m), alive |-> port.alive]
           \in [queue : Seq(Message), alive : BOOLEAN]
    BY <1>1, <2>1, PortMade, Zenon
  <2> QED BY <2>2, PostedQueue, Zenon
<1> QED BY <1>2 DEF PortTypes

LEMMA PortTypesStep ==
  ASSUME Types, [Next]_vars
  PROVE  PortTypes'
<1> USE DEF Types
<1>0. ASSUME UNCHANGED port,
             recver' \in {recver, <<"get">>, <<"thrown">>, <<"ended">>}
      PROVE  PortTypes'
  BY <1>0 DEF PortTypes
<1>1. ASSUME NEW b \in Block, Acknowledge(b) PROVE PortTypes'
  <2>1. <<"sent", b>> \in Message
    BY DEF Message
  <2> QED BY <1>1, <2>1, PostedTypes DEF Acknowledge
<1>2. ASSUME NEW a \in Arrival, Arrive(a) PROVE PortTypes'
  <2>1. <<"block", a>> \in Message
    BY DEF Message
  <2> QED BY <1>2, <2>1, PostedTypes DEF Arrive
<1>3. ASSUME NEW b \in Block, ExitTimer(b) PROVE PortTypes'
  <2>1. <<"sent", b>> \in Message
    BY DEF Message
  <2>2. CASE port' = Posted(port, <<"sent", b>>)
    BY <1>3, <2>1, <2>2, PostedTypes DEF ExitTimer
  <2> QED BY <1>0, <1>3, <2>2 DEF ExitTimer
<1>4. CASE Get
  <2>1. port.alive \in BOOLEAN
    BY DEF PortTypes
  <2>2. port' \in [queue : Seq(Message), alive : BOOLEAN]
    <3>1. CanGet(port) /\ port' = AfterGet(port)
      BY <1>4, Zenon DEF Get
    <3>2. Tail(port.queue) \in Seq(Message)
      BY <3>1, TakenQueue
    <3>3. [queue |-> Tail(port.queue), alive |-> port.alive]
             \in [queue : Seq(Message), alive : BOOLEAN]
      BY <2>1, <3>2, PortMade, Zenon
    <3> QED BY <3>1, <3>3, TakenQueue, Zenon
  <2> QED BY <1>4, <2>2, TakenQueue DEF Get, PortTypes
<1>5. CASE ReceiverExits
  <2>1. <<"recv_thread_exit">> \in Message
    BY DEF Message
  <2> QED BY <1>5, <2>1, PostedTypes DEF ReceiverExits
<1>6. CASE PortClosed
  <2>1. <<>> \in Seq(Message)
    OBVIOUS
  <2>2. port' = [queue |-> <<>>, alive |-> FALSE] /\ UNCHANGED recver
    BY <1>6, Zenon DEF PortClosed, ClosedPort
  <2>3. port' \in [queue : Seq(Message), alive : BOOLEAN]
    BY <2>1, <2>2, PortMade, Zenon
  <2> QED BY <2>2, <2>3, Zenon DEF PortTypes
<1>7. ASSUME UNCHANGED <<port, recver>> PROVE PortTypes'
  BY <1>7 DEF PortTypes
<1>8. CASE GetFails \/ EraseGroup \/ HandUp \/ RecverEnds
  BY <1>0, <1>8 DEF GetFails, EraseGroup, HandUp, RecverEnds
<1>9. CASE Close \/ TimersStopped \/ TellLeft \/ Closed \/ Join
  BY <1>7, <1>9 DEF Close, TimersStopped, TellLeft, Closed, Join
<1>10. ASSUME NEW b \in Block,
              Register(b) \/ Send(b) \/ BadSend(b) \/ BadSendEnds(b)
       PROVE  PortTypes'
  BY <1>7, <1>10 DEF Register, Send, BadSend, BadSendEnds
<1>11. CASE UNCHANGED vars
  BY <1>7, <1>11 DEF vars
<1> QED
  BY <1>1, <1>2, <1>3, <1>4, <1>5, <1>6, <1>8, <1>9, <1>10, <1>11
     DEF Next, RecverStep, CloseStep

LEMMA CloseInvStep ==
  ASSUME Types, CloseInv, [Next]_vars
  PROVE  CloseInv' /\ (Young' => Young)
<1> USE DEF Types, CloseTypes, CloseInv, Young, Stage
<1>0. CASE UNCHANGED closing
  BY <1>0 DEF closing
<1>1. CASE Terminate
  BY <1>1 DEF Terminate
<1>2. CASE Close
  <2>1. owner' # "open" /\ owner' # "terminated" /\ owner # "terminated"
    BY <1>2 DEF Close
  <2>2. closes \in Nat /\ closes' = closes + 1
    BY <1>2 DEF Close
  <2>3. closes' \in Nat /\ closes' >= 1 /\ (closes' < 2 => closes < 2)
    BY <2>2, OneMore, Zenon
  <2> QED BY <2>1, <2>3
<1>3. CASE ReceiverExits \/ PortClosed \/ Closed \/ Join
  BY <1>3 DEF ReceiverExits, PortClosed, Closed, Join
<1>4. CASE TimersStopped \/ TellLeft
  BY <1>4 DEF TimersStopped, TellLeft
<1>5. CASE AfterDatagram
  BY <1>5 DEF AfterDatagram
<1> QED
  BY <1>0, <1>1, <1>2, <1>3, <1>4, <1>5
     DEF Next, RecverStep, CloseStep, vars, Register, Send, Acknowledge,
         Arrive, BadSend, BadSendEnds, ExitTimer, Get, GetFails, EraseGroup, HandUp,
         RecverEnds

-----------------------------------------------------------------------------
(* One block, action by action.                                            *)

(* What the reports may grow by: blocks acknowledged, or given up.         *)
LEMMA ReportsStep ==
  ASSUME Types, [Next]_vars, NEW b \in Block, Reported(b)'
  PROVE  Reported(b) \/ b \in acked' \/ timer[b] = "given up"
<1> USE DEF Types
<1>1. ASSUME NEW m \in Message, port' = Posted(port, m), UNCHANGED recver
      PROVE  Reported(b) \/ m = <<"sent", b>>
  BY <1>1, PostReports
<1>2. ASSUME UNCHANGED port,
             recver' \in {<<"get">>, <<"thrown">>, <<"ended">>, recver}
      PROVE  Reported(b)
  BY <1>2, IdleReports
<1>3. ASSUME NEW d \in Block, Acknowledge(d)
      PROVE  Reported(b) \/ b \in acked'
  <2>1. <<"sent", d>> \in Message
    BY DEF Message
  <2>2. Reported(b) \/ <<"sent", d>> = <<"sent", b>>
    BY <1>1, <1>3, <2>1 DEF Acknowledge
  <2> QED BY <1>3, <2>2 DEF Acknowledge
<1>4. ASSUME NEW a \in Arrival, Arrive(a)
      PROVE  Reported(b)
  <2>1. <<"block", a>> \in Message /\ <<"block", a>> # <<"sent", b>>
    BY DEF Message
  <2> QED BY <1>1, <1>4, <2>1 DEF Arrive
<1>5. ASSUME NEW d \in Block, ExitTimer(d)
      PROVE  Reported(b) \/ timer[b] = "given up"
  <2>1. <<"sent", d>> \in Message
    BY DEF Message
  <2>2. CASE port' = Posted(port, <<"sent", d>>)
    <3>1. Reported(b) \/ <<"sent", d>> = <<"sent", b>>
      BY <1>1, <1>5, <2>1, <2>2 DEF ExitTimer
    <3> QED BY <1>5, <3>1 DEF ExitTimer
  <2> QED BY <1>2, <1>5, <2>2 DEF ExitTimer
<1>6. CASE Get
  BY <1>6, GetReports DEF Get
<1>7. CASE ReceiverExits
  <2>1. <<"recv_thread_exit">> \in Message /\ <<"recv_thread_exit">> # <<"sent", b>>
    BY DEF Message
  <2> QED BY <1>1, <1>7, <2>1 DEF ReceiverExits
<1>8. CASE PortClosed
  BY <1>8, ClosedReports DEF PortClosed
<1>9. CASE GetFails \/ EraseGroup \/ HandUp \/ RecverEnds
  BY <1>2, <1>9 DEF GetFails, EraseGroup, HandUp, RecverEnds
<1>10. CASE Close \/ TimersStopped \/ TellLeft \/ Closed \/ Join
  BY <1>2, <1>10 DEF Close, TimersStopped, TellLeft, Closed, Join
<1>11. ASSUME NEW d \in Block,
              Register(d) \/ Send(d) \/ BadSend(d) \/ BadSendEnds(d)
       PROVE  Reported(b)
  BY <1>2, <1>11 DEF Register, Send, BadSend, BadSendEnds
<1>12. CASE UNCHANGED vars
  BY <1>2, <1>12 DEF vars
<1> QED
  BY <1>3, <1>4, <1>5, <1>6, <1>7, <1>8, <1>9, <1>10, <1>11, <1>12
     DEF Next, RecverStep, CloseStep

(* What was sent once does not come back into _groups, nor is unsent.      *)
LEMMA GroupsStep ==
  ASSUME Types, [Next]_vars, NEW b \in Block, timer[b] # "none"
  PROVE  b \in groups' => b \in groups
<1> USE DEF Types, BlockTypes
<1>1. ASSUME NEW d \in Block, Register(d) PROVE b \in groups' => b \in groups
  BY <1>1 DEF Register
<1>2. ASSUME NEW d \in Block,
             Send(d) \/ Acknowledge(d) \/ BadSend(d) \/ ExitTimer(d)
      PROVE  b \in groups' => b \in groups
  BY <1>2 DEF Send, Acknowledge, BadSend, ExitTimer
<1>3. CASE EraseGroup
  BY <1>3 DEF EraseGroup
<1> QED
  BY <1>1, <1>2, <1>3
     DEF Next, RecverStep, CloseStep, vars, blocks, BadSendEnds, Arrive, Get, GetFails,
         HandUp, RecverEnds, Close, ReceiverExits, PortClosed, TimersStopped,
         TellLeft, Closed, Join

LEMMA TimerStep ==
  ASSUME Types, [Next]_vars, NEW b \in Block, timer[b] # "none"
  PROVE  timer'[b] # "none"
<1> USE DEF Types, BlockTypes
<1>1. ASSUME NEW d \in Block, Register(d) PROVE timer'[b] # "none"
  BY <1>1 DEF Register
<1>2. ASSUME NEW d \in Block, Send(d) PROVE timer'[b] # "none"
  BY <1>2 DEF Send
<1>3. ASSUME NEW d \in Block, Acknowledge(d) PROVE timer'[b] # "none"
  BY <1>3 DEF Acknowledge
<1>4. ASSUME NEW d \in Block, BadSend(d) \/ ExitTimer(d)
      PROVE  timer'[b] # "none"
  BY <1>4 DEF BadSend, ExitTimer
<1>5. CASE TimersStopped
  BY <1>5 DEF TimersStopped
<1> QED
  BY <1>1, <1>2, <1>3, <1>4, <1>5
     DEF Next, RecverStep, CloseStep, vars, blocks, BadSendEnds, Arrive, Get, GetFails,
         EraseGroup, HandUp, RecverEnds, Close, ReceiverExits, PortClosed,
         TellLeft, Closed, Join

LEMMA AckedStep ==
  ASSUME Types, [Next]_vars
  PROVE  acked \subseteq acked'
<1>1. ASSUME NEW d \in Block, Acknowledge(d) PROVE acked \subseteq acked'
  BY <1>1 DEF Acknowledge
<1> QED
  BY <1>1
     DEF Next, RecverStep, CloseStep, vars, blocks, Register, Send, BadSend,
         BadSendEnds, ExitTimer, Arrive, Get, GetFails, EraseGroup, HandUp, RecverEnds,
         Close, ReceiverExits, PortClosed, TimersStopped, TellLeft, Closed,
         Join

-----------------------------------------------------------------------------
(* The timer's and the kernel's view of a block, without the reports.      *)
ViewInv(b) ==
  SentInv(b) /\ StoppedInv(b) /\ FreshInv(b) /\ KeptInv(b) /\ GoneInv(b)

(* Nothing of it changes.                                                  *)
LEMMA ViewStays ==
  ASSUME NEW b \in Block, ViewInv(b), acked \subseteq acked',
         UNCHANGED <<groups, timer, told, owner, left>>
  PROVE  ViewInv(b)'
BY DEF ViewInv, SentInv, StoppedInv, FreshInv, KeptInv, GoneInv

LEMMA RegisterView ==
  ASSUME Types, NEW b \in Block, ViewInv(b), NEW d \in Block, Register(d)
  PROVE  ViewInv(b)'
<1>1. /\ owner = "open" /\ timer[d] = "none" /\ groups' = groups \cup {d}
      /\ UNCHANGED <<timer, told, acked, owner, left>>
  BY Zenon DEF Register, closing
<1>2. b \in groups' <=> b \in groups \/ b = d
  BY <1>1
<1>3. /\ owner = "open" /\ (b = d => timer[b] = "none")
      /\ UNCHANGED <<timer, told, acked, owner, left>>
  BY <1>1
<1> QED
  BY <1>2, <1>3 DEF ViewInv, SentInv, StoppedInv, FreshInv, KeptInv, GoneInv, Finished

LEMMA SendView ==
  ASSUME Types, NEW b \in Block, ViewInv(b), NEW d \in Block, Send(d)
  PROVE  ViewInv(b)'
<1>1. /\ d \in groups /\ timer[d] = "none"
      /\ timer' = [timer EXCEPT ![d] = "armed"]
      /\ UNCHANGED <<groups, told, acked, owner, left>>
  BY Zenon DEF Send, closing
<1>2. timer'[b] = IF b = d THEN "armed" ELSE timer[b]
  BY <1>1 DEF Types, BlockTypes
<1>3. /\ b = d => b \in groups /\ timer[b] = "none"
      /\ UNCHANGED <<groups, told, acked, owner, left>>
  BY <1>1
<1> QED
  BY <1>2, <1>3
     DEF ViewInv, SentInv, StoppedInv, FreshInv, KeptInv, GoneInv, Finished

LEMMA AcknowledgeView ==
  ASSUME Types, NEW b \in Block, ViewInv(b), NEW d \in Block, Acknowledge(d)
  PROVE  ViewInv(b)'
<1>1. /\ owner \in {"open", "missed"} /\ acked' = acked \cup {d}
      /\ timer' = [timer EXCEPT ![d] = IF @ = "armed" THEN "gone" ELSE @]
      /\ UNCHANGED <<groups, told, left>>
  BY Zenon DEF Acknowledge, Receiving, AfterDatagram
<1>2. timer'[b] = IF b = d /\ timer[b] = "armed" THEN "gone" ELSE timer[b]
  BY <1>1 DEF Types, BlockTypes
<1>3. /\ b \in acked => b \in acked'
      /\ UNCHANGED <<groups, told, left>>
  BY <1>1
<1>4. \/ owner = "open" /\ owner' = "open"
      \/ owner = "missed" /\ owner' = "looping"
  BY <1>1 DEF Acknowledge, AfterDatagram
<1> QED
  BY <1>2, <1>3, <1>4
     DEF ViewInv, SentInv, StoppedInv, FreshInv, KeptInv, GoneInv, Finished

LEMMA ArriveView ==
  ASSUME Types, NEW b \in Block, ViewInv(b), NEW a \in Arrival, Arrive(a)
  PROVE  ViewInv(b)'
<1>1. \/ owner = "open" /\ owner' = "open"
      \/ owner = "missed" /\ owner' = "looping"
  BY DEF Arrive, Receiving, AfterDatagram
<1>2. UNCHANGED <<groups, timer, told, acked, left>>
  BY DEF Arrive, AfterDatagram, blocks
<1> QED
  BY <1>1, <1>2
     DEF ViewInv, SentInv, StoppedInv, FreshInv, KeptInv, GoneInv, Finished

LEMMA BadSendView ==
  ASSUME Types, NEW b \in Block, ViewInv(b), NEW d \in Block, BadSend(d)
  PROVE  ViewInv(b)'
<1>1. /\ timer[d] = "armed" /\ timer' = [timer EXCEPT ![d] = "given up"]
      /\ told' = (IF d \in groups THEN [told EXCEPT ![d] = @ + 1] ELSE told)
      /\ groups' = groups \ {d}
      /\ UNCHANGED <<acked, owner, left>>
  BY Zenon DEF BadSend, closing
<1>2. timer'[b] = IF b = d THEN "given up" ELSE timer[b]
  BY <1>1 DEF Types, BlockTypes
<1>3. told'[b] = IF b = d /\ d \in groups THEN told[b] + 1 ELSE told[b]
  BY <1>1 DEF Types, BlockTypes
<1>4. /\ b \in groups' <=> b \in groups /\ b # d
      /\ b = d => timer[b] = "armed"
      /\ UNCHANGED <<acked, owner, left>>
  BY <1>1
<1>5. CASE b # d
  <2>1. timer'[b] = timer[b] /\ told'[b] = told[b]
    BY <1>2, <1>3, <1>5
  <2> QED
    BY <1>4, <1>5, <2>1
       DEF ViewInv, SentInv, StoppedInv, FreshInv, KeptInv, GoneInv
<1>6. CASE b = d
  <2>1. timer'[b] = "given up" /\ b \notin groups' /\ owner \notin Finished
    BY <1>2, <1>4, <1>6 DEF ViewInv, StoppedInv
  <2>2. told'[b] \in {0, 1} /\ (b \in acked \/ told'[b] = 1)
    <3>1. CASE b \in groups
      <4>1. told[b] = 0
        BY <2>1, <3>1 DEF ViewInv, KeptInv
      <4> QED BY <1>3, <1>6, <3>1, <4>1
    <3>2. CASE b \notin groups
      <4>1. told'[b] = told[b] /\ timer[b] = "armed"
        BY <1>3, <1>4, <1>6, <3>2
      <4> QED BY <3>2, <4>1 DEF ViewInv, GoneInv
    <3> QED BY <3>1, <3>2
  <2> QED
    BY <1>4, <2>1, <2>2
       DEF ViewInv, SentInv, StoppedInv, FreshInv, KeptInv, GoneInv
<1> QED BY <1>5, <1>6

LEMMA ExitTimerView ==
  ASSUME Types, NEW b \in Block, ViewInv(b), NEW d \in Block, ExitTimer(d),
         owner' # "terminated"
  PROVE  ViewInv(b)'
<1>1. /\ timer[d] = "given up" /\ timer' = [timer EXCEPT ![d] = "gone"]
      /\ UNCHANGED <<groups, told, acked, owner, left>>
  BY Zenon DEF ExitTimer, Terminate, closing
<1>2. timer'[b] = IF b = d THEN "gone" ELSE timer[b]
  BY <1>1 DEF Types, BlockTypes
<1>3. /\ b = d => timer[b] = "given up"
      /\ UNCHANGED <<groups, told, acked, owner, left>>
  BY <1>1
<1> QED
  BY <1>2, <1>3
     DEF ViewInv, SentInv, StoppedInv, FreshInv, KeptInv, GoneInv, Finished

(* A report in the thread's hand is of a block acknowledged, or gone.      *)
LEMMA EraseGroupView ==
  ASSUME Types, NEW b \in Block, ViewInv(b), ReportedInv(b), EraseGroup
  PROVE  ViewInv(b)'
<1>1. /\ recver[1] = "sent"
      /\ groups' = (IF recver[2] \in sending THEN groups \ {recver[2]} ELSE groups)
      /\ UNCHANGED <<timer, told, acked, owner, left>>
  BY Zenon DEF EraseGroup, closing
<1>2. CASE b \in groups /\ b \notin groups'
  <2>1. recver = <<"sent", b>>
    BY <1>1, <1>2, SentMessage DEF Types
  <2>2. b \in acked
    BY <1>2, <2>1 DEF ReportedInv, Reported
  <2>3. UNCHANGED <<timer, told, acked, owner, left>>
    BY <1>1
  <2>4. told[b] \in {0, 1}
    BY <1>2 DEF ViewInv, KeptInv, Finished
  <2> QED
    BY <1>2, <2>2, <2>3, <2>4
       DEF ViewInv, SentInv, StoppedInv, FreshInv, KeptInv, GoneInv, Finished
<1>3. CASE b \in groups' <=> b \in groups
  BY <1>1, <1>3
     DEF ViewInv, SentInv, StoppedInv, FreshInv, KeptInv, GoneInv, Finished
<1> QED BY <1>1, <1>2, <1>3

(* The owner goes on, without touching a block.                            *)
LEMMA CloseView ==
  ASSUME Types, CloseInv, NEW b \in Block, ViewInv(b), closes' < 2,
         Close \/ ReceiverExits \/ PortClosed \/ Closed \/ Join
  PROVE  ViewInv(b)'
<1>1. UNCHANGED <<groups, timer, told, acked>>
  BY DEF Close, ReceiverExits, PortClosed, Closed, Join, blocks
<1>2. CASE Close
  <2>1. closes' = closes + 1 /\ closes \in Nat
    BY <1>2, Zenon DEF Close, Types, CloseTypes
  <2>3. closes = 0
    BY <2>1
  <2>4. owner \in {"open", "closed"}
        /\ owner' \in (IF closes = 0 THEN {"socket closed", "missed"} ELSE {"told"})
    BY <1>2, Zenon DEF Close
  <2>5. owner = "open" /\ owner' \in {"socket closed", "missed"}
    <3>1. owner = "closed" => closes >= 1
      BY Zenon DEF CloseInv
    <3>2. owner # "closed"
      BY <2>3, <3>1
    <3> QED BY <2>3, <2>4, <3>2
  <2>2. \A d \in groups : timer[d] # "none"
    BY <1>2 DEF Close
  <2> QED
    BY <1>1, <2>2, <2>5
       DEF ViewInv, SentInv, StoppedInv, FreshInv, KeptInv, GoneInv, Finished
<1>3. CASE ReceiverExits \/ PortClosed
  <2>1. owner \notin Finished /\ owner # "open" /\ owner' \notin Finished
    BY <1>3 DEF ReceiverExits, PortClosed, Finished
  <2> QED
    BY <1>1, <2>1
       DEF ViewInv, SentInv, StoppedInv, FreshInv, KeptInv, GoneInv, Finished
<1>4. CASE Closed
  <2>1. owner = "told" /\ owner' = "closed" /\ ~ (b \in left /\ b \in groups)
    BY <1>4 DEF Closed
  <2> QED
    BY <1>1, <2>1
       DEF ViewInv, SentInv, StoppedInv, FreshInv, KeptInv, GoneInv, Finished
<1>5. CASE Join
  <2>1. owner = "closed" /\ owner' = "gone"
    BY <1>5 DEF Join
  <2> QED
    BY <1>1, <2>1
       DEF ViewInv, SentInv, StoppedInv, FreshInv, KeptInv, GoneInv, Finished
<1> QED BY <1>2, <1>3, <1>4, <1>5

LEMMA TimersStoppedView ==
  ASSUME Types, NEW b \in Block, ViewInv(b), TimersStopped
  PROVE  ViewInv(b)'
<1>1. /\ owner = "port closed" /\ owner' = "told" /\ left' = groups
      /\ timer[b] # "given up"
      /\ timer' = [d \in Block |-> IF timer[d] = "armed" THEN "gone" ELSE timer[d]]
      /\ UNCHANGED <<groups, told, acked>>
  BY DEF TimersStopped
<1>2. timer'[b] = IF timer[b] = "armed" THEN "gone" ELSE timer[b]
  BY <1>1
<1>3. timer[b] \in {"none", "armed", "gone"}
  BY <1>1 DEF Types, BlockTypes, TimerState
<1> QED
  BY <1>1, <1>2, <1>3
     DEF ViewInv, SentInv, StoppedInv, FreshInv, KeptInv, GoneInv, Finished

LEMMA TellLeftView ==
  ASSUME Types, NEW b \in Block, ViewInv(b), TellLeft
  PROVE  ViewInv(b)'
<1>1. PICK d \in left \cap groups :
        told' = [told EXCEPT ![d] = @ + 1] /\ left' = left \ {d}
  BY DEF TellLeft
<1>2. owner = "told" /\ UNCHANGED <<groups, timer, acked, owner>>
  BY DEF TellLeft
<1>3. told'[b] = IF b = d THEN told[b] + 1 ELSE told[b]
  BY <1>1 DEF Types, BlockTypes
<1>4. CASE b # d
  BY <1>1, <1>2, <1>3, <1>4
     DEF ViewInv, SentInv, StoppedInv, FreshInv, KeptInv, GoneInv, Finished
<1>5. CASE b = d
  <2>1. told[b] = 0 /\ b \in groups /\ timer[b] # "none"
    BY <1>1, <1>2, <1>5 DEF ViewInv, KeptInv, SentInv
  <2>2. told'[b] = 1 /\ b \notin left'
    BY <1>1, <1>3, <1>5, <2>1
  <2> QED
    BY <1>2, <1>5, <2>1, <2>2
       DEF ViewInv, SentInv, StoppedInv, FreshInv, KeptInv, GoneInv, Finished
<1> QED BY <1>4, <1>5

LEMMA ViewStep ==
  ASSUME Types, CloseInv, [Next]_vars, Young', NEW b \in Block, BlockInv(b)
  PROVE  ViewInv(b)'
<1>1. ViewInv(b) /\ ReportedInv(b)
  BY DEF BlockInv, ViewInv
<1>2. owner' # "terminated" /\ closes' < 2
  BY DEF Young
<1>3. ASSUME NEW d \in Block,
             \/ Register(d) \/ Send(d) \/ Acknowledge(d)
             \/ BadSend(d) \/ ExitTimer(d)
      PROVE  ViewInv(b)'
  BY <1>1, <1>2, <1>3, RegisterView, SendView, AcknowledgeView, BadSendView,
     ExitTimerView
<1>4. CASE EraseGroup
  BY <1>1, <1>4, EraseGroupView
<1>5. CASE Close \/ ReceiverExits \/ PortClosed \/ Closed \/ Join
  BY <1>1, <1>2, <1>5, CloseView
<1>6. CASE TimersStopped \/ TellLeft
  BY <1>1, <1>6, TimersStoppedView, TellLeftView
<1>7. ASSUME UNCHANGED <<groups, timer, told, acked, owner, left>>
      PROVE  ViewInv(b)'
  BY <1>1, <1>7, ViewStays
<1>8. CASE UNCHANGED vars
  BY <1>7, <1>8 DEF vars, blocks, closing
<1>9. CASE Get \/ HandUp \/ RecverEnds
  BY <1>7, <1>9 DEF Get, HandUp, RecverEnds, blocks, closing
<1>10. ASSUME NEW a \in Arrival, Arrive(a) PROVE ViewInv(b)'
  BY <1>1, <1>10, ArriveView
<1>11. ~ GetFails /\ \A d \in Block : ~ BadSendEnds(d)
  BY <1>2 DEF GetFails, BadSendEnds, Terminate
<1> QED
  BY <1>3, <1>4, <1>5, <1>6, <1>8, <1>9, <1>10, <1>11
     DEF Next, RecverStep, CloseStep

LEMMA ReportedStep ==
  ASSUME Types, [Next]_vars, NEW b \in Block, BlockInv(b)
  PROVE  ReportedInv(b)'
<1> SUFFICES ASSUME Reported(b)', b \notin acked'
             PROVE  b \notin groups' /\ timer'[b] # "none"
  BY DEF ReportedInv
<1>1. b \notin acked
  BY AckedStep
<1>2. Reported(b) \/ timer[b] = "given up"
  BY ReportsStep
<1>3. b \notin groups /\ timer[b] # "none"
  BY <1>1, <1>2 DEF BlockInv, ReportedInv, KeptInv
<1> QED BY <1>3, GroupsStep, TimerStep

LEMMA ToldInvStep == ToldInv /\ [Next]_vars => ToldInv'
<1> SUFFICES ASSUME ToldInv, [Next]_vars PROVE ToldInv'
  OBVIOUS
<1>1. Types /\ CloseInv /\ (Young => \A b \in Block : BlockInv(b))
  BY DEF ToldInv
<1>2. Types'
  BY <1>1, BlockTypesStep, CloseTypesStep, PortTypesStep DEF Types
<1>3. CloseInv' /\ (Young' => Young)
  BY <1>1, CloseInvStep
<1>4. ASSUME Young', NEW b \in Block PROVE BlockInv(b)'
  <2>1. BlockInv(b)
    BY <1>1, <1>3, <1>4
  <2>2. ViewInv(b)'
    BY <1>1, <1>4, <2>1, ViewStep
  <2>3. ReportedInv(b)'
    BY <1>1, <2>1, ReportedStep
  <2> QED BY <2>2, <2>3 DEF BlockInv, ViewInv
<1> QED BY <1>2, <1>3, <1>4 DEF ToldInv

LEMMA ToldInvTold == ToldInv => ToldOnce
<1> SUFFICES ASSUME ToldInv, closes < 2, owner # "terminated", NEW b \in Block
             PROVE  /\ told[b] <= 1
                    /\ owner = "closed" /\ timer[b] # "none" =>
                         b \in acked \/ told[b] = 1
  BY DEF ToldOnce
<1>1. FreshInv(b) /\ KeptInv(b) /\ GoneInv(b)
  BY DEF ToldInv, Young, BlockInv
<1>2. told[b] \in {0, 1}
  BY <1>1 DEF FreshInv, KeptInv, GoneInv, Finished
<1>3. owner = "closed" /\ timer[b] # "none" => b \in acked \/ told[b] = 1
  BY <1>1, Zenon DEF KeptInv, GoneInv
<1> QED BY <1>2, <1>3

-----------------------------------------------------------------------------
(* Until close() is called a second time, the user of the kernel is told   *)
(* at most once that a block failed, and when close() has returned, of     *)
(* every block that was not acknowledged, whatever the receiving thread,   *)
(* the timers and close() do to each other                                 *)
(* (imouto_simple_translation_kernel.hpp:75-83, 168-211).                  *)
THEOREM FailureToldOnce == Spec => []ToldOnce
BY InitToldInv, ToldInvStep, ToldInvTold, PTL DEF Spec
=============================================================================
