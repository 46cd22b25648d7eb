-------------------------- MODULE TransCoreProofs --------------------------
(***************************************************************************)
(* Proofs about TransCore for any number of endpoints, threads, pool       *)
(* threads and packages, any window, and any budget of failures and        *)
(* cancellations.                                                          *)
(***************************************************************************)
EXTENDS TransCore, TLAPS, FiniteSetTheorems

USE DEF Id, Src, Num, bitVars

(* A thread that works on a package works on one that exists.              *)
WorkOK ==
  /\ \A t \in Thread : spc[t] # "idle" => scur[t] \in Pkg
  /\ \A w \in Worker : wpc[w] # "idle" => wcur[w] \in Pkg
  /\ \A n \in Node : rpc[n] # "recv" => rcur[n] \in Pkg

TypeInv == TypeOK /\ WorkOK

LEMMA InitTypeInv == Init => TypeInv
<1> SUFFICES ASSUME Init PROVE TypeInv
  OBVIOUS
<1>1. /\ nextId \in [Node -> 0 .. MaxId] /\ window \in [Node -> 0 .. SizeMax]
      /\ biggest \in [Node -> Nat]
  <2>1. nextId \in [Node -> 0 .. MaxId]
    <3>1. nextId \in [Node -> FirstIds] /\ FirstIds \subseteq 0 .. MaxId
      BY ConstantsAssumption DEF Init
    <3> QED BY <3>1
  <2>2. window \in [Node -> 0 .. SizeMax]
    BY ConstantsAssumption DEF Init
  <2>3. biggest \in [Node -> Nat]
    BY ConstantsAssumption DEF Init
  <2> QED BY <2>1, <2>2, <2>3
<1>2. /\ received \in [Node -> SUBSET Pkg] /\ bits \in [Node -> [Node -> Nat]]
      /\ astray \in [Node -> SUBSET Pkg]
  BY DEF Init
<1>3. /\ retry \in [Pkg -> 0 .. (RetryLimit + 1)] /\ faults \in 0 .. MaxFaults
  BY ConstantsAssumption DEF Init
<1>4. TypeOK
  BY <1>1, <1>2, <1>3
  DEF Init, TypeOK, TimerState, Than, SendState, CallbackState, RecvState
<1>5. WorkOK
  BY DEF Init, WorkOK
<1> QED BY <1>4, <1>5 DEF TypeInv

LEMMA SendTypeInv ==
  ASSUME TypeInv, NEW t \in Thread, Send(t) PROVE TypeInv'
<1> USE ConstantsAssumption, NamesAssumption DEF TypeInv, TypeOK, WorkOK, SendState, TimerState,
    sendVars, timerVars, workVars, recvVars, toldVars, faultVars, ThreadAt, Fault, Release
<1>1. ASSUME NEW a \in Address, Assemble(t, a) PROVE TypeInv'
  <2>1. <<Home[t], nextId[Home[t]]>> \in Pkg
    BY <1>1 DEF Assemble, Pkg
  <2>2. nextId' \in [Node -> 0 .. MaxId]
    BY <1>1 DEF Assemble
  <2>3. dest' \in [Pkg -> Node \cup {Multicast, NoAddress}]
    BY <1>1, <2>1 DEF Assemble
  <2>4. /\ timer' \in [Pkg -> TimerState]
        /\ retry' \in [Pkg -> 0 .. (RetryLimit + 1)]
    <3>1. CASE a = Multicast  BY <1>1, <3>1 DEF Assemble
    <3>2. CASE a # Multicast
      <4>1. PICK r \in FreshRetry :
              retry' = [retry EXCEPT ![<<Home[t], nextId[Home[t]]>>] = r]
        BY <1>1, <3>2 DEF Assemble
      <4>2. r \in 0 .. (RetryLimit + 1)  OBVIOUS
      <4>3. QED BY <1>1, <2>1, <3>2, <4>1, <4>2 DEF Assemble
    <3>3. QED BY <3>1, <3>2
  <2>5. /\ spc' \in [Thread -> SendState]
        /\ scur' \in [Thread -> Pkg \cup {NoPkg}]
        /\ packages' \subseteq Pkg
    BY <1>1, <2>1 DEF Assemble
  <2>6. TypeOK'
    BY <1>1, <2>2, <2>3, <2>4, <2>5 DEF Assemble
  <2>7. WorkOK'
    BY <1>1, <2>1 DEF Assemble
  <2>8. QED BY <2>6, <2>7
<1>2. CASE CheckWindow(t)  BY <1>2 DEF CheckWindow
<1>3. CASE ChargeWindow(t)  BY <1>3 DEF ChargeWindow, Decremented
<1>4. CASE StartTimer(t)  BY <1>4 DEF StartTimer
<1>5. CASE StartTimerFails(t)  BY <1>5 DEF StartTimerFails
<1>6. CASE SendTo(t)  BY <1>6 DEF SendTo, Data, Kind
<1>7. QED BY <1>1, <1>2, <1>3, <1>4, <1>5, <1>6 DEF Send

LEMMA CallbackTypeInv ==
  ASSUME TypeInv, NEW w \in Worker,
         Callback(w) \/ \E p \in Pkg : Fire(w, p)
  PROVE  TypeInv'
<1> USE ConstantsAssumption, NamesAssumption DEF TypeInv, TypeOK, WorkOK, CallbackState, Than,
    sendVars, timerVars, workVars, recvVars, toldVars, faultVars, WorkerAt, Fault
<1>1. CASE Stun(w)  BY <1>1 DEF Stun, Counted
<1>2. CASE Retransmit(w)  BY <1>2 DEF Retransmit, Counted, Data, Kind
<1>3. CASE RetransmitFails(w)  BY <1>3 DEF RetransmitFails, Counted
<1>4. CASE ExitTimer(w)
  BY <1>4 DEF ExitTimer, Untracked, ReportFailure, CancelWhenCallbackExit
<1>5. CASE ExitTimerUnlocked(w)
  BY <1>5 DEF ExitTimerUnlocked, ReportFailure, CancelWhenCallbackExit
<1>6. CASE Crack(w)
  <2>0. than' \in [Pkg -> Than]
    <3>1. \/ than' = [than EXCEPT ![wcur[w]] = "PROCESSING"]
          \/ than' = than
      BY <1>6 DEF Crack
    <3> QED BY <3>1
  <2>1. /\ wpc' \in [Worker -> CallbackState] /\ wcur' \in [Worker -> Pkg \cup {NoPkg}]
        /\ than' \in [Pkg -> Than] /\ exits' \subseteq Pkg
        /\ UNCHANGED <<sendVars, timer, retry, endless, releases, snap, recvVars,
                       toldVars, faultVars, packages, net>>
    <3>1. exits' \subseteq exits \cup {wcur[w]} /\ wcur[w] \in Pkg
      BY <1>6 DEF Crack
    <3>2. exits' \subseteq Pkg
      BY <3>1
    <3>3. /\ wpc' = [wpc EXCEPT ![w] = "idle"] /\ wcur' = [wcur EXCEPT ![w] = NoPkg]
          /\ UNCHANGED <<sendVars, timer, retry, endless, releases, snap, recvVars,
                         toldVars, faultVars, packages, net>>
      BY <1>6 DEF Crack
    <3> QED BY <2>0, <3>2, <3>3
  <2>2. TypeOK'
    <3> HIDE ConstantsAssumption, NamesAssumption DEF Fault, WorkerAt, WorkOK
    <3> QED BY <2>1
  <2>3. WorkOK'
    BY <1>6 DEF Crack
  <2> QED BY <2>2, <2>3
<1>7. ASSUME NEW p \in Pkg, Fire(w, p) PROVE TypeInv'
  <2>1. /\ wpc' \in [Worker -> CallbackState] /\ wcur' \in [Worker -> Pkg \cup {NoPkg}]
        /\ UNCHANGED <<sendVars, timerVars, snap, recvVars, toldVars, faultVars,
                       packages, net>>
    BY <1>7 DEF Fire
  <2>2. TypeOK'
    <3> HIDE ConstantsAssumption, NamesAssumption DEF Fault, WorkerAt, WorkOK
    <3> QED BY <2>1
  <2>3. WorkOK'
    BY <1>7 DEF Fire
  <2> QED BY <2>2, <2>3
<1>8. QED BY <1>1, <1>2, <1>3, <1>4, <1>5, <1>6, <1>7 DEF Callback

(* The updates of the two-level history and of the bitmaps keep their type. *)
LEMMA CountUpdate ==
  ASSUME NEW A, NEW B, NEW f \in [A -> [B -> Nat]], NEW x \in A, NEW y \in B
  PROVE  [f EXCEPT ![x][y] = @ + 1] \in [A -> [B -> Nat]]
OBVIOUS

LEMMA MarkUpdate ==
  ASSUME NEW A, NEW B, NEW f \in [A -> SUBSET B], NEW x \in A, NEW y \in B
  PROVE  [f EXCEPT ![x] = @ \cup {y}] \in [A -> SUBSET B]
OBVIOUS

LEMMA IncrementedType ==
  ASSUME NEW x \in 0 .. SizeMax PROVE Incremented(x) \in 0 .. SizeMax
BY ConstantsAssumption DEF Incremented

(* A bitmap that is looked into keeps its type, and is at least one block  *)
(* long after it.                                                          *)
LEMMA ExtendedType ==
  ASSUME bits \in [Node -> [Node -> Nat]], NEW n \in Node, NEW p \in Pkg
  PROVE  /\ Blocks(n, p) \in Nat
         /\ Extended(n, p) \in Nat /\ bits[n][Src(p)] <= Extended(n, p)
         /\ Num(p) >= Extended(n, p) => Num(p) >= BitsPerBlock
         /\ \A k \in 0 .. Blocks(n, p) : bits[n][Src(p)] + k * BitsPerBlock \in Nat
<1>1. PICK x \in Nat, y \in Nat, B \in Nat \ {0} :
        x = bits[n][Src(p)] /\ y = Num(p) /\ B = BitsPerBlock
  BY ConstantsAssumption DEF Pkg
<1>2. (2 * x) \div B \in Nat
  <2> DEFINE m == 2 * x
  <2>1. m \in Nat
    OBVIOUS
  <2> HIDE DEF m
  <2>2. m \div B \in Nat
    BY <2>1
  <2> QED BY <2>2 DEF m
<1>3. PICK d \in Nat : d = (2 * x) \div B
  BY <1>2
<1>4. PICK b \in Nat : b = Blocks(n, p) /\ (x <= y => b >= 1)
  <2>1. CASE x <= y
    BY <1>1, <1>3, <2>1 DEF Blocks
  <2>2. CASE ~ (x <= y)
    BY <1>1, <2>2 DEF Blocks
  <2> QED BY <2>1, <2>2
<1>5. B * b \in Nat /\ (b >= 1 => B * b >= B)
  <2>1. b >= 1 => B * b >= B * 1
    OBVIOUS
  <2> QED BY <2>1
<1>6. ASSUME NEW k \in 0 .. b PROVE x + k * B \in Nat
  <2>1. k * B \in Nat
    OBVIOUS
  <2> QED BY <2>1
<1>7. Extended(n, p) = x + B * b
  BY <1>1, <1>4 DEF Extended
<1>8. x + B * b \in Nat /\ x <= x + B * b /\ (y >= x + B * b => y >= B)
  <2>1. PICK c \in Nat : c = B * b /\ (b >= 1 => c >= B)
    BY <1>5
  <2>2. x + c \in Nat /\ x <= x + c /\ (y >= x + c => y >= B)
    <3>1. x + c \in Nat /\ x <= x + c /\ c <= x + c
      OBVIOUS
    <3>2. ASSUME y >= x + c PROVE y >= B
      <4>1. x <= y /\ c <= y
        BY <3>1, <3>2
      <4>2. b >= 1
        BY <1>4, <4>1
      <4>3. c >= B
        BY <2>1, <4>2
      <4> QED BY <4>1, <4>3
    <3> QED BY <3>1, <3>2
  <2> QED BY <2>1, <2>2
<1>9. /\ Extended(n, p) \in Nat /\ bits[n][Src(p)] <= Extended(n, p)
      /\ Num(p) >= Extended(n, p) => Num(p) >= BitsPerBlock
  <2> HIDE DEF Src, Num
  <2> QED BY <1>1, <1>7, <1>8
<1>10. \A k \in 0 .. Blocks(n, p) : bits[n][Src(p)] + k * BitsPerBlock \in Nat
  <2> HIDE DEF Src, Num
  <2> QED BY <1>1, <1>4, <1>6
<1> QED BY <1>4, <1>9, <1>10

LEMMA BitsUpdate ==
  ASSUME NEW A, NEW f \in [A -> [A -> Nat]], NEW x \in A, NEW y \in A, NEW k \in Nat
  PROVE  [f EXCEPT ![x][y] = k] \in [A -> [A -> Nat]]
OBVIOUS

(* What looking for a bit does to the bitmaps, whichever way it ends.      *)
Looked(n, p) ==
  /\ Extend(n, p)
  /\ \/ Inside(n, p) /\ astray' = astray
        /\ received' \in {received, [received EXCEPT ![n] = @ \cup {p}]}
     \/ ~ Inside(n, p) /\ received' = received
        /\ astray' = [astray EXCEPT ![n] = @ \cup {p}]

LEMMA LookedEither ==
  ASSUME NEW n, NEW p, FirstTime(n, p) \/ Repeated(n, p) PROVE Looked(n, p)
BY DEF FirstTime, Repeated, Looked

BitTypes ==
  /\ received \in [Node -> SUBSET Pkg]
  /\ bits \in [Node -> [Node -> Nat]]
  /\ astray \in [Node -> SUBSET Pkg]

LEMMA LookedTypes ==
  ASSUME BitTypes, NEW n \in Node, NEW p \in Pkg, Looked(n, p) PROVE BitTypes'
<1>1. Src(p) \in Node
  BY DEF Pkg
<1>2. bits' \in [Node -> [Node -> Nat]]
  BY <1>1, ExtendedType, BitsUpdate DEF Looked, Extend, BitTypes
<1>3. /\ [received EXCEPT ![n] = @ \cup {p}] \in [Node -> SUBSET Pkg]
      /\ [astray EXCEPT ![n] = @ \cup {p}] \in [Node -> SUBSET Pkg]
  BY MarkUpdate DEF BitTypes
<1> QED BY <1>2, <1>3 DEF Looked, BitTypes

LEMMA DeliverTypes ==
  ASSUME TypeInv, NEW n \in Node, Deliver(n) \/ DeliverOutOfMemory(n)
  PROVE  delivered' \in [Node -> [Pkg -> Nat]] /\ BitTypes'
<1>1. delivered \in [Node -> [Pkg -> Nat]] /\ BitTypes
  BY DEF TypeInv, TypeOK, BitTypes
<1>2. PICK q \in Pkg : q = rcur[n] /\ Src(q) \in Node
  BY DEF Deliver, DeliverOutOfMemory, RecvAt, TypeInv, WorkOK, Pkg
<1>3. [delivered EXCEPT ![n][q] = @ + 1] \in [Node -> [Pkg -> Nat]]
  BY <1>1, <1>2, CountUpdate
<1>4. FirstTime(n, q) \/ Repeated(n, q) => BitTypes'
  BY <1>1, LookedEither, LookedTypes
<1>5. CASE Deliver(n)  BY <1>1, <1>2, <1>3, <1>4, <1>5 DEF Deliver
<1>6. CASE DeliverOutOfMemory(n)
  <2>1. delivered' = delivered
    BY <1>6 DEF DeliverOutOfMemory
  <2>2. CASE FirstTime(n, q)
    BY <1>1, <1>4, <2>1, <2>2
  <2>3. CASE /\ \E k \in 0 .. (Blocks(n, q) - 1) :
                  bits' = [bits EXCEPT ![n][Src(q)] = @ + k * BitsPerBlock]
             /\ UNCHANGED <<received, astray>>
    <3>1. PICK k \in 0 .. (Blocks(n, q) - 1) :
                  bits' = [bits EXCEPT ![n][Src(q)] = @ + k * BitsPerBlock]
      BY <2>3
    <3>2. PICK x : x = bits[n][Src(q)] + k * BitsPerBlock
      OBVIOUS
    <3>3. k \in 0 .. Blocks(n, q)
      BY <1>1, ExtendedType DEF BitTypes
    <3>4. x \in Nat
      BY <1>1, <3>2, <3>3, ExtendedType DEF BitTypes
    <3>5. bits' = [bits EXCEPT ![n][Src(q)] = x]
      BY <3>1, <3>2
    <3> HIDE DEF Src
    <3>6. bits' \in [Node -> [Node -> Nat]]
      BY <1>1, <1>2, <3>4, <3>5, BitsUpdate DEF BitTypes
    <3> QED BY <1>1, <2>1, <2>3, <3>6 DEF BitTypes
  <2> QED BY <1>2, <1>6, <2>2, <2>3 DEF DeliverOutOfMemory
<1>7. QED BY <1>5, <1>6

LEMMA ReceiveTypeInv ==
  ASSUME TypeInv, NEW n \in Node, Receive(n) PROVE TypeInv'
<1> USE ConstantsAssumption, NamesAssumption DEF TypeInv, TypeOK, WorkOK, RecvState, TimerState,
    sendVars, timerVars, workVars, recvVars, toldVars, faultVars, RecvAt, Fault, Release
<1>1. ASSUME NEW p \in Pkg, RecvAck(n, p) PROVE TypeInv'
  <2>1. window' \in [Node -> 0 .. SizeMax]
    BY <1>1, IncrementedType DEF RecvAck
  <2>2. packages' \subseteq Pkg  BY <1>1 DEF RecvAck
  <2>3. QED BY <1>1, <2>1, <2>2 DEF RecvAck
<1>2. ASSUME NEW p \in Pkg, RecvData(n, p) PROVE TypeInv'
  <2>1. Num(p) \in Nat  BY DEF Pkg
  <2>2. AckFor(p) \subseteq [kind : Kind, pkg : Pkg]
    BY DEF AckFor, Ack, Kind
  <2>3. biggest' \in [Node -> Nat]  BY <1>2, <2>1 DEF RecvData
  <2>4. QED BY <1>2, <2>2, <2>3 DEF RecvData
<1>3. CASE PostComplete(n)  BY <1>3 DEF PostComplete
<1>4. CASE CancelTimer(n)  BY <1>4 DEF CancelTimer
<1>5. CASE TimerCancelled(n)  BY <1>5 DEF TimerCancelled
<1>6. CASE Deliver(n)
  <2>1. /\ delivered' \in [Node -> [Pkg -> Nat]]
        /\ received' \in [Node -> SUBSET Pkg]
        /\ bits' \in [Node -> [Node -> Nat]]
        /\ astray' \in [Node -> SUBSET Pkg]
    BY <1>6, DeliverTypes DEF BitTypes
  <2>2. /\ rpc' = [rpc EXCEPT ![n] = "recv"] /\ rcur' = [rcur EXCEPT ![n] = NoPkg]
        /\ UNCHANGED <<sendVars, timerVars, workVars, biggest, toldVars, faultVars,
                       packages, net>>
    BY <1>6 DEF Deliver
  <2>3. TypeOK'
    <3> HIDE ConstantsAssumption, NamesAssumption DEF Fault, RecvAt, WorkOK
    <3> QED BY <2>1, <2>2
  <2>4. WorkOK'
    BY <2>2
  <2>5. QED BY <2>3, <2>4 DEF TypeInv
<1>7. CASE DeliverOutOfMemory(n)
  <2>1. /\ Fault /\ RecvAt(n, "deliver", "exited")
        /\ UNCHANGED <<sendVars, timerVars, workVars, rcur, biggest, delivered,
                       toldVars, packages, net>>
    BY <1>7 DEF DeliverOutOfMemory
  <2>2. /\ received' \in [Node -> SUBSET Pkg]
        /\ bits' \in [Node -> [Node -> Nat]]
        /\ astray' \in [Node -> SUBSET Pkg]
    BY <1>7, DeliverTypes DEF BitTypes
  <2>3. faults' \in 0 .. MaxFaults /\ crashed' = crashed
    BY <2>1
  <2>4. rpc' \in [Node -> RecvState]
    BY <2>1
  <2>5. TypeOK'
    <3> HIDE ConstantsAssumption, NamesAssumption DEF Fault, RecvAt, WorkOK
    <3> QED BY <2>1, <2>2, <2>3, <2>4
  <2>6. WorkOK'
    BY <2>1
  <2>7. QED BY <2>5, <2>6 DEF TypeInv
<1>8. CASE PostCompleteOutOfMemory(n)
  BY <1>8 DEF PostCompleteOutOfMemory
<1>9. CASE DeliverCrashes(n)
  BY <1>9 DEF DeliverCrashes
<1> HIDE DEF TypeInv, TypeOK, WorkOK, RecvState, TimerState, sendVars, timerVars,
    workVars, recvVars, toldVars, faultVars, RecvAt, Fault, Release
<1>10. QED BY <1>1, <1>2, <1>3, <1>4, <1>5, <1>6, <1>7, <1>8, <1>9 DEF Receive

LEMMA OtherTypeInv ==
  ASSUME TypeInv, NEW p \in Pkg, ReleaseOnExit(p) \/ CancelIo(p) PROVE TypeInv'
<1> USE ConstantsAssumption, NamesAssumption DEF TypeInv, TypeOK, WorkOK, TimerState,
    sendVars, timerVars, workVars, recvVars, toldVars, faultVars, Release
<1>1. CASE ReleaseOnExit(p)  BY <1>1 DEF ReleaseOnExit
<1>2. ASSUME dest[p] \in Node,
             FirstTime(Src(p), Opposite(p)) \/ Repeated(Src(p), Opposite(p))
      PROVE  /\ received' \in [Node -> SUBSET Pkg]
             /\ bits' \in [Node -> [Node -> Nat]]
             /\ astray' \in [Node -> SUBSET Pkg]
  <2>1. PICK n \in Node, q \in Pkg : n = Src(p) /\ q = Opposite(p)
    BY <1>2 DEF Opposite, Pkg
  <2>2. BitTypes
    BY DEF BitTypes
  <2> HIDE DEF TypeInv, TypeOK, WorkOK
  <2>3. Looked(n, q)
    BY <1>2, <2>1, LookedEither
  <2> QED BY <2>2, <2>3, LookedTypes DEF BitTypes
<1>3. ASSUME CancelMarks(p)
      PROVE  packages' \subseteq Pkg /\ Src(p) \in Node
  BY <1>3 DEF CancelMarks, Pkg
<1>4. CASE CancelCrashes(p)  BY <1>2, <1>3, <1>4 DEF CancelCrashes, CancelMarks
<1>5. CASE CancelUnnoticed(p)  BY <1>2, <1>3, <1>5 DEF CancelUnnoticed, CancelMarks
<1>6. CASE CancelNothing(p)  BY <1>2, <1>6 DEF CancelNothing
<1>7. QED BY <1>1, <1>4, <1>5, <1>6 DEF CancelIo

(* The types of the state and of the program counters are kept by every    *)
(* step of every thread.                                                   *)
THEOREM TypeCorrect == Spec => [](TypeOK /\ WorkOK)
<1>1. TypeInv /\ [Next]_vars => TypeInv'
  <2> SUFFICES ASSUME TypeInv, [Next]_vars PROVE TypeInv'
    OBVIOUS
  <2>1. CASE Next
    BY <2>1, SendTypeInv, CallbackTypeInv, ReceiveTypeInv, OtherTypeInv DEF Next
  <2>2. CASE UNCHANGED vars
    BY <2>2 DEF vars, sendVars, timerVars, workVars, recvVars, toldVars,
       faultVars, TypeInv, TypeOK, WorkOK
  <2>3. QED BY <2>1, <2>2
<1>2. QED BY <1>1, InitTypeInv, PTL DEF Spec, TypeInv

-----------------------------------------------------------------------------
(* A package that was delivered has its bit set in the bitmap of its       *)
(* receiver, unless it was looked for beyond the bitmap; bits are never    *)
(* cleared and bitmaps never shrink, so what was marked is found again.    *)
Marked(n, p) ==
  /\ p \in received[n] => Num(p) < bits[n][Src(p)]
  /\ p \in astray[n] => Num(p) >= BitsPerBlock
  /\ \/ delivered[n][p] = 0
     \/ delivered[n][p] = 1 /\ p \in received[n]
     \/ p \in astray[n]

DeliveredMarked == \A n \in Node, p \in Pkg : Marked(n, p)

(* What looking for q's bit at n does to the mark of a package p at m.     *)
LEMMA LookedMark ==
  ASSUME TypeInv, DeliveredMarked, NEW n \in Node, NEW q \in Pkg, Looked(n, q),
         NEW m \in Node, NEW p \in Pkg
  PROVE  /\ bits[m][Src(p)] <= bits'[m][Src(p)]
         /\ received[m] \subseteq received'[m] /\ astray[m] \subseteq astray'[m]
         /\ p \in received'[m] => Num(p) < bits'[m][Src(p)]
         /\ p \in astray'[m] => Num(p) >= BitsPerBlock
<1>1. PICK S \in Node, T \in Node, k \in Nat, i \in Nat :
        S = Src(p) /\ T = Src(q) /\ k = Num(p) /\ i = Num(q)
  BY DEF Pkg
<1>2. PICK e \in Nat : /\ e = Extended(n, q) /\ bits[n][T] <= e
                       /\ i >= e => i >= BitsPerBlock
  BY <1>1, ExtendedType DEF TypeInv, TypeOK
<1>3. bits' = [bits EXCEPT ![n][T] = e]
  BY <1>1, <1>2 DEF Looked, Extend
<1>4. /\ bits \in [Node -> [Node -> Nat]] /\ received \in [Node -> SUBSET Pkg]
      /\ astray \in [Node -> SUBSET Pkg]
  BY DEF TypeInv, TypeOK
<1>5. bits'[m][S] = IF m = n /\ S = T THEN e ELSE bits[m][S]
  BY <1>3, <1>4
<1>6. bits[m][S] \in Nat /\ bits'[m][S] \in Nat /\ bits[m][S] <= bits'[m][S]
  BY <1>2, <1>4, <1>5
<1>7. \/ i < e /\ astray' = astray
         /\ received' \in {received, [received EXCEPT ![n] = @ \cup {q}]}
      \/ ~ (i < e) /\ received' = received
         /\ astray' = [astray EXCEPT ![n] = @ \cup {q}]
  BY <1>1, <1>2 DEF Looked, Inside
<1>8. received[m] \subseteq received'[m] /\ astray[m] \subseteq astray'[m]
  BY <1>4, <1>7
<1>0. p \in received[m] => k < bits[m][S]
  BY <1>1 DEF DeliveredMarked, Marked
<1>9. ASSUME p \in received'[m] PROVE k < bits'[m][S]
  <2>1. CASE p \in received[m]
    BY <1>0, <1>6, <2>1
  <2>2. CASE p \notin received[m]
    <3>1. p = q /\ m = n /\ i < e
      BY <1>4, <1>7, <1>9, <2>2
    <3> QED BY <1>1, <1>5, <3>1
  <2> QED BY <2>1, <2>2
<1>10. ASSUME p \in astray'[m] PROVE k >= BitsPerBlock
  <2>1. CASE p \in astray[m]
    BY <1>1, <2>1 DEF DeliveredMarked, Marked
  <2>2. CASE p \notin astray[m]
    <3>1. p = q /\ m = n /\ ~ (i < e)
      BY <1>4, <1>7, <1>10, <2>2
    <3> QED BY <1>1, <1>2, <3>1
  <2> QED BY <2>1, <2>2
<1> HIDE DEF Src, Num
<1> QED BY <1>1, <1>6, <1>8, <1>9, <1>10

(* Looking for a bit without delivering anything.                          *)
LEMMA LookedKept ==
  ASSUME TypeInv, DeliveredMarked, NEW n \in Node, NEW q \in Pkg, Looked(n, q),
         delivered' = delivered
  PROVE  DeliveredMarked'
<1> SUFFICES ASSUME NEW m \in Node, NEW p \in Pkg PROVE Marked(m, p)'
  BY DEF DeliveredMarked
<1>1. Marked(m, p)
  BY DEF DeliveredMarked
<1> HIDE DEF Src, Num
<1> QED BY <1>1, LookedMark DEF Marked

LEMMA DeliveredMarkedStep ==
  ASSUME TypeInv, DeliveredMarked, [Next]_vars PROVE DeliveredMarked'
<1>1. CASE UNCHANGED <<delivered, received, bits, astray>>
  BY <1>1 DEF DeliveredMarked, Marked
<1>2. ASSUME NEW n \in Node, Deliver(n) PROVE DeliveredMarked'
  <2>1. PICK q \in Pkg : q = rcur[n]
    BY <1>2 DEF Deliver, RecvAt, TypeInv, WorkOK
  <2>2. CASE Repeated(n, q) /\ UNCHANGED delivered
    BY <2>2, LookedEither, LookedKept
  <2>3. CASE FirstTime(n, q) /\ delivered' = [delivered EXCEPT ![n][q] = @ + 1]
    <3> SUFFICES ASSUME NEW m \in Node, NEW p \in Pkg PROVE Marked(m, p)'
      BY DEF DeliveredMarked
    <3>1. /\ received[m] \subseteq received'[m] /\ astray[m] \subseteq astray'[m]
          /\ p \in received'[m] => Num(p) < bits'[m][Src(p)]
          /\ p \in astray'[m] => Num(p) >= BitsPerBlock
      BY <2>3, LookedEither, LookedMark
    <3>2. /\ delivered \in [Node -> [Pkg -> Nat]]
          /\ received \in [Node -> SUBSET Pkg] /\ astray \in [Node -> SUBSET Pkg]
      BY DEF TypeInv, TypeOK
    <3>3. \/ delivered[m][p] = 0
          \/ delivered[m][p] = 1 /\ p \in received[m]
          \/ p \in astray[m]
      BY DEF DeliveredMarked, Marked
    <3>4. CASE ~ (m = n /\ p = q)
      <4>1. delivered'[m][p] = delivered[m][p]
        BY <2>3, <3>2, <3>4
      <4> HIDE DEF Src, Num
      <4> QED BY <3>1, <3>3, <4>1 DEF Marked
    <3>5. CASE m = n /\ p = q
      <4>1. CASE Inside(n, q)
        <5>1. q \notin received[n] /\ q \in received'[n]
          BY <2>3, <3>2, <4>1 DEF FirstTime, AlreadyReceived
        <5>2. delivered'[n][q] = delivered[n][q] + 1
          BY <2>3, <3>2
        <5> HIDE DEF Src, Num
        <5> QED BY <3>1, <3>3, <3>5, <5>1, <5>2 DEF Marked
      <4>2. CASE ~ Inside(n, q)
        <5>1. q \in astray'[n]
          BY <2>3, <3>2, <4>2 DEF FirstTime
        <5> HIDE DEF Src, Num
        <5> QED BY <3>1, <3>5, <5>1 DEF Marked
      <4> QED BY <4>1, <4>2
    <3>6. QED BY <3>4, <3>5
  <2>4. QED BY <1>2, <2>1, <2>2, <2>3 DEF Deliver
<1>3. ASSUME NEW n \in Node, DeliverOutOfMemory(n) PROVE DeliveredMarked'
  <2>1. PICK q \in Pkg : q = rcur[n]
    BY <1>3 DEF DeliverOutOfMemory, RecvAt, TypeInv, WorkOK
  <2>2. delivered' = delivered
    BY <1>3 DEF DeliverOutOfMemory
  <2>3. CASE FirstTime(n, q)
    BY <2>2, <2>3, LookedEither, LookedKept
  <2>4. CASE /\ \E k \in 0 .. (Blocks(n, q) - 1) :
                  bits' = [bits EXCEPT ![n][Src(q)] = @ + k * BitsPerBlock]
             /\ UNCHANGED <<received, astray>>
    <3>1. PICK k \in 0 .. (Blocks(n, q) - 1) :
                  bits' = [bits EXCEPT ![n][Src(q)] = @ + k * BitsPerBlock]
      BY <2>4
    <3>2. PICK x \in Nat : x = k * BitsPerBlock
      <4>1. k \in Nat
        BY ExtendedType DEF TypeInv, TypeOK
      <4> QED BY <4>1, ConstantsAssumption
    <3>3. \A m \in Node, s \in Node :
            bits[m][s] \in Nat /\ bits[m][s] <= bits'[m][s] /\ bits'[m][s] \in Nat
      <4>1. bits \in [Node -> [Node -> Nat]] /\ Src(q) \in Node
        BY DEF TypeInv, TypeOK, Pkg
      <4>2. bits' = [bits EXCEPT ![n][Src(q)] = @ + x]
        BY <3>1, <3>2
      <4> HIDE DEF Src, Num
      <4> QED BY <4>1, <4>2
    <3> SUFFICES ASSUME NEW m \in Node, NEW p \in Pkg PROVE Marked(m, p)'
      BY DEF DeliveredMarked
    <3>4. Marked(m, p) /\ Src(p) \in Node /\ Num(p) \in Nat
      BY DEF DeliveredMarked, Pkg
    <3> HIDE DEF Src, Num
    <3> QED BY <2>2, <2>4, <3>3, <3>4 DEF Marked
  <2>5. QED BY <1>3, <2>1, <2>3, <2>4 DEF DeliverOutOfMemory
<1>4. ASSUME NEW p \in Pkg, CancelIo(p) PROVE DeliveredMarked'
  <2>1. PICK n \in Node, q \in Pkg : n = Src(p) /\ q = Opposite(p)
    BY <1>4 DEF CancelIo, CancelNothing, CancelCrashes, CancelUnnoticed,
       CancelMarks, Opposite, Pkg
  <2>2. FirstTime(n, q) \/ Repeated(n, q)
    BY <1>4, <2>1 DEF CancelIo, CancelNothing, CancelCrashes, CancelUnnoticed,
       CancelMarks
  <2>3. delivered' = delivered
    BY <1>4 DEF CancelIo, CancelNothing, CancelCrashes, CancelUnnoticed
  <2> QED BY <2>2, <2>3, LookedEither, LookedKept
<1>5. ASSUME NEW t \in Thread, Send(t) PROVE DeliveredMarked'
  BY <1>1, <1>5 DEF Send, Assemble, CheckWindow, ChargeWindow, StartTimer,
     StartTimerFails, SendTo, recvVars
<1>6. ASSUME NEW w \in Worker, Callback(w) \/ \E p \in Pkg : Fire(w, p)
      PROVE  DeliveredMarked'
  BY <1>1, <1>6 DEF Callback, Stun, Retransmit, RetransmitFails, ExitTimer,
     ExitTimerUnlocked, Crack, Fire, recvVars
<1>7. ASSUME NEW n \in Node, Receive(n) PROVE DeliveredMarked'
  BY <1>1, <1>2, <1>3, <1>7 DEF Receive, RecvAck, RecvData, PostComplete,
     PostCompleteOutOfMemory, CancelTimer, TimerCancelled, DeliverCrashes, recvVars
<1>8. ASSUME NEW p \in Pkg, ReleaseOnExit(p) PROVE DeliveredMarked'
  BY <1>1, <1>8 DEF ReleaseOnExit, recvVars
<1>9. QED BY <1>1, <1>4, <1>5, <1>6, <1>7, <1>8 DEF Next, vars, recvVars

LEMMA DeliveredMarkedAlways == Spec => []DeliveredMarked
<1>1. Init => DeliveredMarked
  BY DEF Init, DeliveredMarked, Marked
<1>2. TypeInv /\ DeliveredMarked /\ [Next]_vars => DeliveredMarked'
  BY DeliveredMarkedStep
<1>3. QED BY <1>1, <1>2, TypeCorrect, PTL DEF Spec, TypeInv

(* recv() hands a package to the application at most once, under any       *)
(* duplication, reordering, failure of the receive thread and cancellation, *)
(* unless its id was beyond the end of the bitmap when it first came; no   *)
(* id of the first block ever is.                                          *)
THEOREM AtMostOnce == Spec => []DeliveredAtMostOnce
<1>1. DeliveredMarked => DeliveredAtMostOnce
  BY DEF DeliveredMarked, Marked, DeliveredAtMostOnce
<1>2. QED BY <1>1, DeliveredMarkedAlways, PTL

-----------------------------------------------------------------------------
(* Why a success is true: what the acknowledgement, the state of the       *)
(* receive thread and the count of completions say about the destination.  *)

(* Ids that were not allocated have no destination.                        *)
FreshInv ==
  \A p \in Pkg : Num(p) >= nextId[Src(p)] => dest[p] = NoAddress

AckInv ==
  \A p \in Pkg : Ack(p) \in net => dest[p] \in Node /\ Taken(dest[p], p)

(* A success needs an acknowledgement, a delivery needs a datagram.        *)
CauseInv ==
  /\ \A n \in Node : rpc[n] = "complete" => Ack(rcur[n]) \in net
  /\ \A p \in Pkg : complete[p] > 0 => Ack(p) \in net
  /\ \A n \in Node : rpc[n] = "deliver" => Data(rcur[n]) \in net

SuccessInv == FreshInv /\ AckInv /\ CauseInv

LEMMA DataIsNoAck == \A p, q : Data(p) # Ack(q)
BY DEF Data, Ack

LEMMA AckInjective == \A p, q : Ack(p) = Ack(q) => p = q
BY DEF Ack

(* What n has looked for.                                                  *)
Seen(n) == received[n] \cup astray[n]

LEMMA LookedSeen ==
  ASSUME TypeInv, NEW n \in Node, NEW q \in Pkg, FirstTime(n, q) \/ Repeated(n, q)
  PROVE  /\ \A m \in Node : Seen(m) \subseteq Seen(m)'
         /\ q \in Seen(n)'
<1>1. /\ received \in [Node -> SUBSET Pkg] /\ astray \in [Node -> SUBSET Pkg]
  BY DEF TypeInv, TypeOK
<1> QED BY <1>1 DEF FirstTime, Repeated, AlreadyReceived, Seen

(* Steps that neither acknowledge nor complete nor move a receive thread.  *)
LEMMA QuietStep ==
  ASSUME SuccessInv, TypeInv,
         UNCHANGED <<nextId, dest, rpc, rcur, complete>>,
         net \subseteq net',
         \A p \in Pkg : Ack(p) \in net' => Ack(p) \in net,
         \A n \in Node : Seen(n) \subseteq Seen(n)'
  PROVE  SuccessInv'
<1>1. FreshInv'  BY DEF SuccessInv, FreshInv
<1>2. AckInv'  BY DEF SuccessInv, AckInv, Taken, Seen
<1>3. CauseInv'  BY DEF SuccessInv, CauseInv
<1>4. QED BY <1>1, <1>2, <1>3 DEF SuccessInv

LEMMA SuccessSend ==
  ASSUME SuccessInv, TypeInv, NEW t \in Thread, Send(t) PROVE SuccessInv'
<1>1. ASSUME NEW a \in Address, Assemble(t, a) PROVE SuccessInv'
  <2> DEFINE n == Home[t]
             p == <<n, nextId[n]>>
  <2>1. n \in Node /\ p \in Pkg /\ nextId[n] \in 0 .. MaxId
    <3>1. n \in Node  BY NamesAssumption
    <3>2. nextId[n] \in 0 .. MaxId  BY <3>1 DEF TypeInv, TypeOK
    <3>3. nextId[n] < MaxId  BY <1>1 DEF Assemble
    <3>4. nextId[n] \in Id  BY <3>2, <3>3, ConstantsAssumption
    <3>5. p \in Pkg  BY <3>1, <3>4 DEF Pkg
    <3>6. QED BY <3>1, <3>2, <3>5
  <2>2. /\ nextId' = [nextId EXCEPT ![n] = @ + 1]
        /\ dest' = [dest EXCEPT ![p] = a]
        /\ UNCHANGED <<rpc, rcur, received, astray, complete, net>>
    BY <1>1 DEF Assemble, recvVars, toldVars
  <2>3. Ack(p) \notin net
    <3>1. dest[p] = NoAddress  BY <2>1 DEF SuccessInv, FreshInv
    <3>2. NoAddress \notin Node  BY NamesAssumption
    <3>3. QED BY <2>1, <3>1, <3>2 DEF SuccessInv, AckInv
  <2>4. FreshInv'
    <3> SUFFICES ASSUME NEW q \in Pkg, Num(q) >= nextId'[Src(q)]
                 PROVE  dest'[q] = NoAddress
      BY DEF FreshInv
    <3>0. Src(q) \in Node /\ Num(q) \in Nat  BY DEF Pkg
    <3>1. q # p /\ Num(q) >= nextId[Src(q)]
      BY <2>1, <2>2, <3>0 DEF TypeInv, TypeOK
    <3>2. dest[q] = NoAddress  BY <3>1 DEF SuccessInv, FreshInv
    <3>3. QED BY <2>2, <3>1, <3>2 DEF TypeInv, TypeOK
  <2>5. AckInv'
    <3> SUFFICES ASSUME NEW q \in Pkg, Ack(q) \in net'
                 PROVE  (dest[q] \in Node /\ Taken(dest[q], q))'
      BY DEF AckInv
    <3>1. q # p /\ Ack(q) \in net  BY <2>2, <2>3
    <3>2. dest'[q] = dest[q]  BY <2>2, <3>1 DEF TypeInv, TypeOK
    <3>3. QED BY <2>2, <3>1, <3>2 DEF SuccessInv, AckInv, Taken
  <2>6. CauseInv'  BY <2>2 DEF SuccessInv, CauseInv
  <2>7. QED BY <2>4, <2>5, <2>6 DEF SuccessInv
<1>2. ASSUME CheckWindow(t) \/ ChargeWindow(t) \/ StartTimer(t) \/ StartTimerFails(t)
      PROVE  SuccessInv'
  BY <1>2, QuietStep DEF CheckWindow, ChargeWindow, StartTimer, StartTimerFails,
     recvVars, toldVars, Seen
<1>3. CASE SendTo(t)
  BY <1>3, QuietStep, DataIsNoAck DEF SendTo, recvVars, toldVars, Seen
<1>4. QED BY <1>1, <1>2, <1>3 DEF Send

LEMMA SuccessCallback ==
  ASSUME SuccessInv, TypeInv, NEW w \in Worker,
         Callback(w) \/ \E p \in Pkg : Fire(w, p)
  PROVE  SuccessInv'
<1>1. CASE Retransmit(w)
  BY <1>1, QuietStep, DataIsNoAck DEF Retransmit, sendVars, recvVars, toldVars,
     Seen
<1>2. CASE Stun(w) \/ RetransmitFails(w) \/ Crack(w) \/ \E p \in Pkg : Fire(w, p)
  BY <1>2, QuietStep DEF Stun, RetransmitFails, Crack, Fire, sendVars, recvVars,
     toldVars, Seen
<1>3. CASE ExitTimer(w) \/ ExitTimerUnlocked(w)
  BY <1>3, QuietStep DEF ExitTimer, ExitTimerUnlocked, ReportFailure, sendVars,
     recvVars, Seen
<1>4. QED BY <1>1, <1>2, <1>3 DEF Callback

LEMMA SuccessOther ==
  ASSUME SuccessInv, TypeInv, NEW p \in Pkg, ReleaseOnExit(p) \/ CancelIo(p)
  PROVE  SuccessInv'
<1>1. CASE ReleaseOnExit(p)
  BY <1>1, QuietStep DEF ReleaseOnExit, sendVars, recvVars, toldVars, Seen
<1>2. ASSUME CancelIo(p) PROVE \A n \in Node : Seen(n) \subseteq Seen(n)'
  <2>1. PICK n \in Node, q \in Pkg : n = Src(p) /\ q = Opposite(p)
    BY <1>2 DEF CancelIo, CancelNothing, CancelCrashes, CancelUnnoticed,
       CancelMarks, Opposite, Pkg
  <2>2. FirstTime(n, q) \/ Repeated(n, q)
    BY <1>2, <2>1 DEF CancelIo, CancelNothing, CancelCrashes, CancelUnnoticed,
       CancelMarks
  <2> QED BY <2>2, LookedSeen
<1>3. CASE CancelIo(p)
  <2>1. UNCHANGED <<nextId, dest, rpc, rcur, complete, net>>
    BY <1>3 DEF CancelIo, CancelNothing, CancelCrashes, CancelUnnoticed, sendVars,
       toldVars
  <2> QED BY <1>2, <1>3, <2>1, QuietStep
<1>4. QED BY <1>1, <1>3

LEMMA SuccessReceive ==
  ASSUME SuccessInv, TypeInv, NEW n \in Node, Receive(n) PROVE SuccessInv'
<1> USE DEF RecvAt
<1>0. /\ rpc \in [Node -> RecvState] /\ rcur \in [Node -> Pkg \cup {NoPkg}]
      /\ received \in [Node -> SUBSET Pkg] /\ astray \in [Node -> SUBSET Pkg]
      /\ complete \in [Pkg -> Nat]
  BY DEF TypeInv, TypeOK
<1>1. ASSUME UNCHANGED <<nextId, dest>> PROVE FreshInv'
  BY <1>1 DEF SuccessInv, FreshInv
<1>2. ASSUME NEW p \in Pkg, RecvAck(n, p) PROVE SuccessInv'
  <2>1. /\ rpc[n] = "recv" /\ Ack(p) \in net
        /\ rpc' = [rpc EXCEPT ![n] = "complete"]
        /\ rcur' = [rcur EXCEPT ![n] = p]
        /\ UNCHANGED <<nextId, dest, received, astray, complete, net>>
    BY <1>2 DEF RecvAck, toldVars
  <2>2. AckInv'  BY <1>0, <2>1 DEF SuccessInv, AckInv, Taken
  <2>3. CauseInv'  BY <1>0, <2>1 DEF SuccessInv, CauseInv
  <2>4. QED BY <1>1, <2>1, <2>2, <2>3 DEF SuccessInv
<1>3. ASSUME NEW p \in Pkg, RecvData(n, p) PROVE SuccessInv'
  <2>1. /\ rpc[n] = "recv" /\ Data(p) \in net /\ dest[p] \in {n, Multicast}
        /\ rpc' = [rpc EXCEPT ![n] = "deliver"]
        /\ rcur' = [rcur EXCEPT ![n] = p]
        /\ net' = net \cup AckFor(p)
        /\ UNCHANGED <<nextId, dest, received, astray, complete>>
    BY <1>3 DEF RecvData, AddressedTo, sendVars, toldVars
  <2>2. AckInv'
    <3> SUFFICES ASSUME NEW q \in Pkg, Ack(q) \in net'
                 PROVE  dest[q] \in Node /\ Taken(dest[q], q)'
      BY <2>1 DEF AckInv
    <3>1. CASE Ack(q) \in net
      BY <1>0, <2>1, <3>1 DEF SuccessInv, AckInv, Taken
    <3>2. CASE Ack(q) \notin net
      <4>1. q = p /\ dest[p] = n
        BY <2>1, <3>2, AckInjective DEF AckFor
      <4>2. QED BY <1>0, <2>1, <4>1 DEF Taken
    <3>3. QED BY <3>1, <3>2
  <2>3. CauseInv'  BY <1>0, <2>1 DEF SuccessInv, CauseInv
  <2>4. QED BY <1>1, <2>1, <2>2, <2>3 DEF SuccessInv
<1>4. CASE PostComplete(n)
  <2>1. /\ rpc[n] = "complete" /\ rcur[n] \in Pkg
        /\ rpc' = [rpc EXCEPT ![n] = "cancel"]
        /\ complete' \in {complete, [complete EXCEPT ![rcur[n]] = @ + 1]}
        /\ UNCHANGED <<nextId, dest, rcur, received, astray, net>>
    BY <1>4 DEF PostComplete, sendVars, TypeInv, WorkOK
  <2>2. AckInv'  BY <1>0, <2>1 DEF SuccessInv, AckInv, Taken
  <2>3. CauseInv'
    <3>1. Ack(rcur[n]) \in net  BY <2>1 DEF SuccessInv, CauseInv
    <3>2. QED BY <1>0, <2>1, <3>1 DEF SuccessInv, CauseInv
  <2>4. QED BY <1>1, <2>1, <2>2, <2>3 DEF SuccessInv
<1>5. CASE CancelTimer(n) \/ TimerCancelled(n)
  <2>1. /\ rpc[n] \in {"cancel", "wait"}
        /\ \/ rpc' = [rpc EXCEPT ![n] = "wait"] /\ rcur' = rcur
           \/ rpc' = [rpc EXCEPT ![n] = "recv"] /\ rcur' = [rcur EXCEPT ![n] = NoPkg]
        /\ UNCHANGED <<nextId, dest, received, astray, complete, net>>
    BY <1>5 DEF CancelTimer, TimerCancelled, sendVars, toldVars
  <2>2. AckInv'  BY <1>0, <2>1 DEF SuccessInv, AckInv, Taken
  <2>3. CauseInv'  BY <1>0, <2>1 DEF SuccessInv, CauseInv
  <2>4. QED BY <1>1, <2>1, <2>2, <2>3 DEF SuccessInv
<1>6. CASE Deliver(n)
  <2>1. PICK q \in Pkg : q = rcur[n] /\ rpc[n] = "deliver"
    BY <1>6 DEF Deliver, TypeInv, WorkOK
  <2>2. FirstTime(n, q) \/ Repeated(n, q)
    BY <1>6, <2>1 DEF Deliver
  <2>3. q \in Seen(n)' /\ \A m \in Node : Seen(m) \subseteq Seen(m)'
    BY <2>2, LookedSeen
  <2>4. /\ rpc' = [rpc EXCEPT ![n] = "recv"]
        /\ rcur' = [rcur EXCEPT ![n] = NoPkg]
        /\ UNCHANGED <<nextId, dest, complete, net>>
    BY <1>6 DEF Deliver, sendVars, toldVars
  <2>5. AckInv'
    BY <1>0, <2>1, <2>3, <2>4 DEF SuccessInv, AckInv, Taken, Seen
  <2>6. CauseInv'  BY <1>0, <2>1, <2>4 DEF SuccessInv, CauseInv
  <2>7. QED BY <1>1, <2>4, <2>5, <2>6 DEF SuccessInv
<1>7. CASE DeliverOutOfMemory(n)
  <2>1. PICK q \in Pkg : q = rcur[n] /\ rpc[n] = "deliver"
    BY <1>7 DEF DeliverOutOfMemory, TypeInv, WorkOK
  <2>2. FirstTime(n, q) \/ UNCHANGED <<received, astray>>
    BY <1>7, <2>1 DEF DeliverOutOfMemory
  <2>3. \A m \in Node : Seen(m) \subseteq Seen(m)'
    BY <2>2, LookedSeen DEF Seen
  <2>4. /\ rpc' = [rpc EXCEPT ![n] = "exited"]
        /\ UNCHANGED <<nextId, dest, rcur, complete, net>>
    BY <1>7 DEF DeliverOutOfMemory, sendVars, toldVars
  <2>5. AckInv'
    BY <1>0, <2>1, <2>3, <2>4 DEF SuccessInv, AckInv, Taken, Seen
  <2>6. CauseInv'  BY <1>0, <2>1, <2>4 DEF SuccessInv, CauseInv
  <2>7. QED BY <1>1, <2>4, <2>5, <2>6 DEF SuccessInv
<1>8. CASE PostCompleteOutOfMemory(n)
  <2>1. /\ rpc[n] = "complete" /\ rpc' = [rpc EXCEPT ![n] = "unposted"]
        /\ UNCHANGED <<nextId, dest, rcur, received, astray, complete, net>>
    BY <1>8 DEF PostCompleteOutOfMemory, sendVars, toldVars
  <2>2. AckInv'  BY <1>0, <2>1 DEF SuccessInv, AckInv, Taken
  <2>3. CauseInv'  BY <1>0, <2>1 DEF SuccessInv, CauseInv
  <2>4. QED BY <1>1, <2>1, <2>2, <2>3 DEF SuccessInv
<1>9. CASE DeliverCrashes(n)
  BY <1>9, QuietStep DEF DeliverCrashes, sendVars, recvVars, toldVars, Seen
<1>10. QED BY <1>2, <1>3, <1>4, <1>5, <1>6, <1>7, <1>8, <1>9 DEF Receive

LEMMA SuccessInvAlways == Spec => []SuccessInv
<1>1. Init => SuccessInv
  BY DEF Init, SuccessInv, FreshInv, AckInv, CauseInv
<1>2. TypeInv /\ SuccessInv /\ [Next]_vars => SuccessInv'
  <2> SUFFICES ASSUME TypeInv, SuccessInv, [Next]_vars PROVE SuccessInv'
    OBVIOUS
  <2>1. CASE Next
    BY <2>1, SuccessSend, SuccessCallback, SuccessReceive, SuccessOther DEF Next
  <2>2. CASE UNCHANGED vars
    BY <2>2, QuietStep DEF vars, sendVars, recvVars, toldVars, Seen
  <2>3. QED BY <2>1, <2>2
<1>3. QED BY <1>1, <1>2, TypeCorrect, PTL DEF Spec, TypeInv

(* SEND_COMPLETE is only posted for a package that its destination took,   *)
(* whatever fails and whatever is cancelled.                               *)
THEOREM SuccessIsTaken == Spec => []SuccessOnlyIfTaken
<1>1. SuccessInv => SuccessOnlyIfTaken
  BY DEF SuccessInv, AckInv, CauseInv, SuccessOnlyIfTaken
<1>2. QED BY <1>1, SuccessInvAlways, PTL

-----------------------------------------------------------------------------
(* trans_core implements DatagramService.                                  *)

ServiceInv == TypeInv /\ DeliveredMarked /\ SuccessInv

(* A package a receive thread has acknowledged has left the phase "none".  *)
LEMMA AcknowledgedPhase ==
  ASSUME ServiceInv, NEW p \in Pkg, Ack(p) \in net
  PROVE  dest[p] \in Node /\ PhaseOf(dest[p], p) # "none"
BY DEF ServiceInv, SuccessInv, AckInv, PhaseOf

LEMMA SameService ==
  ASSUME TypeInv, UNCHANGED <<dest, delivered, astray, complete, net>>
  PROVE  UNCHANGED Service!vars
BY DEF Service!vars, PhaseOf

(* A step that sends p's datagram and changes nothing else the service     *)
(* sees.                                                                   *)
LEMMA SendService ==
  ASSUME TypeInv, NEW p \in Pkg, net' = net \cup {Data(p)},
         UNCHANGED <<dest, delivered, astray, complete>>
  PROVE  Service!Send(p)
<1>1. \A q \in Pkg : Ack(q) \in net' <=> Ack(q) \in net
  BY DataIsNoAck
<1>2. [n \in Node |-> [q \in Pkg |-> PhaseOf(n, q)]]' =
      [n \in Node |-> [q \in Pkg |-> PhaseOf(n, q)]]
  BY <1>1 DEF PhaseOf
<1>3. {q \in Pkg : Data(q) \in net}' = {q \in Pkg : Data(q) \in net} \cup {p}
  BY DEF Data
<1>4. QED BY <1>2, <1>3 DEF Service!Send

(* Assembling gives a fresh package its destination: nothing was           *)
(* acknowledged or delivered for it, so no phase changes.                  *)
LEMMA AssembleService ==
  ASSUME ServiceInv, NEW t \in Thread, NEW a \in Address, Assemble(t, a)
  PROVE  UNCHANGED Service!vars
<1> DEFINE n == Home[t]
           p == <<n, nextId[n]>>
<1>1. n \in Node /\ nextId[n] \in 0 .. MaxId
  BY NamesAssumption DEF ServiceInv, TypeInv, TypeOK
<1>2. p \in Pkg
  <2>1. nextId[n] < MaxId  BY DEF Assemble
  <2>2. QED BY <1>1, <2>1, ConstantsAssumption DEF Pkg
<1>3. /\ dest' = [dest EXCEPT ![p] = a]
      /\ UNCHANGED <<delivered, astray, complete, net>>
  BY DEF Assemble, recvVars, toldVars
<1>4. Ack(p) \notin net
  <2>1. dest[p] = NoAddress
    BY <1>1, <1>2 DEF ServiceInv, SuccessInv, FreshInv
  <2>2. QED
    BY <1>2, <2>1, NamesAssumption DEF ServiceInv, SuccessInv, AckInv
<1>5. ASSUME NEW m \in Node, NEW q \in Pkg PROVE PhaseOf(m, q)' = PhaseOf(m, q)
  <2>1. CASE q = p
    BY <1>3, <1>4, <2>1 DEF PhaseOf
  <2>2. CASE q # p
    BY <1>3, <2>2 DEF PhaseOf, ServiceInv, TypeInv, TypeOK
  <2>3. QED BY <2>1, <2>2
<1>6. [m \in Node |-> [q \in Pkg |-> PhaseOf(m, q)]]' =
      [m \in Node |-> [q \in Pkg |-> PhaseOf(m, q)]]
  BY <1>5
<1>7. QED BY <1>3, <1>6 DEF Service!vars

(* Acknowledging a package is the service's Take, or a repetition of it.   *)
LEMMA RecvDataService ==
  ASSUME ServiceInv, NEW n \in Node, NEW p \in Pkg, RecvData(n, p)
  PROVE  [Service!Next]_(Service!vars)
<1>1. /\ dest[p] \in {n, Multicast} /\ Data(p) \in net
      /\ net' = net \cup AckFor(p)
      /\ UNCHANGED <<dest, delivered, astray, complete>>
  BY DEF RecvData, AddressedTo, sendVars, toldVars
<1>2. CASE dest[p] = Multicast \/ Ack(p) \in net
  <2>1. net' = net  BY <1>1, <1>2 DEF AckFor
  <2>2. QED BY <1>1, <2>1, SameService DEF ServiceInv
<1>3. CASE dest[p] # Multicast /\ Ack(p) \notin net
  <2>1. dest[p] = n /\ net' = net \cup {Ack(p)}  BY <1>1, <1>3 DEF AckFor
  <2>2. \A q \in Pkg : Data(q) \in net' <=> Data(q) \in net
    BY <2>1, DataIsNoAck
  <2>3. \A m \in Node, q \in Pkg : ~ (m = n /\ q = p) =>
          PhaseOf(m, q)' = PhaseOf(m, q)
    BY <1>1, <2>1, AckInjective DEF PhaseOf
  <2>4. CASE delivered[n][p] # 0
    <3>1. PhaseOf(n, p)' = PhaseOf(n, p)
      BY <1>1, <2>4 DEF PhaseOf, ServiceInv, TypeInv, TypeOK
    <3>2. [m \in Node |-> [q \in Pkg |-> PhaseOf(m, q)]]' =
          [m \in Node |-> [q \in Pkg |-> PhaseOf(m, q)]]
      BY <2>3, <3>1
    <3>3. QED BY <1>1, <2>2, <3>2 DEF Service!vars
  <2>5. CASE delivered[n][p] = 0
    <3>1. PhaseOf(n, p) = "none" /\ PhaseOf(n, p)' = "taken"
      BY <1>1, <1>3, <2>1, <2>5 DEF PhaseOf
    <3>2. [m \in Node |-> [q \in Pkg |-> PhaseOf(m, q)]]' =
          [[m \in Node |-> [q \in Pkg |-> PhaseOf(m, q)]] EXCEPT ![n][p] = "taken"]
      BY <2>3, <3>1
    <3>3. Service!Take(n, p)
      BY <1>1, <2>2, <3>1, <3>2 DEF Service!Take, Service!Move
    <3>4. QED BY <3>3 DEF Service!Next
  <2>6. QED BY <2>4, <2>5
<1>4. QED BY <1>2, <1>3

(* Looking for a bit beyond the bitmap is the service's loss of track.  It *)
(* only happens to a package that was not delivered, or again.             *)
LEMMA LostService ==
  ASSUME ServiceInv, NEW n \in Node, NEW p \in Pkg, Looked(n, p)
  PROVE  /\ \A m \in Node, q \in Pkg : ~ (m = n /\ q = p) =>
               (q \in astray'[m] <=> q \in astray[m])
         /\ \/ astray' = astray
            \/ /\ Num(p) >= BitsPerBlock /\ p \notin astray[n]
               /\ delivered[n][p] = 0
               /\ astray' = [astray EXCEPT ![n] = @ \cup {p}]
<1>1. /\ astray \in [Node -> SUBSET Pkg] /\ bits \in [Node -> [Node -> Nat]]
      /\ TypeInv /\ DeliveredMarked
  BY DEF ServiceInv, TypeInv, TypeOK
<1>2. \A m \in Node, q \in Pkg : ~ (m = n /\ q = p) =>
               (q \in astray'[m] <=> q \in astray[m])
  BY <1>1 DEF Looked
<1>3. CASE p \in astray[n]
  <2>1. astray' = astray
    BY <1>1, <1>3 DEF Looked
  <2> QED BY <1>2, <2>1
<1>4. CASE Inside(n, p)
  <2>1. astray' = astray
    BY <1>4 DEF Looked
  <2> QED BY <1>2, <2>1
<1>5. CASE ~ Inside(n, p) /\ p \notin astray[n]
  <2>1. astray' = [astray EXCEPT ![n] = @ \cup {p}]
    BY <1>5 DEF Looked
  <2>2. PICK k \in Nat, e \in Nat, x \in Nat :
          /\ k = Num(p) /\ e = Extended(n, p) /\ x = bits[n][Src(p)] /\ x <= e
          /\ (k >= e => k >= BitsPerBlock)
    BY <1>1, ExtendedType DEF Pkg
  <2>3. ~ (k < e)
    BY <1>5, <2>2 DEF Inside
  <2>4. k >= BitsPerBlock /\ ~ (k < x)
    BY <2>2, <2>3
  <2>5. p \notin received[n]
    BY <1>1, <2>2, <2>4 DEF DeliveredMarked, Marked
  <2>6. delivered[n][p] = 0
    BY <1>1, <1>5, <2>5 DEF DeliveredMarked, Marked
  <2>7. Num(p) >= BitsPerBlock
    <3> HIDE DEF Src, Num
    <3> QED BY <2>2, <2>4
  <2> HIDE DEF Src, Num
  <2> QED BY <1>2, <1>5, <2>1, <2>6, <2>7
<1> QED BY <1>3, <1>4, <1>5

(* A step that only looks for a bit.                                       *)
LEMMA LookService ==
  ASSUME ServiceInv, NEW n \in Node, NEW p \in Pkg, Looked(n, p),
         UNCHANGED <<dest, delivered, complete, net>>
  PROVE  [Service!Next]_(Service!vars)
<1>1. CASE astray' = astray
  BY <1>1, SameService DEF ServiceInv
<1>2. CASE /\ Num(p) >= BitsPerBlock /\ p \notin astray[n] /\ delivered[n][p] = 0
           /\ astray' = [astray EXCEPT ![n] = @ \cup {p}]
  <2>1. \A m \in Node, q \in Pkg : PhaseOf(m, q)' = PhaseOf(m, q)
    <3>1. \A m \in Node, q \in Pkg : ~ (m = n /\ q = p) =>
            (q \in astray'[m] <=> q \in astray[m])
      BY LostService
    <3>2. PhaseOf(n, p)' = PhaseOf(n, p)
      BY <1>2 DEF PhaseOf
    <3>3. ASSUME NEW m \in Node, NEW q \in Pkg, ~ (m = n /\ q = p)
          PROVE  PhaseOf(m, q)' = PhaseOf(m, q)
      BY <3>1, <3>3 DEF PhaseOf
    <3> QED BY <3>2, <3>3
  <2>2. [m \in Node |-> [q \in Pkg |-> PhaseOf(m, q)]]' =
        [m \in Node |-> [q \in Pkg |-> PhaseOf(m, q)]]
    BY <2>1
  <2>3. PhaseOf(n, p) # "delivered"
    BY <1>2 DEF PhaseOf
  <2>4. Service!Lose(n, p)
    BY <1>2, <2>2, <2>3 DEF Service!Lose, Service!LosesTrack
  <2> QED BY <2>4 DEF Service!Next
<1> QED BY <1>1, <1>2, LostService

(* Handing over a package is the service's Deliver.  A duplicate stutters, *)
(* and so does what is handed over again after track of it was lost.       *)
LEMMA DeliverService ==
  ASSUME ServiceInv, NEW n \in Node, NEW p \in Pkg, p = rcur[n], Deliver(n)
  PROVE  [Service!Next]_(Service!vars)
<1>1. rpc[n] = "deliver" /\ UNCHANGED <<dest, complete, net>>
  BY DEF Deliver, RecvAt, sendVars, toldVars
<1>2. CASE Repeated(n, p) /\ UNCHANGED delivered
  BY <1>1, <1>2, LookedEither, LookService
<1>3. CASE FirstTime(n, p) /\ delivered' = [delivered EXCEPT ![n][p] = @ + 1]
  <2>1. Looked(n, p)
    BY <1>3, LookedEither
  <2>2. /\ delivered \in [Node -> [Pkg -> Nat]] /\ astray \in [Node -> SUBSET Pkg]
        /\ received \in [Node -> SUBSET Pkg]
    BY DEF ServiceInv, TypeInv, TypeOK
  <2>3. delivered'[n][p] = delivered[n][p] + 1 /\ delivered[n][p] \in Nat
    BY <1>3, <2>2
  <2>4. \A m \in Node, q \in Pkg : ~ (m = n /\ q = p) =>
          delivered'[m][q] = delivered[m][q]
    BY <1>3, <2>2
  <2>5. ASSUME NEW m \in Node, NEW q \in Pkg, ~ (m = n /\ q = p)
        PROVE  PhaseOf(m, q)' = PhaseOf(m, q)
    BY <1>1, <2>1, <2>4, <2>5, LostService DEF PhaseOf
  <2>6. p \in astray'[n] \/ delivered[n][p] = 0
    <3>1. CASE Inside(n, p)
      <4>1. p \notin received[n] /\ astray' = astray
        BY <1>3, <3>1 DEF FirstTime, AlreadyReceived
      <4> QED BY <4>1 DEF ServiceInv, DeliveredMarked, Marked
    <3>2. CASE ~ Inside(n, p)
      BY <1>3, <2>2, <3>2 DEF FirstTime
    <3> QED BY <3>1, <3>2
  <2>7. PhaseOf(n, p)' = "delivered"
    BY <2>3, <2>6 DEF PhaseOf
  <2>8. CASE delivered[n][p] = 0
    <3>1. PhaseOf(n, p) # "delivered"
      BY <2>8 DEF PhaseOf
    <3>2. [m \in Node |-> [q \in Pkg |-> PhaseOf(m, q)]]' =
          [[m \in Node |-> [q \in Pkg |-> PhaseOf(m, q)]]
             EXCEPT ![n][p] = "delivered"]
      BY <2>5, <2>7
    <3>3. Data(p) \in net
      BY <1>1 DEF ServiceInv, SuccessInv, CauseInv
    <3>4. UNCHANGED astray \/ Service!LosesTrack(n, p)
      BY <2>1, <3>1, LostService DEF Service!LosesTrack
    <3>5. Service!Deliver(n, p)
      BY <1>1, <3>1, <3>2, <3>3, <3>4 DEF Service!Deliver, Service!Move
    <3> QED BY <3>5 DEF Service!Next
  <2>9. CASE delivered[n][p] # 0
    <3>1. astray' = astray
      BY <2>1, <2>9, LostService
    <3>2. PhaseOf(n, p) = "delivered"
      BY <2>3, <2>6, <2>9, <3>1 DEF PhaseOf
    <3>3. [m \in Node |-> [q \in Pkg |-> PhaseOf(m, q)]]' =
          [m \in Node |-> [q \in Pkg |-> PhaseOf(m, q)]]
      BY <2>5, <2>7, <3>2
    <3> QED BY <1>1, <3>1, <3>3 DEF Service!vars
  <2> QED BY <2>8, <2>9
<1>4. QED BY <1>2, <1>3 DEF Deliver

(* Posting SEND_COMPLETE is the service's Succeed.                         *)
LEMMA PostCompleteService ==
  ASSUME ServiceInv, NEW n \in Node, NEW p \in Pkg, p = rcur[n], PostComplete(n)
  PROVE  [Service!Next]_(Service!vars)
<1>1. /\ rpc[n] = "complete"
      /\ UNCHANGED <<dest, delivered, astray, net>>
      /\ complete' \in {complete, [complete EXCEPT ![p] = @ + 1]}
  BY DEF PostComplete, RecvAt, sendVars
<1>2. CASE complete' = complete
  BY <1>1, <1>2, SameService DEF ServiceInv
<1>3. CASE complete' = [complete EXCEPT ![p] = @ + 1]
  <2>1. {q \in Pkg : complete[q] > 0}' = {q \in Pkg : complete[q] > 0} \cup {p}
    BY <1>3 DEF ServiceInv, TypeInv, TypeOK
  <2>2. Ack(p) \in net  BY <1>1 DEF ServiceInv, SuccessInv, CauseInv
  <2>3. dest[p] \in Node /\ PhaseOf(dest[p], p) # "none"
    BY <2>2, AcknowledgedPhase
  <2>4. [m \in Node |-> [q \in Pkg |-> PhaseOf(m, q)]]' =
        [m \in Node |-> [q \in Pkg |-> PhaseOf(m, q)]]
    BY <1>1 DEF PhaseOf
  <2>5. Service!Succeed(p)
    BY <1>1, <2>1, <2>3, <2>4 DEF Service!Succeed
  <2>6. QED BY <2>5 DEF Service!Next
<1>4. QED BY <1>1, <1>2, <1>3

LEMMA ServiceStep ==
  ASSUME ServiceInv, [Next]_vars PROVE [Service!Next]_(Service!vars)
<1>0. TypeInv  BY DEF ServiceInv
<1>1. ASSUME UNCHANGED <<dest, delivered, astray, complete, net>>
      PROVE  [Service!Next]_(Service!vars)
  BY <1>0, <1>1, SameService
<1>2. ASSUME NEW p \in Pkg, net' = net \cup {Data(p)},
             UNCHANGED <<dest, delivered, astray, complete>>
      PROVE  [Service!Next]_(Service!vars)
  <2>1. Service!Send(p)  BY <1>0, <1>2, SendService
  <2>2. QED BY <2>1 DEF Service!Next
<1>3. ASSUME NEW t \in Thread, Send(t) PROVE [Service!Next]_(Service!vars)
  <2>1. ASSUME NEW a \in Address, Assemble(t, a)
        PROVE  [Service!Next]_(Service!vars)
    BY <2>1, AssembleService
  <2>2. CASE CheckWindow(t) \/ ChargeWindow(t) \/ StartTimer(t) \/ StartTimerFails(t)
    BY <1>1, <2>2 DEF CheckWindow, ChargeWindow, StartTimer, StartTimerFails,
       recvVars, toldVars
  <2>3. CASE SendTo(t)
    <3>1. scur[t] \in Pkg
      BY <1>0, <2>3 DEF SendTo, ThreadAt, TypeInv, WorkOK
    <3>2. QED BY <1>2, <2>3, <3>1 DEF SendTo, recvVars, toldVars
  <2>4. QED BY <1>3, <2>1, <2>2, <2>3 DEF Send
<1>4. ASSUME NEW w \in Worker, Callback(w) \/ \E p \in Pkg : Fire(w, p)
      PROVE  [Service!Next]_(Service!vars)
  <2>1. CASE Retransmit(w)
    <3>1. wcur[w] \in Pkg
      BY <1>0, <2>1 DEF Retransmit, WorkerAt, TypeInv, WorkOK
    <3>2. QED BY <1>2, <2>1, <3>1 DEF Retransmit, sendVars, recvVars, toldVars
  <2>2. CASE Stun(w) \/ RetransmitFails(w) \/ Crack(w) \/ \E p \in Pkg : Fire(w, p)
    BY <1>1, <2>2 DEF Stun, RetransmitFails, Crack, Fire, sendVars, recvVars, toldVars
  <2>3. CASE ExitTimer(w) \/ ExitTimerUnlocked(w)
    BY <1>1, <2>3 DEF ExitTimer, ExitTimerUnlocked, ReportFailure, sendVars, recvVars
  <2>4. QED BY <1>4, <2>1, <2>2, <2>3 DEF Callback
<1>5. ASSUME NEW n \in Node, Receive(n) PROVE [Service!Next]_(Service!vars)
  <2>1. ASSUME NEW p \in Pkg, RecvData(n, p) PROVE [Service!Next]_(Service!vars)
    BY <2>1, RecvDataService
  <2>2. CASE Deliver(n)
    <3>1. rcur[n] \in Pkg  BY <1>0, <2>2 DEF Deliver, RecvAt, TypeInv, WorkOK
    <3>2. QED BY <2>2, <3>1, DeliverService
  <2>3. CASE PostComplete(n)
    <3>1. rcur[n] \in Pkg  BY <1>0, <2>3 DEF PostComplete, RecvAt, TypeInv, WorkOK
    <3>2. QED BY <2>3, <3>1, PostCompleteService
  <2>4. CASE \/ \E p \in Pkg : RecvAck(n, p)
             \/ CancelTimer(n) \/ TimerCancelled(n) \/ PostCompleteOutOfMemory(n)
             \/ DeliverCrashes(n)
    BY <1>1, <2>4 DEF RecvAck, CancelTimer, TimerCancelled, PostCompleteOutOfMemory,
       DeliverCrashes, sendVars, recvVars, toldVars
  <2>5. CASE DeliverOutOfMemory(n)
    <3>1. PICK q \in Pkg : q = rcur[n]
      BY <1>0, <2>5 DEF DeliverOutOfMemory, RecvAt, TypeInv, WorkOK
    <3>2. UNCHANGED <<dest, delivered, complete, net>>
      BY <2>5 DEF DeliverOutOfMemory, sendVars, toldVars
    <3>3. FirstTime(n, q) \/ UNCHANGED astray
      BY <2>5, <3>1 DEF DeliverOutOfMemory
    <3> QED BY <1>1, <3>2, <3>3, LookedEither, LookService
  <2>6. QED BY <1>5, <2>1, <2>2, <2>3, <2>4, <2>5 DEF Receive
<1>6. ASSUME NEW p \in Pkg, ReleaseOnExit(p) PROVE [Service!Next]_(Service!vars)
  BY <1>1, <1>6 DEF ReleaseOnExit, sendVars, recvVars, toldVars
<1>7. ASSUME NEW p \in Pkg, CancelIo(p) PROVE [Service!Next]_(Service!vars)
  <2>1. PICK n \in Node, q \in Pkg : n = Src(p) /\ q = Opposite(p)
    BY <1>7 DEF CancelIo, CancelNothing, CancelCrashes, CancelUnnoticed,
       CancelMarks, Opposite, Pkg
  <2>2. FirstTime(n, q) \/ Repeated(n, q)
    BY <1>7, <2>1 DEF CancelIo, CancelNothing, CancelCrashes, CancelUnnoticed,
       CancelMarks
  <2>3. UNCHANGED <<dest, delivered, complete, net>>
    BY <1>7 DEF CancelIo, CancelNothing, CancelCrashes, CancelUnnoticed, sendVars,
       toldVars
  <2> QED BY <2>2, <2>3, LookedEither, LookService
<1>8. CASE UNCHANGED vars
  BY <1>1, <1>8 DEF vars, sendVars, recvVars, toldVars
<1>9. QED BY <1>3, <1>4, <1>5, <1>6, <1>7, <1>8 DEF Next

(* Every behaviour of the threads is a behaviour of the service: at most   *)
(* one delivery of what was sent, but for far ids a node lost track of     *)
(* before it delivered them, and success only after the destination took   *)
(* the package.                                                            *)
THEOREM Implementation == Spec => ImplementsService
<1>1. Init => Service!Init
  BY DEF Init, Service!Init, PhaseOf
<1>2. Spec => []ServiceInv
  BY TypeCorrect, DeliveredMarkedAlways, SuccessInvAlways, PTL
  DEF ServiceInv, TypeInv
<1>3. ServiceInv /\ [Next]_vars => [Service!Next]_(Service!vars)
  BY ServiceStep
<1>4. QED BY <1>1, <1>2, <1>3, PTL DEF Spec, ImplementsService, Service!Spec

-----------------------------------------------------------------------------
(***************************************************************************)
(* Proofs about TransCore while nothing is cancelled and no system call or *)
(* allocation fails: then acknowledgements, retries and callbacks, in any  *)
(* interleaving, keep their hands off released timers, complete a package  *)
(* once, and account for the window.  The network may still lose,          *)
(* duplicate and reorder.                                                  *)
(***************************************************************************)

Clean == MaxFaults = 0 /\ MaxCancels = 0

Allocated(p) == Num(p) < nextId[Src(p)]
PreStart(t) == spc[t] \in {"check", "charge", "start"}
Acking(n) == rpc[n] \in {"complete", "cancel", "wait"}

(* A package that was not assembled has left no trace.                     *)
FreshPkg(p) ==
  ~ Allocated(p) =>
    /\ p \notin packages /\ p \notin exits
    /\ timer[p] = "none" /\ than[p] = "zero"
    /\ releases[p] = 0 /\ complete[p] = 0
    /\ Data(p) \notin net /\ Ack(p) \notin net

(* The life of a timer: nothing runs on it before it is started, and       *)
(* nothing once it was released.                                           *)
TimerLife(p) ==
  /\ timer[p] \in {"none", "ready"} =>
       ~ CallbackRuns(p) /\ releases[p] = 0 /\ p \notin exits
  /\ releases[p] > 0 => timer[p] \in {"gone", "deleting"} /\ ~ CallbackRuns(p)

(* Whoever ends a package has cleared its bit first.                       *)
Ended(p) ==
  /\ than[p] # "zero" => p \notin packages
  /\ p \in exits => p \notin packages
  /\ releases[p] > 0 => p \notin packages
  /\ complete[p] > 0 => p \notin packages
  /\ complete[p] <= 1
  /\ Ack(p) \in net => Data(p) \in net

PkgInv(p) == FreshPkg(p) /\ TimerLife(p) /\ Ended(p)

(* A package whose timer its thread has not started was not sent.          *)
ThreadInv(t) ==
  spc[t] # "idle" =>
    /\ Src(scur[t]) = Home[t] /\ Allocated(scur[t])
    /\ PreStart(t) => /\ Data(scur[t]) \notin net
                      /\ timer[scur[t]] \in {"none", "ready"}
                      /\ dest[scur[t]] # Multicast => timer[scur[t]] = "ready"
    /\ spc[t] = "start" => dest[scur[t]] # Multicast

Distinct ==
  \A t, u \in Thread :
    spc[t] # "idle" /\ spc[u] # "idle" /\ scur[t] = scur[u] => t = u

AckerInv(n) ==
  Acking(n) =>
    /\ Src(rcur[n]) = n /\ Allocated(rcur[n])
    /\ rcur[n] \notin packages /\ Data(rcur[n]) \in net
    /\ rpc[n] = "complete" => complete[rcur[n]] = 0

NothingFailed ==
  /\ \A w \in Worker : wpc[w] # "sendfailed"
  /\ \A n \in Node : rpc[n] \notin {"exited", "unposted"}

CleanInv ==
  /\ NothingFailed
  /\ \A p \in Pkg : PkgInv(p)
  /\ \A t \in Thread : ThreadInv(t)
  /\ Distinct
  /\ \A n \in Node : AckerInv(n)

LEMMA PkgFacts ==
  ASSUME NEW p \in Pkg
  PROVE  /\ p = <<Src(p), Num(p)>> /\ Src(p) \in Node /\ Num(p) \in Nat
BY ConstantsAssumption DEF Pkg, Id, Src, Num

LEMMA KindsDiffer ==
  /\ \A p, q : Data(p) # Ack(q)
  /\ \A p, q : Data(p) = Data(q) => p = q
  /\ \A p, q : Ack(p) = Ack(q) => p = q
BY DEF Data, Ack

LEMMA CleanAssemble ==
  ASSUME TypeInv, CleanInv, NEW t \in Thread, NEW a \in Address, Assemble(t, a)
  PROVE  CleanInv'
<1> DEFINE n == Home[t]
<1>0. n \in Node /\ nextId[n] \in 0 .. MaxId /\ nextId[n] < MaxId
  BY NamesAssumption DEF Assemble, TypeInv, TypeOK
<1>1. PICK q \in Pkg : /\ q = <<n, nextId[n]>> /\ Src(q) = n /\ Num(q) = nextId[n]
                      /\ nextId[n] \in Nat /\ n \in Node
  <2>1. nextId[n] \in Id /\ nextId[n] \in Nat
    BY <1>0, ConstantsAssumption DEF Id
  <2>2. <<n, nextId[n]>> \in Pkg
    BY <1>0, <2>1 DEF Pkg
  <2> QED BY <1>0, <2>1, <2>2 DEF Src, Num
<1>2. /\ nextId' = [nextId EXCEPT ![n] = @ + 1]
      /\ spc' = [spc EXCEPT ![t] = "check"] /\ spc[t] = "idle"
      /\ scur' = [scur EXCEPT ![t] = q]
      /\ packages' = packages \cup {q}
      /\ dest' = [dest EXCEPT ![q] = a]
      /\ \/ timer' = timer /\ a = Multicast
         \/ timer' = [timer EXCEPT ![q] = "ready"]
      /\ UNCHANGED <<than, exits, releases, wpc, wcur, rpc, rcur, complete, net>>
  BY <1>1 DEF Assemble, ThreadAt, workVars, recvVars, toldVars
<1> HIDE DEF n
<1>3. ~ Allocated(q) /\ FreshPkg(q) /\ TimerLife(q)
  BY <1>1 DEF Allocated, CleanInv, PkgInv
<1>4. ASSUME NEW p \in Pkg PROVE (Allocated(p) => Allocated(p)') /\ (p # q => (Allocated(p)' <=> Allocated(p)))
  <2>1. Src(p) \in Node /\ Num(p) \in Nat /\ p = <<Src(p), Num(p)>> /\ q = <<n, nextId[n]>>
        /\ nextId[Src(p)] \in Nat
    BY <1>1, PkgFacts DEF TypeInv, TypeOK
  <2>2. CASE Src(p) = n
    <3>1. nextId'[n] = nextId[n] + 1
      BY <1>1, <1>2 DEF TypeInv, TypeOK
    <3> QED BY <1>1, <2>1, <2>2, <3>1 DEF Allocated
  <2>3. CASE Src(p) # n
    <3>1. nextId'[Src(p)] = nextId[Src(p)]
      BY <1>1, <1>2, <2>1, <2>3 DEF TypeInv, TypeOK
    <3> QED BY <2>1, <2>3, <3>1, <1>1 DEF Allocated
  <2> QED BY <2>2, <2>3
<1>5. Allocated(q)'
  <2>1. nextId'[n] = nextId[n] + 1
    BY <1>1, <1>2 DEF TypeInv, TypeOK
  <2> QED BY <1>1, <2>1 DEF Allocated
<1>6. /\ \A p \in Pkg : p # q => timer'[p] = timer[p] /\ dest'[p] = dest[p]
                                 /\ (p \in packages' <=> p \in packages)
      /\ timer'[q] \in {"none", "ready"} /\ dest'[q] = a
      /\ a # Multicast => timer'[q] = "ready"
  BY <1>1, <1>2, <1>3 DEF TypeInv, TypeOK, FreshPkg
<1>7. ASSUME NEW p \in Pkg PROVE PkgInv(p)'
  <2>1. CASE p # q
    BY <1>2, <1>4, <1>6, <2>1
       DEF CleanInv, PkgInv, FreshPkg, TimerLife, Ended, CallbackRuns
  <2>2. CASE p = q
    <3>1. /\ timer[q] = "none" /\ than[q] = "zero" /\ releases[q] = 0
          /\ complete[q] = 0 /\ q \notin exits /\ Ack(q) \notin net
      BY <1>3 DEF FreshPkg
    <3>2. ~ CallbackRuns(q)
      BY <1>3, <3>1 DEF TimerLife
    <3>3. FreshPkg(q)'
      BY <1>5 DEF FreshPkg
    <3>4. TimerLife(q)'
      BY <1>2, <3>1, <3>2 DEF TimerLife, CallbackRuns
    <3>5. Ended(q)'
      BY <1>2, <3>1 DEF Ended
    <3> QED BY <2>2, <3>3, <3>4, <3>5 DEF PkgInv
  <2> QED BY <2>1, <2>2
<1>8. ASSUME NEW u \in Thread PROVE ThreadInv(u)'
  <2>1. CASE u = t
    <3>1. spc'[t] = "check" /\ scur'[t] = q
      BY <1>2 DEF TypeInv, TypeOK
    <3>2. Data(q) \notin net'
      BY <1>2, <1>3 DEF FreshPkg
    <3> QED BY <1>1, <1>5, <1>6, <2>1, <3>1, <3>2 DEF ThreadInv, PreStart, n
  <2>2. CASE u # t
    <3>1. spc'[u] = spc[u] /\ scur'[u] = scur[u] /\ ThreadInv(u)
      BY <1>2, <2>2 DEF TypeInv, TypeOK, CleanInv
    <3>2. spc[u] # "idle" => scur[u] \in Pkg /\ scur[u] # q
      BY <1>3, <3>1 DEF TypeInv, WorkOK, ThreadInv
    <3>3. CASE spc[u] = "idle"
      BY <3>1, <3>3 DEF ThreadInv
    <3>4. CASE spc[u] # "idle"
      <4>1. /\ Allocated(scur[u])' /\ timer'[scur[u]] = timer[scur[u]]
            /\ dest'[scur[u]] = dest[scur[u]] /\ net' = net
        BY <1>2, <1>4, <1>6, <3>1, <3>2, <3>4 DEF ThreadInv
      <4> QED BY <3>1, <3>4, <4>1 DEF ThreadInv, PreStart
    <3> QED BY <3>3, <3>4
  <2> QED BY <2>1, <2>2
<1>9. Distinct'
  <2> SUFFICES ASSUME NEW x \in Thread, NEW y \in Thread, spc'[x] # "idle",
                      spc'[y] # "idle", scur'[x] = scur'[y]
               PROVE  x = y
    BY DEF Distinct
  <2>1. \A u \in Thread : u # t => /\ spc'[u] = spc[u] /\ scur'[u] = scur[u]
                                   /\ spc[u] # "idle" => scur[u] # q
    BY <1>2, <1>3 DEF TypeInv, TypeOK, CleanInv, ThreadInv
  <2>2. scur'[t] = q
    BY <1>2 DEF TypeInv, TypeOK
  <2> QED BY <2>1, <2>2 DEF CleanInv, Distinct
<1>10. ASSUME NEW m \in Node PROVE AckerInv(m)'
  <2>1. Acking(m)' => Acking(m) /\ rcur[m] \in Pkg /\ AckerInv(m)
    BY <1>2 DEF Acking, TypeInv, WorkOK, CleanInv
  <2>2. Acking(m) => rcur[m] # q
    BY <1>3 DEF CleanInv, AckerInv
  <2> QED BY <1>2, <1>4, <1>6, <2>1, <2>2 DEF AckerInv, Acking
<1>11. NothingFailed'
  BY <1>2 DEF CleanInv, NothingFailed
<1> QED BY <1>7, <1>8, <1>9, <1>10, <1>11 DEF CleanInv

(* What a step leaves of each part as it was.                              *)
LEMMA PkgFrame ==
  ASSUME NEW p \in Pkg, PkgInv(p), nextId' = nextId,
         timer'[p] = timer[p], than'[p] = than[p], releases'[p] = releases[p],
         complete'[p] = complete[p],
         p \in packages' => p \in packages, p \in exits' => p \in exits,
         Data(p) \in net' <=> Data(p) \in net, Ack(p) \in net' <=> Ack(p) \in net,
         CallbackRuns(p)' => CallbackRuns(p)
  PROVE  PkgInv(p)'
BY DEF PkgInv, FreshPkg, TimerLife, Ended, Allocated

LEMMA ThreadFrame ==
  ASSUME NEW u \in Thread, ThreadInv(u), spc'[u] = spc[u], scur'[u] = scur[u],
         nextId' = nextId, dest' = dest,
         PreStart(u) => /\ Data(scur[u]) \in net' => Data(scur[u]) \in net
                        /\ timer'[scur[u]] = timer[scur[u]]
  PROVE  ThreadInv(u)'
BY DEF ThreadInv, PreStart, Allocated

LEMMA AckerFrame ==
  ASSUME NEW m \in Node, AckerInv(m), rpc'[m] = rpc[m], rcur'[m] = rcur[m],
         nextId' = nextId, net \subseteq net',
         Acking(m) => /\ rcur[m] \in packages' => rcur[m] \in packages
                      /\ complete'[rcur[m]] = complete[rcur[m]]
  PROVE  AckerInv(m)'
BY DEF AckerInv, Acking, Allocated

LEMMA DistinctFrame ==
  ASSUME Distinct, \A t \in Thread : spc'[t] # "idle" => spc[t] # "idle" /\ scur'[t] = scur[t]
  PROVE  Distinct'
BY DEF Distinct

LEMMA CleanThread ==
  ASSUME TypeInv, CleanInv, NEW t \in Thread,
         CheckWindow(t) \/ ChargeWindow(t) \/ StartTimer(t) \/ SendTo(t)
  PROVE  CleanInv'
<1> DEFINE q == scur[t]
<1>1. /\ UNCHANGED <<nextId, dest, than, exits, releases, packages, wpc, wcur, rpc, rcur,
                     complete>>
      /\ \A u \in Thread : u # t => spc'[u] = spc[u] /\ scur'[u] = scur[u]
      /\ spc[t] # "idle"
  BY DEF CheckWindow, ChargeWindow, StartTimer, SendTo, ThreadAt, TypeInv, TypeOK,
     timerVars, workVars, recvVars, toldVars
<1>2. q \in Pkg /\ Allocated(q) /\ ThreadInv(t) /\ TimerLife(q) /\ Ended(q)
  BY <1>1 DEF TypeInv, WorkOK, CleanInv, ThreadInv, PkgInv
<1>3. \A u \in Thread : u # t /\ spc[u] # "idle" => scur[u] # q
  BY <1>1 DEF CleanInv, Distinct
<1>4. NothingFailed' /\ Distinct'
  <2>1. spc'[t] # "idle" => scur'[t] = q
    BY DEF CheckWindow, ChargeWindow, StartTimer, SendTo, ThreadAt, TypeInv, TypeOK
  <2>2. Distinct'
    BY <1>1, <2>1, DistinctFrame DEF CleanInv
  <2> QED BY <1>1, <2>2 DEF CleanInv, NothingFailed
<1>5. ASSUME timer' = timer \/ timer' = [timer EXCEPT ![q] = "armed"],
             net' = net \/ net' = net \cup {Data(q)},
             timer' # timer => timer[q] = "ready",
             ThreadInv(t)'
      PROVE  CleanInv'
  <2>1. \A p \in Pkg : p # q => timer'[p] = timer[p]
    BY <1>5 DEF TypeInv, TypeOK
  <2>2. /\ \A p \in Pkg : Ack(p) \in net' <=> Ack(p) \in net
        /\ \A p \in Pkg : p # q => (Data(p) \in net' <=> Data(p) \in net)
        /\ net \subseteq net'
    BY <1>5, KindsDiffer
  <2>3. ASSUME NEW p \in Pkg PROVE PkgInv(p)'
    <3>1. CASE p # q
      BY <1>1, <2>1, <2>2, <3>1, PkgFrame DEF CleanInv, CallbackRuns
    <3>2. CASE p = q
      <4>1. FreshPkg(p)'
        BY <1>1, <1>2, <3>2 DEF FreshPkg, Allocated
      <4>2. Ended(p)'
        BY <1>1, <1>2, <2>2, <3>2 DEF Ended
      <4>3. \/ timer'[p] = timer[p]
            \/ timer'[p] = "armed" /\ timer[p] = "ready"
        BY <1>5, <3>2 DEF TypeInv, TypeOK
      <4>4. TimerLife(p)'
        BY <1>1, <1>2, <3>2, <4>3 DEF TimerLife, CallbackRuns
      <4> QED BY <4>1, <4>2, <4>4 DEF PkgInv
    <3> QED BY <3>1, <3>2
  <2>4. ASSUME NEW u \in Thread PROVE ThreadInv(u)'
    <3>1. CASE u = t
      BY <1>5, <3>1
    <3>2. CASE u # t
      <4>1. PreStart(u) => scur[u] \in Pkg /\ scur[u] # q
        BY <1>3, <3>2 DEF PreStart, TypeInv, WorkOK
      <4> QED BY <1>1, <2>1, <2>2, <3>2, <4>1, ThreadFrame DEF CleanInv
    <3> QED BY <3>1, <3>2
  <2>5. \A m \in Node : AckerInv(m)'
    BY <1>1, <2>2, AckerFrame DEF CleanInv
  <2> QED BY <1>4, <2>3, <2>4, <2>5 DEF CleanInv
<1>6. CASE CheckWindow(t)
  <2>1. /\ spc[t] = "check" /\ spc'[t] = "charge" /\ scur' = scur
        /\ timer' = timer /\ net' = net
    BY <1>6 DEF CheckWindow, ThreadAt, TypeInv, TypeOK, timerVars
  <2>2. ThreadInv(t)'
    BY <1>1, <1>2, <2>1 DEF ThreadInv, PreStart, Allocated
  <2> QED BY <1>5, <2>1, <2>2
<1>7. CASE ChargeWindow(t)
  <2>1. /\ spc[t] = "charge" /\ scur' = scur
        /\ spc'[t] = (IF dest[q] = Multicast THEN "sendto" ELSE "start")
        /\ timer' = timer /\ net' = net
    BY <1>7 DEF ChargeWindow, ThreadAt, TypeInv, TypeOK, timerVars
  <2>2. ThreadInv(t)'
    BY <1>1, <1>2, <2>1 DEF ThreadInv, PreStart, Allocated
  <2> QED BY <1>5, <2>1, <2>2
<1>8. CASE StartTimer(t)
  <2>1. /\ spc[t] = "start" /\ scur' = scur /\ spc'[t] = "sendto"
        /\ timer' = [timer EXCEPT ![q] = "armed"] /\ net' = net
    BY <1>8 DEF StartTimer, ThreadAt, TypeInv, TypeOK
  <2>2. ThreadInv(t)'
    BY <1>1, <1>2, <2>1 DEF ThreadInv, PreStart, Allocated
  <2>3. timer[q] = "ready"
    BY <1>2, <2>1 DEF ThreadInv, PreStart
  <2> QED BY <1>5, <2>1, <2>2, <2>3
<1>9. CASE SendTo(t)
  <2>1. /\ spc'[t] = "idle" /\ timer' = timer /\ net' = net \cup {Data(q)}
    BY <1>9 DEF SendTo, ThreadAt, TypeInv, TypeOK, timerVars
  <2>2. ThreadInv(t)'
    BY <2>1 DEF ThreadInv
  <2> QED BY <1>5, <2>1, <2>2
<1> QED BY <1>6, <1>7, <1>8, <1>9

(* A package a callback runs on was assembled and its timer started.       *)
LEMMA CallbackStarted ==
  ASSUME TypeInv, NEW p \in Pkg, PkgInv(p), CallbackRuns(p)
  PROVE  /\ Allocated(p) /\ timer[p] \notin {"none", "ready"} /\ releases[p] = 0
         /\ \A t \in Thread : ThreadInv(t) /\ PreStart(t) => scur[t] # p
<1>1. timer[p] \notin {"none", "ready"} /\ ~ (releases[p] > 0)
  BY DEF PkgInv, TimerLife
<1>2. Allocated(p)
  BY <1>1 DEF PkgInv, FreshPkg
<1>3. \A t \in Thread : ThreadInv(t) /\ PreStart(t) => scur[t] # p
  BY <1>1 DEF ThreadInv, PreStart
<1>4. releases[p] = 0
  BY <1>1 DEF TypeInv, TypeOK
<1> QED BY <1>1, <1>2, <1>3, <1>4

LEMMA CleanCallback ==
  ASSUME TypeInv, CleanInv, NEW w \in Worker,
         Stun(w) \/ Retransmit(w) \/ ExitTimer(w) \/ Crack(w)
  PROVE  CleanInv'
<1>1. PICK p \in Pkg : wcur[w] = p /\ wpc[w] # "idle"
  BY DEF Stun, Retransmit, ExitTimer, Crack, WorkerAt, TypeInv, WorkOK
<1>2. CallbackRuns(p) /\ PkgInv(p)
  BY <1>1 DEF CallbackRuns, CleanInv
<1>3. /\ Allocated(p) /\ timer[p] \notin {"none", "ready"} /\ releases[p] = 0
      /\ \A t \in Thread : ThreadInv(t) /\ PreStart(t) => scur[t] # p
  BY <1>2, CallbackStarted
<1>4. /\ UNCHANGED <<nextId, spc, scur, dest, timer, releases, rpc, rcur, complete>>
      /\ \A v \in Worker : wpc'[v] # "sendfailed" \/ wpc'[v] = wpc[v]
      /\ \A q \in Pkg : CallbackRuns(q)' => CallbackRuns(q)
  <2>1. UNCHANGED <<nextId, spc, scur, dest, timer, releases, rpc, rcur, complete>>
    BY DEF Stun, Retransmit, ExitTimer, Crack, ReportFailure, sendVars, recvVars, toldVars
  <2>2. \A v \in Worker : wpc'[v] # "sendfailed" \/ wpc'[v] = wpc[v]
    BY DEF Stun, Retransmit, ExitTimer, Crack, WorkerAt, TypeInv, TypeOK
  <2>3. wcur' = wcur \/ wcur' = [wcur EXCEPT ![w] = NoPkg]
    BY DEF Stun, Retransmit, ExitTimer, Crack
  <2>4. \A q \in Pkg : CallbackRuns(q)' => CallbackRuns(q)
    BY <2>3, NamesAssumption DEF CallbackRuns, TypeInv, TypeOK
  <2> QED BY <2>1, <2>2, <2>4
<1>5. NothingFailed' /\ Distinct'
  BY <1>4 DEF CleanInv, NothingFailed, Distinct
<1>6. /\ \A q \in Pkg : q \in packages' => q \in packages
      /\ \A q \in Pkg : q # p => than'[q] = than[q] /\ (q \in exits' <=> q \in exits)
                                 /\ (Data(q) \in net' <=> Data(q) \in net)
      /\ \A q \in Pkg : Ack(q) \in net' <=> Ack(q) \in net
      /\ net \subseteq net'
      /\ than'[p] # "zero" => p \notin packages'
      /\ p \in exits' => p \notin packages'
  <2>1. CASE Stun(w)
    BY <1>2, <2>1 DEF Stun, PkgInv, Ended
  <2>2. CASE Retransmit(w)
    BY <1>1, <1>2, <2>2, KindsDiffer DEF Retransmit, PkgInv, Ended
  <2>3. CASE ExitTimer(w)
    BY <1>1, <1>2, <2>3 DEF ExitTimer, Untracked, CancelWhenCallbackExit, TypeInv, TypeOK
  <2>4. CASE Crack(w)
    BY <1>1, <1>2, <2>4 DEF Crack, PkgInv, Ended, TypeInv, TypeOK
  <2> QED BY <2>1, <2>2, <2>3, <2>4
<1>7. ASSUME NEW q \in Pkg PROVE PkgInv(q)'
  <2>1. CASE q # p
    BY <1>4, <1>6, <2>1, PkgFrame DEF CleanInv
  <2>2. CASE q = p
    <3>1. FreshPkg(p)'
      BY <1>3, <1>4 DEF FreshPkg, Allocated
    <3>2. TimerLife(p)'
      BY <1>3, <1>4 DEF TimerLife
    <3>3. Ended(p)'
      BY <1>2, <1>3, <1>4, <1>6 DEF PkgInv, Ended
    <3> QED BY <2>2, <3>1, <3>2, <3>3 DEF PkgInv
  <2> QED BY <2>1, <2>2
<1>8. ASSUME NEW t \in Thread PROVE ThreadInv(t)'
  <2>1. PreStart(t) => scur[t] \in Pkg /\ scur[t] # p
    BY <1>3 DEF CleanInv, PreStart, TypeInv, WorkOK
  <2> QED BY <1>4, <1>6, <2>1, ThreadFrame DEF CleanInv
<1>9. ASSUME NEW m \in Node PROVE AckerInv(m)'
  <2>1. Acking(m) => rcur[m] \in Pkg
    BY DEF Acking, TypeInv, WorkOK
  <2> QED BY <1>4, <1>6, <2>1, AckerFrame DEF CleanInv
<1> QED BY <1>5, <1>7, <1>8, <1>9 DEF CleanInv

LEMMA CleanFire ==
  ASSUME TypeInv, CleanInv, NEW w \in Worker, NEW p \in Pkg, Fire(w, p)
  PROVE  CleanInv'
<1>1. /\ UNCHANGED <<nextId, spc, scur, dest, timer, than, releases, exits, packages,
                     rpc, rcur, complete, net>>
      /\ wcur' = [wcur EXCEPT ![w] = p] /\ wpc' = [wpc EXCEPT ![w] = "callback"]
      /\ timer[p] = "armed"
  BY DEF Fire, sendVars, timerVars, recvVars, toldVars
<1>2. NothingFailed' /\ Distinct'
  BY <1>1 DEF CleanInv, NothingFailed, Distinct, TypeInv, TypeOK
<1>3. ASSUME NEW q \in Pkg PROVE PkgInv(q)'
  <2>1. CASE q # p
    <3>1. CallbackRuns(q)' => CallbackRuns(q)
      BY <1>1, <2>1 DEF CallbackRuns, TypeInv, TypeOK
    <3> QED BY <1>1, <3>1, PkgFrame DEF CleanInv
  <2>2. CASE q = p
    BY <1>1, <2>2 DEF CleanInv, PkgInv, FreshPkg, TimerLife, Ended, Allocated
  <2> QED BY <2>1, <2>2
<1>4. \A t \in Thread : ThreadInv(t)'
  BY <1>1, ThreadFrame DEF CleanInv
<1>5. \A m \in Node : AckerInv(m)'
  BY <1>1, AckerFrame DEF CleanInv
<1> QED BY <1>2, <1>3, <1>4, <1>5 DEF CleanInv

(* A step that deletes the timer of a package that has ended.              *)
LEMMA CleanRelease ==
  ASSUME TypeInv, CleanInv, NEW p \in Pkg,
         Allocated(p), p \notin packages, ~ CallbackRuns(p),
         \A t \in Thread : PreStart(t) => scur[t] # p,
         Release(p), exits' \subseteq exits,
         \A m \in Node : AckerInv(m)', NothingFailed',
         UNCHANGED <<nextId, spc, scur, dest, than, packages, wcur, complete, net>>
  PROVE  CleanInv'
<1>1. timer' = [timer EXCEPT ![p] = "gone"] /\ releases' = [releases EXCEPT ![p] = @ + 1]
  BY DEF Release
<1>2. ASSUME NEW q \in Pkg PROVE PkgInv(q)'
  <2>1. CASE q # p
    <3>1. timer'[q] = timer[q] /\ releases'[q] = releases[q]
      BY <1>1, <2>1 DEF TypeInv, TypeOK
    <3> QED BY <3>1, PkgFrame DEF CleanInv, CallbackRuns
  <2>2. CASE q = p
    <3>1. timer'[p] = "gone"
      BY <1>1 DEF TypeInv, TypeOK
    <3>2. FreshPkg(p)'
      BY DEF FreshPkg, Allocated
    <3>3. TimerLife(p)'
      BY <3>1 DEF TimerLife, CallbackRuns
    <3>4. Ended(p)'
      BY DEF CleanInv, PkgInv, Ended
    <3> QED BY <2>2, <3>2, <3>3, <3>4 DEF PkgInv
  <2> QED BY <2>1, <2>2
<1>3. ASSUME NEW t \in Thread PROVE ThreadInv(t)'
  <2>1. PreStart(t) => scur[t] \in Pkg /\ scur[t] # p
    BY DEF PreStart, TypeInv, WorkOK
  <2>2. PreStart(t) => timer'[scur[t]] = timer[scur[t]]
    BY <1>1, <2>1 DEF TypeInv, TypeOK
  <2> QED BY <2>2, ThreadFrame DEF CleanInv
<1>4. Distinct'
  BY DEF CleanInv, Distinct
<1> QED BY <1>2, <1>3, <1>4 DEF CleanInv

LEMMA CleanReleaseOnExit ==
  ASSUME TypeInv, CleanInv, NEW p \in Pkg, ReleaseOnExit(p)
  PROVE  CleanInv'
<1>1. /\ UNCHANGED <<nextId, spc, scur, dest, than, packages, wpc, wcur, rpc, rcur,
                     complete, net>>
      /\ p \in exits /\ ~ CallbackRuns(p) /\ Release(p) /\ exits' \subseteq exits
  BY DEF ReleaseOnExit, sendVars, workVars, recvVars, toldVars
<1>2. PkgInv(p)
  BY DEF CleanInv
<1>3. /\ Allocated(p) /\ p \notin packages
      /\ \A t \in Thread : PreStart(t) => scur[t] # p
  BY <1>1, <1>2 DEF CleanInv, PkgInv, FreshPkg, TimerLife, Ended, ThreadInv, PreStart
<1>4. \A m \in Node : AckerInv(m)'
  BY <1>1, AckerFrame DEF CleanInv
<1>5. NothingFailed'
  BY <1>1 DEF CleanInv, NothingFailed
<1> QED BY <1>1, <1>3, <1>4, <1>5, CleanRelease

(* What a thread that honours an acknowledgement holds was sent.           *)
LEMMA AckerFacts ==
  ASSUME TypeInv, CleanInv, NEW n \in Node, Acking(n)
  PROVE  /\ rcur[n] \in Pkg /\ Src(rcur[n]) = n /\ Allocated(rcur[n])
         /\ rcur[n] \notin packages
         /\ \A t \in Thread : PreStart(t) => scur[t] # rcur[n]
<1>1. rcur[n] \in Pkg /\ AckerInv(n)
  BY DEF Acking, TypeInv, WorkOK, CleanInv
<1>2. Data(rcur[n]) \in net
  BY <1>1 DEF AckerInv
<1>3. \A t \in Thread : PreStart(t) => scur[t] # rcur[n]
  BY <1>2 DEF CleanInv, ThreadInv, PreStart
<1> QED BY <1>1, <1>3 DEF AckerInv

LEMMA CleanRecvAck ==
  ASSUME TypeInv, CleanInv, NEW n \in Node, NEW p \in Pkg, RecvAck(n, p)
  PROVE  CleanInv'
<1>1. /\ UNCHANGED <<nextId, spc, scur, dest, timer, than, releases, exits, wpc, wcur,
                     complete, net>>
      /\ Ack(p) \in net /\ Src(p) = n /\ p \in packages /\ packages' = packages \ {p}
      /\ rpc' = [rpc EXCEPT ![n] = "complete"] /\ rcur' = [rcur EXCEPT ![n] = p]
  BY DEF RecvAck, RecvAt, Tracked, timerVars, workVars, toldVars
<1>2. NothingFailed' /\ Distinct'
  BY <1>1 DEF CleanInv, NothingFailed, Distinct, TypeInv, TypeOK
<1>3. \A q \in Pkg : PkgInv(q)'
  BY <1>1, PkgFrame DEF CleanInv, CallbackRuns
<1>4. \A t \in Thread : ThreadInv(t)'
  BY <1>1, ThreadFrame DEF CleanInv
<1>5. ASSUME NEW m \in Node PROVE AckerInv(m)'
  <2>1. CASE m # n
    <3>1. rpc'[m] = rpc[m] /\ rcur'[m] = rcur[m]
      BY <1>1, <2>1 DEF TypeInv, TypeOK
    <3> QED BY <1>1, <3>1, AckerFrame DEF CleanInv
  <2>2. CASE m = n
    <3>1. rcur'[n] = p
      BY <1>1 DEF TypeInv, TypeOK
    <3>2. FreshPkg(p) /\ Ended(p) /\ complete[p] \in Nat
      BY DEF CleanInv, PkgInv, TypeInv, TypeOK
    <3>3. Allocated(p) /\ Data(p) \in net /\ complete[p] = 0
      BY <1>1, <3>2 DEF FreshPkg, Ended
    <3> QED BY <1>1, <2>2, <3>1, <3>3 DEF AckerInv, Allocated
  <2> QED BY <2>1, <2>2
<1> QED BY <1>2, <1>3, <1>4, <1>5 DEF CleanInv

LEMMA CleanPostComplete ==
  ASSUME TypeInv, CleanInv, NEW n \in Node, PostComplete(n)
  PROVE  CleanInv'
<1>1. /\ UNCHANGED <<nextId, spc, scur, dest, timer, than, releases, exits, wpc, wcur,
                     packages, rcur, net>>
      /\ rpc' = [rpc EXCEPT ![n] = "cancel"] /\ rpc[n] = "complete"
      /\ \/ complete' = complete
         \/ complete' = [complete EXCEPT ![rcur[n]] = @ + 1]
  BY DEF PostComplete, RecvAt, sendVars, timerVars, workVars
<1>2. PICK p \in Pkg : rcur[n] = p
  BY <1>1 DEF TypeInv, WorkOK
<1>3. /\ Src(p) = n /\ Allocated(p) /\ p \notin packages
      /\ Data(p) \in net /\ complete[p] = 0
  BY <1>1, <1>2 DEF CleanInv, AckerInv, Acking
<1>4. NothingFailed' /\ Distinct'
  BY <1>1 DEF CleanInv, NothingFailed, Distinct, TypeInv, TypeOK
<1>5. ASSUME NEW q \in Pkg PROVE PkgInv(q)'
  <2>1. CASE q # p
    <3>1. complete'[q] = complete[q]
      BY <1>1, <1>2, <2>1 DEF TypeInv, TypeOK
    <3> QED BY <1>1, <3>1, PkgFrame DEF CleanInv, CallbackRuns
  <2>2. CASE q = p
    <3>1. complete'[p] <= 1
      BY <1>1, <1>2, <1>3 DEF TypeInv, TypeOK
    <3>2. FreshPkg(p)'
      BY <1>1, <1>3 DEF FreshPkg, Allocated
    <3>3. TimerLife(p)' /\ Ended(p)'
      BY <1>1, <1>3, <3>1 DEF CleanInv, PkgInv, TimerLife, Ended, CallbackRuns
    <3> QED BY <2>2, <3>2, <3>3 DEF PkgInv
  <2> QED BY <2>1, <2>2
<1>6. \A t \in Thread : ThreadInv(t)'
  BY <1>1, ThreadFrame DEF CleanInv
<1>7. ASSUME NEW m \in Node PROVE AckerInv(m)'
  <2>1. CASE m # n
    <3>1. rpc'[m] = rpc[m] /\ rcur'[m] = rcur[m]
      BY <1>1, <2>1 DEF TypeInv, TypeOK
    <3>2. Acking(m) => rcur[m] \in Pkg /\ rcur[m] # p
      BY <1>3, <2>1, AckerFacts
    <3>3. Acking(m) => complete'[rcur[m]] = complete[rcur[m]]
      BY <1>1, <1>2, <3>2 DEF TypeInv, TypeOK
    <3> QED BY <1>1, <3>1, <3>3, AckerFrame DEF CleanInv
  <2>2. CASE m = n
    <3>1. rpc'[n] = "cancel" /\ rcur'[n] = p
      BY <1>1, <1>2 DEF TypeInv, TypeOK
    <3> QED BY <1>1, <1>3, <2>2, <3>1 DEF AckerInv, Allocated
  <2> QED BY <2>1, <2>2
<1> QED BY <1>4, <1>5, <1>6, <1>7 DEF CleanInv

LEMMA CleanCancelTimer ==
  ASSUME TypeInv, CleanInv, NEW n \in Node, CancelTimer(n)
  PROVE  CleanInv'
<1>1. /\ UNCHANGED <<nextId, spc, scur, dest, than, releases, exits, wpc, wcur,
                     packages, rcur, complete, net>>
      /\ rpc' = [rpc EXCEPT ![n] = "wait"] /\ rpc[n] = "cancel"
      /\ timer' = [timer EXCEPT ![rcur[n]] = "deleting"]
  BY DEF CancelTimer, RecvAt, sendVars, workVars, toldVars
<1>2. PICK p \in Pkg : rcur[n] = p
  BY <1>1 DEF TypeInv, WorkOK
<1>3. /\ Src(p) = n /\ Allocated(p) /\ p \notin packages
      /\ \A t \in Thread : PreStart(t) => scur[t] # p
      /\ Data(p) \in net
  BY <1>1, <1>2, AckerFacts DEF Acking, CleanInv, AckerInv
<1>4. NothingFailed' /\ Distinct'
  BY <1>1 DEF CleanInv, NothingFailed, Distinct, TypeInv, TypeOK
<1>5. \A q \in Pkg : q # p => timer'[q] = timer[q]
  BY <1>1, <1>2 DEF TypeInv, TypeOK
<1>6. ASSUME NEW q \in Pkg PROVE PkgInv(q)'
  <2>1. CASE q # p
    BY <1>1, <1>5, <2>1, PkgFrame DEF CleanInv, CallbackRuns
  <2>2. CASE q = p
    <3>1. timer'[p] = "deleting"
      BY <1>1, <1>2 DEF TypeInv, TypeOK
    <3>2. FreshPkg(p)'
      BY <1>1, <1>3 DEF FreshPkg, Allocated
    <3>3. TimerLife(p)' /\ Ended(p)'
      BY <1>1, <3>1 DEF CleanInv, PkgInv, TimerLife, Ended, CallbackRuns
    <3> QED BY <2>2, <3>2, <3>3 DEF PkgInv
  <2> QED BY <2>1, <2>2
<1>7. ASSUME NEW t \in Thread PROVE ThreadInv(t)'
  <2>1. PreStart(t) => scur[t] \in Pkg /\ scur[t] # p
    BY <1>3 DEF PreStart, TypeInv, WorkOK
  <2> QED BY <1>1, <1>5, <2>1, ThreadFrame DEF CleanInv
<1>8. ASSUME NEW m \in Node PROVE AckerInv(m)'
  <2>1. CASE m # n
    <3>1. rpc'[m] = rpc[m] /\ rcur'[m] = rcur[m]
      BY <1>1, <2>1 DEF TypeInv, TypeOK
    <3> QED BY <1>1, <3>1, AckerFrame DEF CleanInv
  <2>2. CASE m = n
    <3>1. rpc'[n] = "wait" /\ rcur'[n] = p
      BY <1>1, <1>2 DEF TypeInv, TypeOK
    <3> QED BY <1>1, <1>3, <2>2, <3>1 DEF AckerInv, Allocated
  <2> QED BY <2>1, <2>2
<1> QED BY <1>4, <1>6, <1>7, <1>8 DEF CleanInv

LEMMA CleanTimerCancelled ==
  ASSUME TypeInv, CleanInv, NEW n \in Node, TimerCancelled(n)
  PROVE  CleanInv'
<1>1. /\ UNCHANGED <<nextId, spc, scur, dest, than, packages, exits, wpc, wcur,
                     complete, net>>
      /\ rpc' = [rpc EXCEPT ![n] = "recv"] /\ rpc[n] = "wait"
      /\ rcur' = [rcur EXCEPT ![n] = NoPkg]
      /\ Release(rcur[n]) /\ ~ CallbackRuns(rcur[n])
  BY DEF TimerCancelled, RecvAt, sendVars, workVars, toldVars
<1>2. PICK p \in Pkg : rcur[n] = p
  BY <1>1 DEF TypeInv, WorkOK
<1>3. /\ Allocated(p) /\ p \notin packages
      /\ \A t \in Thread : PreStart(t) => scur[t] # p
  BY <1>1, <1>2, AckerFacts DEF Acking
<1>4. NothingFailed'
  BY <1>1 DEF CleanInv, NothingFailed, TypeInv, TypeOK
<1>5. ASSUME NEW m \in Node PROVE AckerInv(m)'
  <2>1. CASE m # n
    <3>1. rpc'[m] = rpc[m] /\ rcur'[m] = rcur[m]
      BY <1>1, <2>1 DEF TypeInv, TypeOK
    <3> QED BY <1>1, <3>1, AckerFrame DEF CleanInv
  <2>2. CASE m = n
    BY <1>1, <2>2 DEF AckerInv, Acking, TypeInv, TypeOK
  <2> QED BY <2>1, <2>2
<1> QED BY <1>1, <1>2, <1>3, <1>4, <1>5, CleanRelease

LEMMA CleanTaking ==
  ASSUME TypeInv, CleanInv, NEW n \in Node,
         (\E p \in Pkg : RecvData(n, p)) \/ Deliver(n)
  PROVE  CleanInv'
<1>1. /\ UNCHANGED <<nextId, spc, scur, dest, timer, than, releases, exits, wpc, wcur,
                     packages, complete>>
      /\ \E to \in {"deliver", "recv"} : rpc' = [rpc EXCEPT ![n] = to]
      /\ \A m \in Node : m # n => rcur'[m] = rcur[m]
  BY DEF RecvData, Deliver, RecvAt, sendVars, timerVars, workVars, toldVars, TypeInv, TypeOK
<1>2. /\ net \subseteq net'
      /\ \A q \in Pkg : Data(q) \in net' <=> Data(q) \in net
      /\ \A q \in Pkg : Ack(q) \in net' => Ack(q) \in net \/ Data(q) \in net
  <2>1. ASSUME NEW p \in Pkg, RecvData(n, p)
        PROVE  Data(p) \in net /\ (net' = net \/ net' = net \cup {Ack(p)})
    BY <2>1 DEF RecvData, AckFor
  <2>2. Deliver(n) => net' = net
    BY DEF Deliver
  <2> QED BY <2>1, <2>2, KindsDiffer
<1>3. NothingFailed' /\ Distinct'
  BY <1>1 DEF CleanInv, NothingFailed, Distinct, TypeInv, TypeOK
<1>4. ASSUME NEW q \in Pkg PROVE PkgInv(q)'
  <2>1. PkgInv(q)
    BY DEF CleanInv
  <2>2. FreshPkg(q)'
    BY <1>1, <1>2, <2>1 DEF PkgInv, FreshPkg, Allocated
  <2>3. TimerLife(q)'
    BY <1>1, <2>1 DEF PkgInv, TimerLife, CallbackRuns
  <2>4. Ended(q)'
    BY <1>1, <1>2, <2>1 DEF PkgInv, Ended
  <2> QED BY <2>2, <2>3, <2>4 DEF PkgInv
<1>5. ASSUME NEW t \in Thread PROVE ThreadInv(t)'
  <2>1. PreStart(t) => scur[t] \in Pkg
    BY DEF PreStart, TypeInv, WorkOK
  <2> QED BY <1>1, <1>2, <2>1, ThreadFrame DEF CleanInv
<1>6. ASSUME NEW m \in Node PROVE AckerInv(m)'
  <2>1. CASE m # n
    <3>1. rpc'[m] = rpc[m] /\ rcur'[m] = rcur[m]
      BY <1>1, <2>1 DEF TypeInv, TypeOK
    <3> QED BY <1>1, <1>2, <3>1, AckerFrame DEF CleanInv
  <2>2. CASE m = n
    <3>1. rpc'[n] \in {"deliver", "recv"}
      BY <1>1 DEF TypeInv, TypeOK
    <3> QED BY <2>2, <3>1 DEF AckerInv, Acking
  <2> QED BY <2>1, <2>2
<1> QED BY <1>3, <1>4, <1>5, <1>6 DEF CleanInv

(* What a step can be while nothing fails and nothing is cancelled.        *)
CleanStep ==
  \/ \E t \in Thread :
       \/ \E a \in Address : Assemble(t, a)
       \/ CheckWindow(t) \/ ChargeWindow(t) \/ StartTimer(t) \/ SendTo(t)
  \/ \E w \in Worker :
       \/ Stun(w) \/ Retransmit(w) \/ ExitTimer(w) \/ Crack(w)
       \/ \E p \in Pkg : Fire(w, p)
  \/ \E n \in Node :
       \/ \E p \in Pkg : RecvAck(n, p)
       \/ \E p \in Pkg : RecvData(n, p)
       \/ PostComplete(n) \/ CancelTimer(n) \/ TimerCancelled(n) \/ Deliver(n)
       \/ DeliverCrashes(n)
  \/ \E p \in Pkg : ReleaseOnExit(p)
  \/ UNCHANGED vars

LEMMA OnlyCleanSteps ==
  ASSUME Clean, TypeInv, NothingFailed, [Next]_vars
  PROVE  CleanStep
<1>1. ~ Fault
  BY DEF Clean, Fault, TypeInv, TypeOK
<1>2. \A p \in Pkg : ~ CancelIo(p)
  BY DEF Clean, CancelIo, CancelNothing, CancelCrashes, CancelUnnoticed, CancelMarks,
     TypeInv, TypeOK
<1>3. \A t \in Thread : ~ StartTimerFails(t)
  BY <1>1 DEF StartTimerFails
<1>4. \A w \in Worker : ~ RetransmitFails(w) /\ ~ ExitTimerUnlocked(w)
  BY <1>1 DEF RetransmitFails, ExitTimerUnlocked, WorkerAt, NothingFailed
<1>5. \A n \in Node : ~ DeliverOutOfMemory(n) /\ ~ PostCompleteOutOfMemory(n)
  BY <1>1 DEF DeliverOutOfMemory, PostCompleteOutOfMemory
<1> QED BY <1>2, <1>3, <1>4, <1>5 DEF Next, Send, Callback, Receive, CleanStep

LEMMA CleanInvStep ==
  ASSUME Clean, TypeInv, CleanInv, [Next]_vars
  PROVE  CleanInv'
<1>1. CleanStep
  BY OnlyCleanSteps DEF CleanInv
<1>2. CASE UNCHANGED vars \/ \E n \in Node : DeliverCrashes(n)
  <2>1. /\ UNCHANGED <<nextId, spc, scur, dest, timer, than, releases, exits, wpc, wcur,
                       packages, complete, net, rpc, rcur>>
    BY <1>2 DEF DeliverCrashes, vars, sendVars, timerVars, workVars, recvVars, toldVars
  <2>2. NothingFailed' /\ Distinct'
    BY <2>1 DEF CleanInv, NothingFailed, Distinct
  <2>3. \A q \in Pkg : PkgInv(q)'
    BY <2>1, PkgFrame DEF CleanInv, CallbackRuns
  <2>4. \A t \in Thread : ThreadInv(t)'
    BY <2>1, ThreadFrame DEF CleanInv
  <2>5. \A m \in Node : AckerInv(m)'
    BY <2>1, AckerFrame DEF CleanInv
  <2> QED BY <2>2, <2>3, <2>4, <2>5 DEF CleanInv
<1> QED BY <1>1, <1>2, CleanAssemble, CleanThread, CleanCallback, CleanFire,
           CleanReleaseOnExit, CleanRecvAck, CleanPostComplete, CleanCancelTimer,
           CleanTimerCancelled, CleanTaking DEF CleanStep

LEMMA CleanInvInit == Init => CleanInv
<1> SUFFICES ASSUME Init PROVE CleanInv
  OBVIOUS
<1>1. NothingFailed /\ Distinct /\ (\A t \in Thread : ThreadInv(t))
      /\ (\A n \in Node : AckerInv(n))
  BY DEF Init, NothingFailed, Distinct, ThreadInv, AckerInv, Acking
<1>2. \A p \in Pkg : ~ CallbackRuns(p)
  BY NamesAssumption DEF Init, CallbackRuns
<1>3. ASSUME NEW p \in Pkg PROVE PkgInv(p)
  BY <1>2, <1>3 DEF Init, PkgInv, FreshPkg, TimerLife, Ended
<1> QED BY <1>1, <1>3 DEF CleanInv

LEMMA CleanInvAlways ==
  ASSUME Clean
  PROVE  Spec => []CleanInv
<1>1. TypeInv /\ CleanInv /\ [Next]_vars => CleanInv'
  BY CleanInvStep
<1> QED BY <1>1, CleanInvInit, TypeCorrect, PTL DEF Spec, TypeInv

-----------------------------------------------------------------------------
(* While nothing fails, repeated acknowledgements, retries that run out    *)
(* and duplicates never complete a package twice (lines 483 to 488).       *)
THEOREM CompletedOnce ==
  ASSUME Clean
  PROVE  Spec => []CompletedAtMostOnce
<1>1. CleanInv => CompletedAtMostOnce
  BY DEF CleanInv, PkgInv, Ended, CompletedAtMostOnce
<1> QED BY <1>1, CleanInvAlways, PTL

(* While nothing fails, the handle an acknowledgement finds with a tracked *)
(* package was not deleted (lines 484 to 500).                             *)
THEOREM TrackedHaveTimers ==
  ASSUME Clean
  PROVE  Spec => []TrackedTimerAlive
<1>1. TypeInv /\ CleanInv => TrackedTimerAlive
  BY DEF TypeInv, TypeOK, CleanInv, PkgInv, Ended, TrackedTimerAlive
<1> QED BY <1>1, CleanInvAlways, TypeCorrect, PTL DEF TypeInv

(* While nothing fails, no callback runs on a timer whose argument and     *)
(* handle were deleted, though two threads may delete it.                  *)
THEOREM CallbacksHaveTimers ==
  ASSUME Clean
  PROVE  Spec => []NoCallbackOnReleasedTimer
<1>1. TypeInv /\ CleanInv => NoCallbackOnReleasedTimer
  <2> SUFFICES ASSUME TypeInv, CleanInv, NEW w \in Worker, wpc[w] # "idle"
               PROVE  releases[wcur[w]] = 0
    BY DEF NoCallbackOnReleasedTimer
  <2>1. wcur[w] \in Pkg /\ CallbackRuns(wcur[w])
    BY DEF TypeInv, WorkOK, CallbackRuns
  <2> QED BY <2>1 DEF CleanInv, PkgInv, TimerLife, TypeInv, TypeOK
<1> QED BY <1>1, CleanInvAlways, TypeCorrect, PTL DEF TypeInv

-----------------------------------------------------------------------------
(* Without failures and cancellations a bit of _received is only set with  *)
(* the package handed over.                                                *)
MarkedDelivered ==
  \A n \in Node, p \in Pkg : p \in received[n] => delivered[n][p] > 0

LEMMA MarkedDeliveredStep ==
  ASSUME Clean, TypeInv, CleanInv, DeliveredMarked, MarkedDelivered, [Next]_vars
  PROVE  MarkedDelivered'
<1>1. CleanStep
  BY OnlyCleanSteps DEF CleanInv
<1>2. CASE UNCHANGED <<received, delivered>>
  BY <1>2 DEF MarkedDelivered
<1>3. ASSUME NEW n \in Node, Deliver(n) PROVE MarkedDelivered'
  <2>1. PICK q \in Pkg : q = rcur[n]
    BY <1>3 DEF Deliver, RecvAt, TypeInv, WorkOK
  <2>2. CASE Repeated(n, q) /\ UNCHANGED delivered
    BY <1>2, <2>2 DEF Repeated
  <2>3. CASE FirstTime(n, q) /\ delivered' = [delivered EXCEPT ![n][q] = @ + 1]
    <3>1. received' \in {received, [received EXCEPT ![n] = @ \cup {q}]}
      BY <2>3 DEF FirstTime
    <3>2. /\ delivered \in [Node -> [Pkg -> Nat]] /\ received \in [Node -> SUBSET Pkg]
      BY DEF TypeInv, TypeOK
    <3> SUFFICES ASSUME NEW m \in Node, NEW p \in Pkg, p \in received'[m]
                 PROVE  delivered'[m][p] > 0
      BY DEF MarkedDelivered
    <3>3. CASE m = n /\ p = q
      <4>1. delivered'[n][q] = delivered[n][q] + 1 /\ delivered[n][q] \in Nat
        BY <2>3, <3>2
      <4> QED BY <3>3, <4>1
    <3>4. CASE ~ (m = n /\ p = q)
      BY <2>3, <3>1, <3>2, <3>4 DEF MarkedDelivered
    <3> QED BY <3>3, <3>4
  <2> QED BY <1>3, <2>1, <2>2, <2>3 DEF Deliver
<1>4. CASE \E t \in Thread :
             \/ \E a \in Address : Assemble(t, a)
             \/ CheckWindow(t) \/ ChargeWindow(t) \/ StartTimer(t) \/ SendTo(t)
  BY <1>2, <1>4 DEF Assemble, CheckWindow, ChargeWindow, StartTimer, SendTo, recvVars
<1>5. CASE \E w \in Worker :
             \/ Stun(w) \/ Retransmit(w) \/ ExitTimer(w) \/ Crack(w)
             \/ \E p \in Pkg : Fire(w, p)
  BY <1>2, <1>5 DEF Stun, Retransmit, ExitTimer, Crack, Fire, recvVars
<1>6. CASE \E n \in Node :
             \/ \E p \in Pkg : RecvAck(n, p)
             \/ \E p \in Pkg : RecvData(n, p)
             \/ PostComplete(n) \/ CancelTimer(n) \/ TimerCancelled(n)
             \/ DeliverCrashes(n)
  BY <1>2, <1>6 DEF RecvAck, RecvData, PostComplete, CancelTimer, TimerCancelled,
     DeliverCrashes, recvVars
<1>7. CASE \E p \in Pkg : ReleaseOnExit(p)
  BY <1>2, <1>7 DEF ReleaseOnExit, recvVars
<1>8. CASE UNCHANGED vars
  BY <1>2, <1>8 DEF vars, recvVars
<1> QED BY <1>1, <1>3, <1>4, <1>5, <1>6, <1>7, <1>8 DEF CleanStep

(* While nothing fails, a success means that the application at the other  *)
(* end has the package or is about to get it (lines 496 and 509 to 518),   *)
(* unless its id was looked for beyond the end of the bitmap.              *)
THEOREM SuccessIsDelivered ==
  ASSUME Clean
  PROVE  Spec => []SuccessMeansDelivered
<1>1. Init => MarkedDelivered
  BY DEF Init, MarkedDelivered
<1>2. TypeInv /\ CleanInv /\ DeliveredMarked /\ MarkedDelivered /\ [Next]_vars
        => MarkedDelivered'
  BY MarkedDeliveredStep
<1>3. CleanInv /\ DeliveredMarked /\ MarkedDelivered /\ SuccessInv
        => SuccessMeansDelivered
  <2> SUFFICES ASSUME CleanInv, DeliveredMarked, MarkedDelivered, SuccessInv,
                      NEW p \in Pkg, complete[p] > 0
               PROVE  \/ delivered[dest[p]][p] = 1
                      \/ rcur[dest[p]] = p /\ rpc[dest[p]] = "deliver"
                      \/ p \in astray[dest[p]]
    BY DEF SuccessMeansDelivered
  <2>1. dest[p] \in Node /\ Taken(dest[p], p)
    BY DEF SuccessInv, CauseInv, AckInv
  <2>2. p \in received[dest[p]] =>
          delivered[dest[p]][p] = 1 \/ p \in astray[dest[p]]
    BY <2>1 DEF DeliveredMarked, Marked, MarkedDelivered
  <2> QED BY <2>1, <2>2 DEF Taken, CleanInv, NothingFailed
<1> QED BY <1>1, <1>2, <1>3, CleanInvAlways, DeliveredMarkedAlways, SuccessInvAlways,
           TypeCorrect, PTL DEF Spec, TypeInv

-----------------------------------------------------------------------------
(* The window, with one sending thread for an endpoint and completions     *)
(* posted: every credit taken is a package sent and not yet acknowledged.  *)
OneSenderEach == \A t, u \in Thread : Home[t] = Home[u] => t = u

Out(n) == {p \in Pkg : Src(p) = n /\ Charged(p) /\ ~ Credited(p)}

WindowInv ==
  /\ \A n \in Node : window[n] = Window - Cardinality(Out(n))
  /\ \A t \in Thread : spc[t] = "charge" => window[Home[t]] # 0
  /\ \A t \in Thread : spc[t] # "idle" => dest[scur[t]] # NoAddress

LEMMA OutFinite ==
  ASSUME NEW n \in Node
  PROVE  IsFiniteSet(Out(n)) /\ Cardinality(Out(n)) \in Nat
<1>1. IsFiniteSet(Id)
  BY FS_Interval, ConstantsAssumption DEF Id
<1>2. IsFiniteSet({n})
  BY FS_Singleton
<1>3. IsFiniteSet({n} \X Id)
  BY <1>1, <1>2, FS_Product
<1>4. Out(n) \subseteq {n} \X Id
  BY DEF Out, Pkg, Src
<1> QED BY <1>3, <1>4, FS_Subset, FS_CardinalityType

LEMMA SameOut ==
  ASSUME \A p \in Pkg : (Charged(p)' <=> Charged(p)) /\ (Credited(p)' <=> Credited(p))
  PROVE  \A n \in Node : Out(n)' = Out(n)
BY DEF Out

LEMMA WindowKept ==
  ASSUME WindowInv, window' = window,
         \A p \in Pkg : Charged(p)' <=> Charged(p),
         \A p \in Pkg : Credited(p)' <=> Credited(p),
         \A t \in Thread : spc'[t] = "charge" => spc[t] = "charge" \/ window[Home[t]] # 0,
         \A t \in Thread : spc'[t] # "idle" => dest'[scur'[t]] # NoAddress
  PROVE  WindowInv'
<1>1. \A n \in Node : Out(n)' = Out(n)
  BY SameOut
<1>2. ASSUME NEW n \in Node PROVE window'[n] = Window - Cardinality(Out(n)')
  BY <1>1 DEF WindowInv
<1>3. ASSUME NEW t \in Thread, spc'[t] = "charge" PROVE window'[Home[t]] # 0
  BY <1>3 DEF WindowInv
<1> QED BY <1>2, <1>3 DEF WindowInv

LEMMA WindowQuiet ==
  ASSUME WindowInv, UNCHANGED <<window, dest, spc, scur, complete, rpc, rcur>>
  PROVE  WindowInv'
<1>1. \A p \in Pkg : Charged(p)' <=> Charged(p)
  BY DEF Charged
<1>2. \A p \in Pkg : Credited(p)' <=> Credited(p)
  BY DEF Credited
<1>3. \A t \in Thread : spc'[t] # "idle" => dest'[scur'[t]] # NoAddress
  BY DEF WindowInv
<1> QED BY <1>1, <1>2, <1>3, WindowKept

LEMMA WindowAssemble ==
  ASSUME TypeInv, FreshInv, WindowInv,
         NEW t \in Thread, NEW a \in Address, Assemble(t, a)
  PROVE  WindowInv'
<1> DEFINE n == Home[t]
<1>0. n \in Node /\ nextId[n] \in 0 .. MaxId /\ nextId[n] < MaxId
  BY NamesAssumption DEF Assemble, TypeInv, TypeOK
<1>1. PICK q \in Pkg : q = <<n, nextId[n]>> /\ dest[q] = NoAddress
  <2>1. <<n, nextId[n]>> \in Pkg /\ nextId[n] \in Nat
    BY <1>0, ConstantsAssumption DEF Pkg, Id
  <2>2. dest[<<n, nextId[n]>>] = NoAddress
    BY <1>0, <2>1 DEF FreshInv, Src, Num
  <2> QED BY <2>1, <2>2
<1>2. /\ UNCHANGED <<window, complete, rpc, rcur>>
      /\ spc[t] = "idle" /\ spc' = [spc EXCEPT ![t] = "check"]
      /\ scur' = [scur EXCEPT ![t] = q] /\ dest' = [dest EXCEPT ![q] = a]
  BY <1>1 DEF Assemble, ThreadAt, recvVars, toldVars
<1> HIDE DEF n
<1>3. /\ spc'[t] = "check" /\ scur'[t] = q
      /\ \A u \in Thread : u # t => spc'[u] = spc[u] /\ scur'[u] = scur[u]
      /\ \A p \in Pkg : p # q => dest'[p] = dest[p]
  BY <1>2 DEF TypeInv, TypeOK
<1>4. ASSUME NEW p \in Pkg PROVE Charged(p)' <=> Charged(p)
  <2>1. CASE p = q
    BY <1>1, <1>3, <2>1 DEF Charged
  <2>2. CASE p # q
    BY <1>2, <1>3, <2>2 DEF Charged
  <2> QED BY <2>1, <2>2
<1>5. \A p \in Pkg : Credited(p)' <=> Credited(p)
  BY <1>2 DEF Credited
<1>6. \A u \in Thread : spc'[u] = "charge" => spc[u] = "charge"
  BY <1>3
<1>7. dest'[q] # NoAddress
  BY <1>2, NamesAssumption DEF TypeInv, TypeOK
<1>8. ASSUME NEW u \in Thread, spc'[u] # "idle" PROVE dest'[scur'[u]] # NoAddress
  <2>1. CASE u = t \/ scur[u] = q
    BY <1>3, <1>7, <2>1
  <2>2. CASE ~ (u = t \/ scur[u] = q)
    BY <1>2, <1>3, <1>8, <2>2 DEF WindowInv, TypeInv, WorkOK
  <2> QED BY <2>1, <2>2
<1> QED BY <1>2, <1>4, <1>5, <1>6, <1>8, WindowKept

LEMMA WindowSend ==
  ASSUME TypeInv, WindowInv, NEW t \in Thread,
         CheckWindow(t) \/ StartTimer(t) \/ SendTo(t)
  PROVE  WindowInv'
<1>1. /\ UNCHANGED <<window, dest, complete, rpc, rcur>>
      /\ \A u \in Thread : u # t => spc'[u] = spc[u] /\ scur'[u] = scur[u]
      /\ \/ /\ spc[t] = "check" /\ spc'[t] = "charge" /\ scur'[t] = scur[t]
            /\ window[Home[t]] # 0
         \/ spc[t] = "start" /\ spc'[t] = "sendto" /\ scur'[t] = scur[t]
         \/ spc[t] = "sendto" /\ spc'[t] = "idle" /\ scur'[t] = NoPkg
  BY DEF CheckWindow, StartTimer, SendTo, ThreadAt, TypeInv, TypeOK, recvVars, toldVars
<1>2. ASSUME NEW p \in Pkg PROVE Charged(p)' <=> Charged(p)
  BY <1>1, NamesAssumption DEF Charged
<1>3. \A p \in Pkg : Credited(p)' <=> Credited(p)
  BY <1>1 DEF Credited
<1>4. \A u \in Thread : spc'[u] = "charge" => spc[u] = "charge" \/ window[Home[u]] # 0
  BY <1>1
<1>5. \A u \in Thread : spc'[u] # "idle" => dest'[scur'[u]] # NoAddress
  BY <1>1 DEF WindowInv
<1> QED BY <1>1, <1>2, <1>3, <1>4, <1>5, WindowKept

LEMMA WindowCharge ==
  ASSUME OneSenderEach, TypeInv, CleanInv, CauseInv, WindowInv,
         NEW t \in Thread, ChargeWindow(t)
  PROVE  WindowInv'
<1>1. PICK n \in Node : n = Home[t]
  BY NamesAssumption
<1>2. PICK q \in Pkg : q = scur[t]
  BY DEF ChargeWindow, ThreadAt, TypeInv, WorkOK
<1>3. /\ UNCHANGED <<dest, scur, complete, rpc, rcur, net>>
      /\ spc[t] = "charge" /\ spc'[t] \in {"sendto", "start"}
      /\ \A u \in Thread : u # t => spc'[u] = spc[u]
      /\ window' = [window EXCEPT ![n] = Decremented(@)]
  BY <1>1 DEF ChargeWindow, ThreadAt, recvVars, toldVars, TypeInv, TypeOK
<1>4. /\ Src(q) = n /\ dest[q] # NoAddress /\ Data(q) \notin net
      /\ \A u \in Thread : spc[u] # "idle" /\ u # t => scur[u] # q
  BY <1>1, <1>2, <1>3 DEF CleanInv, ThreadInv, PreStart, Distinct, WindowInv
<1>5. ~ Credited(q)
  <2>1. Ack(q) \notin net
    BY <1>4 DEF CleanInv, PkgInv, Ended
  <2> QED BY <2>1 DEF CauseInv, Credited, Src, Pkg, CleanInv, NothingFailed
<1>6. \A p \in Pkg : Credited(p)' <=> Credited(p)
  BY <1>3 DEF Credited
<1>7. \A p \in Pkg : p # q => (Charged(p)' <=> Charged(p))
  BY <1>2, <1>3 DEF Charged
<1>8. ~ Charged(q) /\ Charged(q)'
  BY <1>2, <1>3, <1>4 DEF Charged
<1>9. \A m \in Node : m # n => Out(m)' = Out(m)
  BY <1>4, <1>6, <1>7 DEF Out
<1>10. Out(n)' = Out(n) \cup {q} /\ q \notin Out(n)
  BY <1>4, <1>5, <1>6, <1>7, <1>8 DEF Out
<1>11. window'[n] = window[n] - 1 /\ (\A m \in Node : m # n => window'[m] = window[m])
  BY <1>1, <1>3 DEF WindowInv, Decremented, TypeInv, TypeOK
<1>12. Cardinality(Out(n)') = Cardinality(Out(n)) + 1 /\ Cardinality(Out(n)) \in Nat
  BY <1>10, OutFinite, FS_AddElement
<1>13. ASSUME NEW m \in Node PROVE window'[m] = Window - Cardinality(Out(m)')
  <2>1. CASE m = n
    BY <1>11, <1>12, <2>1, ConstantsAssumption DEF WindowInv
  <2>2. CASE m # n
    BY <1>9, <1>11, <2>2 DEF WindowInv
  <2> QED BY <2>1, <2>2
<1>14. ASSUME NEW u \in Thread, spc'[u] = "charge" PROVE window'[Home[u]] # 0
  <2>1. u # t /\ spc[u] = "charge"
    BY <1>3, <1>14
  <2>2. Home[u] \in Node /\ Home[u] # n
    BY <1>1, <2>1, NamesAssumption DEF OneSenderEach
  <2> QED BY <1>11, <2>1, <2>2 DEF WindowInv
<1>15. \A u \in Thread : spc'[u] # "idle" => dest'[scur'[u]] # NoAddress
  BY <1>3 DEF WindowInv
<1> QED BY <1>13, <1>14, <1>15 DEF WindowInv

LEMMA WindowRecvAck ==
  ASSUME TypeInv, CleanInv, AckInv, WindowInv,
         NEW n \in Node, NEW q \in Pkg, RecvAck(n, q)
  PROVE  WindowInv'
<1>1. /\ UNCHANGED <<dest, spc, scur, complete>>
      /\ Ack(q) \in net /\ Src(q) = n /\ q \in packages /\ rpc[n] = "recv"
      /\ rpc'[n] = "complete" /\ rcur'[n] = q
      /\ \A m \in Node : m # n => rpc'[m] = rpc[m] /\ rcur'[m] = rcur[m]
      /\ window' = [window EXCEPT ![n] = Incremented(@)]
  BY DEF RecvAck, RecvAt, Tracked, toldVars, TypeInv, TypeOK
<1>2. Data(q) \in net /\ complete[q] = 0
  BY <1>1 DEF CleanInv, PkgInv, Ended, TypeInv, TypeOK
<1>3. Charged(q)
  <2>1. dest[q] # NoAddress
    BY <1>1, NamesAssumption DEF AckInv
  <2>2. \A t \in Thread : spc[t] \in {"check", "charge"} => scur[t] # q
    BY <1>2 DEF CleanInv, ThreadInv, PreStart
  <2> QED BY <2>1, <2>2 DEF Charged
<1>4. ~ Credited(q) /\ Credited(q)'
  BY <1>1, <1>2 DEF Credited
<1>5. \A p \in Pkg : Charged(p)' <=> Charged(p)
  BY <1>1 DEF Charged
<1>6. ASSUME NEW p \in Pkg, p # q PROVE Credited(p)' <=> Credited(p)
  BY <1>1, <1>6, PkgFacts DEF Credited
<1>7. \A m \in Node : m # n => Out(m)' = Out(m)
  BY <1>1, <1>5, <1>6 DEF Out
<1>8. Out(n)' = Out(n) \ {q} /\ q \in Out(n)
  BY <1>1, <1>3, <1>4, <1>5, <1>6 DEF Out
<1>9. Cardinality(Out(n)') = Cardinality(Out(n)) - 1 /\ Cardinality(Out(n)) \in Nat
  BY <1>8, OutFinite, FS_RemoveElement
<1>10. Cardinality(Out(n)') \in Nat
  BY <1>8, OutFinite, FS_RemoveElement, FS_CardinalityType
<1>11. window[n] < Window /\ window[n] \in Nat
  BY <1>9, <1>10, ConstantsAssumption DEF WindowInv, TypeInv, TypeOK
<1>12. window'[n] = window[n] + 1 /\ (\A m \in Node : m # n => window'[m] = window[m])
  BY <1>1, <1>11, ConstantsAssumption DEF Incremented, TypeInv, TypeOK
<1>13. ASSUME NEW m \in Node PROVE window'[m] = Window - Cardinality(Out(m)')
  <2>1. CASE m = n
    BY <1>9, <1>12, <2>1, ConstantsAssumption DEF WindowInv
  <2>2. CASE m # n
    BY <1>7, <1>12, <2>2 DEF WindowInv
  <2> QED BY <2>1, <2>2
<1>14. ASSUME NEW u \in Thread, spc'[u] = "charge" PROVE window'[Home[u]] # 0
  <2>1. Home[u] \in Node /\ window[Home[u]] # 0
    BY <1>1, <1>14, NamesAssumption DEF WindowInv
  <2> QED BY <1>11, <1>12, <2>1
<1>15. \A u \in Thread : spc'[u] # "idle" => dest'[scur'[u]] # NoAddress
  BY <1>1 DEF WindowInv
<1> QED BY <1>13, <1>14, <1>15 DEF WindowInv

LEMMA WindowReceive ==
  ASSUME PostSendComplete, TypeInv, CleanInv, WindowInv, NEW n \in Node,
         \/ \E p \in Pkg : RecvData(n, p)
         \/ PostComplete(n) \/ CancelTimer(n) \/ TimerCancelled(n) \/ Deliver(n)
  PROVE  WindowInv'
<1>1. UNCHANGED <<window, dest, spc, scur>>
  BY DEF RecvData, PostComplete, CancelTimer, TimerCancelled, Deliver, sendVars
<1>2. ASSUME NEW p \in Pkg PROVE Credited(p)' <=> Credited(p)
  <2>1. CASE PostComplete(n)
    <3>1. /\ rpc' = [rpc EXCEPT ![n] = "cancel"] /\ rpc[n] = "complete" /\ rcur' = rcur
          /\ complete' = [complete EXCEPT ![rcur[n]] = @ + 1]
      BY <2>1 DEF PostComplete, RecvAt
    <3>2. PICK q \in Pkg : q = rcur[n] /\ Src(q) = n
      BY <3>1 DEF TypeInv, WorkOK, CleanInv, AckerInv, Acking
    <3>3. CASE p = q
      <4>1. complete'[p] > 0 /\ Credited(p)
        BY <3>1, <3>2, <3>3 DEF Credited, TypeInv, TypeOK
      <4> QED BY <4>1 DEF Credited
    <3>4. CASE p # q
      <4>1. complete'[p] = complete[p]
        BY <3>1, <3>2, <3>4 DEF TypeInv, TypeOK
      <4>2. rcur[Src(p)] = p => Src(p) # n
        BY <3>2, <3>4
      <4>3. Src(p) # n => rpc'[Src(p)] = rpc[Src(p)]
        BY <3>1, PkgFacts DEF TypeInv, TypeOK
      <4> QED BY <3>1, <4>1, <4>2, <4>3 DEF Credited
    <3> QED BY <3>3, <3>4
  <2>2. CASE ~ PostComplete(n)
    <3>1. /\ complete' = complete /\ rpc[n] # "complete" /\ rpc'[n] # "complete"
          /\ rpc[n] # "unposted" /\ rpc'[n] # "unposted"
          /\ \A m \in Node : m # n => rpc'[m] = rpc[m] /\ rcur'[m] = rcur[m]
      BY <2>2 DEF RecvData, CancelTimer, TimerCancelled, Deliver, RecvAt, toldVars,
         TypeInv, TypeOK
    <3> QED BY <3>1, PkgFacts DEF Credited
  <2> QED BY <2>1, <2>2
<1>3. \A p \in Pkg : Charged(p)' <=> Charged(p)
  BY <1>1 DEF Charged
<1>4. \A u \in Thread : spc'[u] # "idle" => dest'[scur'[u]] # NoAddress
  BY <1>1 DEF WindowInv
<1> QED BY <1>1, <1>2, <1>3, <1>4, WindowKept

LEMMA WindowStep ==
  ASSUME Clean, OneSenderEach, PostSendComplete,
         TypeInv, CleanInv, SuccessInv, WindowInv, [Next]_vars
  PROVE  WindowInv'
<1>1. CleanStep
  BY OnlyCleanSteps DEF CleanInv
<1>2. CASE \E w \in Worker :
             \/ Stun(w) \/ Retransmit(w) \/ ExitTimer(w) \/ Crack(w)
             \/ \E p \in Pkg : Fire(w, p)
  <2>1. UNCHANGED <<window, dest, spc, scur, complete, rpc, rcur>>
    BY <1>2 DEF Stun, Retransmit, ExitTimer, Crack, Fire, ReportFailure, sendVars,
       recvVars, toldVars
  <2> QED BY <2>1, WindowQuiet
<1>3. CASE \/ (\E p \in Pkg : ReleaseOnExit(p)) \/ UNCHANGED vars
           \/ \E n \in Node : DeliverCrashes(n)
  <2>1. UNCHANGED <<window, dest, spc, scur, complete, rpc, rcur>>
    BY <1>3 DEF ReleaseOnExit, DeliverCrashes, vars, sendVars, recvVars, toldVars
  <2> QED BY <2>1, WindowQuiet
<1> QED BY <1>1, <1>2, <1>3, WindowAssemble, WindowSend, WindowCharge, WindowRecvAck,
           WindowReceive DEF CleanStep, SuccessInv

LEMMA WindowInit == Init => WindowInv
<1> SUFFICES ASSUME Init PROVE WindowInv
  OBVIOUS
<1>1. \A n \in Node : Out(n) = {}
  BY DEF Init, Out, Charged
<1>2. \A n \in Node : window[n] = Window - Cardinality(Out(n))
  <2>1. Cardinality({}) = 0
    BY FS_EmptySet
  <2>2. \A n \in Node : window[n] = Window
    BY DEF Init
  <2>3. Window - 0 = Window
    BY ConstantsAssumption
  <2> QED BY <1>1, <2>1, <2>2, <2>3
<1> QED BY <1>2 DEF Init, WindowInv

(* While nothing fails and each endpoint has one sending thread, the       *)
(* credit left is the window minus the packages charged and not yet        *)
(* acknowledged, so it never wraps (lines 244 to 248 and 487).             *)
THEOREM WindowIsAccounted ==
  ASSUME Clean, OneSenderEach, PostSendComplete
  PROVE  Spec => []WindowAccounting
<1>1. TypeInv /\ CleanInv /\ SuccessInv /\ WindowInv /\ [Next]_vars => WindowInv'
  BY WindowStep
<1>2. WindowInv => WindowAccounting
  BY DEF WindowInv, WindowAccounting, Out
<1> QED BY <1>1, <1>2, WindowInit, CleanInvAlways, SuccessInvAlways, TypeCorrect, PTL
        DEF Spec, TypeInv
=============================================================================
