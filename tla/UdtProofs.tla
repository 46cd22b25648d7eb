------------------------------ MODULE UdtProofs ------------------------------
(***************************************************************************)
(* Proofs about Udt, for every set of blocks of any sizes, any blocks and  *)
(* ids of other senders, any number of threads, any slices that may fail   *)
(* and however often slices may be repeated.  Four invariants follow each      *)
(* other: how a block is cut (CutInv), what trans_core still knows of a    *)
(* slice (SliceInv), how the completions of a group are counted            *)
(* (CountInv), and what the other side has put together (CombInv).  From   *)
(* them the safety properties of Udt follow, and that it implements        *)
(* BlockService.                                                           *)
(***************************************************************************)
EXTENDS Udt, FiniteSetTheorems, TLAPS

USE DEF Block

-----------------------------------------------------------------------------
(* Slices and completions.                                                 *)

LEMMA AnySliceFacts ==
  ASSUME NEW s \in AnySlice
  PROVE  /\ Owner(s) \in Block
         /\ s \in Slices(Owner(s))
         /\ Start(s) \in Offsets(Owner(s))
         /\ s = <<Owner(s), Start(s)>>
         /\ Owner(s) \in Group => s \in Slice
BY DEF AnySlice, Slice, Slices, Owner, Start

LEMMA BlockSlices ==
  ASSUME NEW b \in Block, NEW s \in Slices(b)
  PROVE  s \in AnySlice /\ Owner(s) = b
BY DEF AnySlice, Slices, Owner

LEMMA IdFacts ==
  ASSUME NEW b \in Block
  PROVE  Id[b] \in Ids
BY DEF Ids

LEMMA SliceFacts ==
  ASSUME NEW s \in Slice
  PROVE  /\ Owner(s) \in Group
         /\ s \in Slices(Owner(s))
         /\ Start(s) \in Offsets(Owner(s))
         /\ s = <<Owner(s), Start(s)>>
         /\ s \in AnySlice
BY DEF AnySlice, Slice, Slices, Owner, Start

LEMMA SlicesFacts ==
  ASSUME NEW g \in Group, NEW s \in Slices(g)
  PROVE  /\ s \in Slice /\ s \in AnySlice
         /\ Owner(s) = g /\ s = <<g, Start(s)>> /\ Start(s) \in Offsets(g)
BY DEF AnySlice, Slice, Slices, Owner, Start

LEMMA SliceMade ==
  ASSUME NEW g \in Group, NEW b \in Offsets(g)
  PROVE  <<g, b>> \in Slices(g) /\ Start(<<g, b>>) = b
BY DEF Slices, Start

LEMMA CompletionFacts ==
  ASSUME NEW c \in Completion
  PROVE  /\ About(c) \in Slice
         /\ c = <<c[1], About(c)>>
         /\ c[1] \in {"complete", "cancelled", "exited"}
BY DEF Completion, About

LEMMA CompletionMade ==
  ASSUME NEW s \in Slice, NEW k \in {"complete", "cancelled", "exited"}
  PROVE  <<k, s>> \in Completion /\ About(<<k, s>>) = s
BY DEF Completion, About

LEMMA OffsetsFacts ==
  ASSUME NEW g \in Block
  PROVE  /\ Size[g] \in Nat
         /\ \A b \in Offsets(g) : b \in Nat /\ b < Size[g] /\ b % SliceData = 0
         /\ \A b \in Nat : b < Size[g] /\ b % SliceData = 0 => b \in Offsets(g)
BY ConstantsAssumption DEF Offsets

LEMMA SlicesFinite ==
  ASSUME NEW g \in Group
  PROVE  IsFiniteSet(Slices(g)) /\ Cardinality(Slices(g)) \in Nat
<1>1. Size[g] \in Nat
  BY OffsetsFacts
<1>2. IsFiniteSet(0 .. Size[g])
  BY <1>1, FS_Interval
<1>3. IsFiniteSet(Offsets(g))
  BY <1>2, FS_Subset DEF Offsets
<1>4. IsFiniteSet({g})
  BY FS_Singleton
<1>5. IsFiniteSet({g} \X Offsets(g))
  BY <1>3, <1>4, FS_Product
<1> QED BY <1>5, FS_CardinalityType DEF Slices

-----------------------------------------------------------------------------
(* Where slices start.                                                     *)

LEMMA Multiple ==
  ASSUME NEW d \in Nat \ {0}, NEW a \in Nat, a % d = 0
  PROVE  a = d * (a \div d) /\ a \div d \in Nat
OBVIOUS

LEMMA TimesMod ==
  ASSUME NEW d \in Nat \ {0}, NEW j \in Nat
  PROVE  (j * d) % d = 0
OBVIOUS

LEMMA NextMultiple ==
  ASSUME NEW d \in Nat \ {0}, NEW a \in Nat, a % d = 0
  PROVE  (a + d) % d = 0
<1> DEFINE j == a \div d
<1>1. a = d * j /\ j \in Nat
  BY Multiple
<1> HIDE DEF j
<1>2. a + d = (j + 1) * d
  BY <1>1
<1>3. ((j + 1) * d) % d = 0
  BY <1>1, TimesMod
<1> QED BY <1>2, <1>3

LEMMA BetweenMultiples ==
  ASSUME NEW d \in Nat \ {0}, NEW a \in Nat, a % d = 0,
         NEW b \in Nat, b % d = 0, a <= b, b < a + d
  PROVE  b = a
<1> DEFINE j == b \div d
           k == a \div d
<1>1. a = d * k /\ k \in Nat /\ b = d * j /\ j \in Nat
  BY Multiple
<1> HIDE DEF j, k
<1>2. ASSUME j > k PROVE FALSE
  <2>1. k * d + d <= j * d
    BY <1>1, <1>2
  <2> QED BY <1>1, <2>1
<1>3. ASSUME j < k PROVE FALSE
  <2>1. j * d + d <= k * d
    BY <1>1, <1>3
  <2> QED BY <1>1, <2>1
<1>4. j = k
  BY <1>1, <1>2, <1>3
<1> QED BY <1>1, <1>4

(* The next slice begins where this one ends; none begins in between.      *)
LEMMA NextSlice ==
  ASSUME NEW g \in Block, NEW u \in Offsets(g)
  PROVE  /\ SliceSize(g, u) \in Nat \ {0}
         /\ u + SliceSize(g, u) <= Size[g]
         /\ u + SliceSize(g, u) = Size[g] \/ (u + SliceSize(g, u)) % SliceData = 0
         /\ \A b \in Offsets(g) : b < u + SliceSize(g, u) <=> b < u \/ b = u
<1>1. /\ SliceData \in Nat \ {0} /\ Size[g] \in Nat
      /\ u \in Nat /\ u < Size[g] /\ u % SliceData = 0
  BY OffsetsFacts, ConstantsAssumption
<1>2. /\ SliceSize(g, u) \in Nat \ {0}
      /\ SliceSize(g, u) <= SliceData
      /\ u + SliceSize(g, u) = Size[g] \/ SliceSize(g, u) = SliceData
      /\ u + SliceSize(g, u) <= Size[g]
  BY <1>1 DEF SliceSize
<1> DEFINE n == SliceSize(g, u)
<1> HIDE DEF n
<1>3. n = SliceData => (u + n) % SliceData = 0
  BY <1>1, NextMultiple
<1>4. ASSUME NEW b \in Offsets(g) PROVE b < u + n <=> b < u \/ b = u
  <2>1. b \in Nat /\ b % SliceData = 0
    BY OffsetsFacts
  <2>2. u + n <= u + SliceData /\ n \in Nat \ {0}
    BY <1>1, <1>2 DEF n
  <2>3. CASE b < u + n /\ b >= u
    <3>1. b < u + SliceData
      BY <1>1, <2>1, <2>2, <2>3
    <3> QED BY <1>1, <2>1, <2>3, <3>1, BetweenMultiples
  <2> QED BY <1>1, <2>1, <2>2, <2>3
<1> QED BY <1>2, <1>3, <1>4 DEF n

-----------------------------------------------------------------------------
(* Types.                                                                  *)

LEMMA CountUp ==
  ASSUME NEW f \in [Group -> Nat], NEW g \in Group
  PROVE  [f EXCEPT ![g] = @ + 1] \in [Group -> Nat]
OBVIOUS

LEMMA CountUpSlice ==
  ASSUME NEW f \in [Slice -> Nat], NEW s \in Slice
  PROVE  [f EXCEPT ![s] = @ + 1] \in [Slice -> Nat]
OBVIOUS

LEMMA EraseTypes ==
  ASSUME TypeOK, NEW g \in Group, EraseGroup(g)
  PROVE  sending' \subseteq Group /\ reported' \in [Group -> Nat]
<1>1. reported \in [Group -> Nat] /\ sending \subseteq Group
  BY DEF TypeOK
<1>2. CASE g \in sending
  BY <1>1, <1>2, CountUp DEF EraseGroup
<1>3. CASE g \notin sending
  BY <1>1, <1>3 DEF EraseGroup
<1> QED BY <1>2, <1>3

LEMMA InitTypes == Init => TypeOK
<1> SUFFICES ASSUME Init PROVE TypeOK
  OBVIOUS
<1>1. <<>> \in Seq(SUBSET AnySlice)
  OBVIOUS
<1> QED BY <1>1 DEF Init, TypeOK, SendState, FailState

(* What is still typed when nothing of it was touched.                     *)
SenderTypes ==
  /\ pc \in [Group -> SendState] /\ used \in [Group -> Nat]
  /\ local \in [Group -> Nat] /\ count \in [Group -> Int] /\ sent \subseteq Slice

GroupTypes ==
  /\ sending \subseteq Group /\ reported \in [Group -> Nat]
  /\ geted \in [Group -> Nat] /\ holder \in Completion \cup {NoOne}
  /\ ticking \subseteq Completion

CoreTypes ==
  /\ settled \subseteq Slice /\ port \subseteq Completion
  /\ failing \in [Slice -> FailState] /\ deleted \in [Slice -> Nat]
  /\ bad \in [Group -> Nat]

PeerTypes ==
  /\ taken \in [AnySlice -> Nat] /\ inbox \in [AnySlice -> Nat]
  /\ expected \in [Ids -> Nat] /\ available \in [Ids -> Nat]
  /\ pieces \in [Ids -> SUBSET AnySlice]
  /\ received \in [Ids -> Seq(SUBSET AnySlice)]

LEMMA TypeParts ==
  TypeOK <=> SenderTypes /\ GroupTypes /\ CoreTypes /\ PeerTypes
BY DEF TypeOK, SenderTypes, GroupTypes, CoreTypes, PeerTypes

SenderStays == UNCHANGED <<pc, used, local, count, sent>>
GroupStays == UNCHANGED <<sending, reported, geted, holder, ticking>>
CoreStays == UNCHANGED <<settled, port, failing, deleted, bad>>
PeerStays == UNCHANGED <<taken, inbox, expected, available, pieces, received>>

(* Which part a step touches.                                              *)
LEMMA StepTouches ==
  ASSUME [Next]_vars
  PROVE  \/ \E g \in Group :
              Register(g) \/ SendSlice(g) \/ StoreCount(g) \/ CompareCount(g)
                \/ EraseAfterSend(g)
         \/ \E s \in Slice :
              Acknowledge(s) \/ CancelGroup(s) \/ ForgetGroup(s) \/ ExitTimer(s)
         \/ \E s \in AnySlice : Take(s) \/ Insert(s)
         \/ \E c \in Completion : CancelSlice(c) \/ CountSlice(c) \/ FinishTick(c)
         \/ UNCHANGED vars
BY DEF Next, SendBlock, RecvCompletion

LEMMA SenderTouches ==
  ASSUME NEW g \in Group,
         Register(g) \/ SendSlice(g) \/ StoreCount(g) \/ CompareCount(g)
           \/ EraseAfterSend(g)
  PROVE  CoreStays /\ PeerStays /\ UNCHANGED <<geted, holder, ticking>>
BY DEF CoreStays, PeerStays, Register, SendSlice, StoreCount, CompareCount,
       EraseAfterSend, sendVars, groupVars, coreVars, failVars, peerVars, combVars

LEMMA NetTouches ==
  ASSUME NEW s,
         Take(s) \/ Acknowledge(s) \/ CancelGroup(s) \/ ExitTimer(s) \/ Insert(s)
  PROVE  SenderStays /\ GroupStays
BY DEF SenderStays, GroupStays, Take, Acknowledge, CancelGroup, ExitTimer,
       Insert, sendVars, groupVars, coreVars, failVars, peerVars, combVars

LEMMA ForgetTouches ==
  ASSUME NEW s \in Slice, ForgetGroup(s)
  PROVE  /\ SenderStays /\ PeerStays
         /\ UNCHANGED <<geted, holder, reported, ticking, settled, port, deleted>>
BY DEF SenderStays, PeerStays, ForgetGroup, sendVars, coreVars, peerVars, combVars

LEMMA RecvTouches ==
  ASSUME NEW c \in Completion, CancelSlice(c) \/ CountSlice(c) \/ FinishTick(c)
  PROVE  SenderStays /\ PeerStays /\ UNCHANGED <<settled, failing, bad>>
BY DEF SenderStays, PeerStays, CancelSlice, CountSlice, FinishTick, sendVars,
       groupVars, coreVars, failVars, peerVars, combVars

(* The slicer stands where a slice starts, or at the end.                  *)
CutAt(g) == used[g] \in Offsets(g) \cup {Size[g]}

LEMMA CutTypes ==
  ASSUME TypeOK, NEW g \in Group, CutAt(g),
         Register(g) \/ SendSlice(g) \/ StoreCount(g) \/ CompareCount(g)
           \/ EraseAfterSend(g)
  PROVE  SenderTypes' /\ sending' \subseteq Group /\ reported' \in [Group -> Nat]
<1> USE DEF TypeOK, SenderTypes
<1>1. CASE Register(g)
  BY <1>1 DEF Register, SenderAt, SendState, coreVars
<1>2. CASE SendSlice(g)
  <2>1. UNCHANGED <<pc, count, sending, reported>>
    BY <1>2 DEF SendSlice, CountWhileSending, groupVars
  <2>2. local' \in [Group -> Nat]
    <3>1. local' = [local EXCEPT ![g] = @ + 1] /\ local \in [Group -> Nat]
      BY <1>2 DEF SendSlice
    <3> QED BY <3>1, CountUp, Zenon
  <2>3. used[g] \in Nat /\ used[g] + SliceSize(g, used[g]) \in Nat
    BY ConstantsAssumption DEF SliceSize
  <2>4. used' \in [Group -> Nat]
    BY <1>2, <2>3 DEF SendSlice
  <2>5. sent' = sent \cup {<<g, used[g]>>}
    BY <1>2, Zenon DEF SendSlice
  <2>6. <<g, used[g]>> \in Slice
    BY <1>2, SliceMade, SlicesFacts DEF SendSlice, SliceEnd, CutAt
  <2>7. sent' \subseteq Slice
    BY <2>5, <2>6
  <2> QED BY <2>1, <2>2, <2>4, <2>7
<1>3. CASE StoreCount(g)
  BY <1>3 DEF StoreCount, SenderAt, SendState, groupVars, coreVars
<1>4. CASE CompareCount(g)
  BY <1>4 DEF CompareCount, SenderAt, SendState, groupVars, coreVars
<1>5. CASE EraseAfterSend(g)
  BY <1>5, EraseTypes DEF EraseAfterSend, SenderAt, SendState, coreVars
<1> QED BY <1>1, <1>2, <1>3, <1>4, <1>5

LEMMA TakeTypes ==
  ASSUME TypeOK, NEW s \in AnySlice, Take(s)
  PROVE  CoreTypes' /\ PeerTypes'
<1>1. UNCHANGED <<settled, port, failing, deleted, bad,
                  expected, available, pieces, received>>
  BY DEF Take, coreVars, failVars, combVars
<1>2. /\ taken' = [taken EXCEPT ![s] = @ + 1] /\ inbox' = [inbox EXCEPT ![s] = @ + 1]
      /\ taken \in [AnySlice -> Nat] /\ inbox \in [AnySlice -> Nat]
  BY DEF Take, TypeOK
<1>3. taken' \in [AnySlice -> Nat] /\ inbox' \in [AnySlice -> Nat]
  BY <1>2
<1> QED BY <1>1, <1>3 DEF TypeOK, CoreTypes, PeerTypes

LEMMA NetTypes ==
  ASSUME TypeOK, NEW s \in Slice,
         Acknowledge(s) \/ CancelGroup(s) \/ ExitTimer(s)
  PROVE  CoreTypes' /\ PeerTypes'
<1> USE DEF TypeOK, CoreTypes, PeerTypes
<1>1. \A k \in {"complete", "cancelled", "exited"} : <<k, s>> \in Completion
  BY CompletionMade
<1>3. CASE Acknowledge(s)
  BY <1>1, <1>3 DEF Acknowledge, Tracked, failVars, peerVars, combVars
<1>4. CASE CancelGroup(s)
  <2>1. UNCHANGED <<bad, taken, inbox, expected, available, pieces, received>>
    BY <1>4 DEF CancelGroup, peerVars, combVars
  <2>2. failing' \in [Slice -> FailState]
    BY <1>4 DEF CancelGroup, FailState
  <2>3. deleted' = [t \in Slice |-> IF t \in Linked(s) THEN deleted[t] + 1 ELSE deleted[t]]
        /\ deleted \in [Slice -> Nat]
    BY <1>4, Zenon DEF CancelGroup
  <2>4. \A t \in Slice : deleted[t] + 1 \in Nat
    BY <2>3
  <2>5. deleted' \in [Slice -> Nat]
    BY <2>3, <2>4
  <2>6. \/ UNCHANGED <<settled, port>>
        \/ settled' = settled \cup {s} /\ port' = port \cup {<<"cancelled", s>>}
    BY <1>4 DEF CancelGroup, Linked
  <2>7. settled' \subseteq Slice /\ port' \subseteq Completion
    BY <1>1, <2>6
  <2> QED BY <2>1, <2>2, <2>5, <2>7
<1>5. CASE ExitTimer(s)
  BY <1>1, <1>5 DEF ExitTimer, FailState, peerVars, combVars
<1> QED BY <1>3, <1>4, <1>5

LEMMA ForgetTypes ==
  ASSUME TypeOK, NEW s \in Slice, ForgetGroup(s)
  PROVE  GroupTypes' /\ CoreTypes'
<1> USE DEF TypeOK, GroupTypes, CoreTypes
<1>1. UNCHANGED <<geted, holder, reported, ticking, settled, port, deleted>>
  BY ForgetTouches
<1>2. failing' \in [Slice -> FailState] /\ sending' \subseteq Group
  BY DEF ForgetGroup, FailState
<1>3. bad' = [bad EXCEPT ![Owner(s)] = @ + 1] /\ bad \in [Group -> Nat]
  BY DEF ForgetGroup, BadSend
<1>4. bad' \in [Group -> Nat]
  BY <1>3, SliceFacts, CountUp, Zenon
<1> QED BY <1>1, <1>2, <1>4

LEMMA RecvTypes ==
  ASSUME TypeOK, NEW c \in Completion, CancelSlice(c) \/ CountSlice(c) \/ FinishTick(c)
  PROVE  GroupTypes' /\ CoreTypes'
<1> USE DEF TypeOK, GroupTypes, CoreTypes
<1>0. About(c) \in Slice /\ Owner(About(c)) \in Group
  BY CompletionFacts, SliceFacts
<1>1. CASE CancelSlice(c)
  <2>1. deleted' = [deleted EXCEPT ![About(c)] = @ + 1] /\ deleted \in [Slice -> Nat]
    BY <1>1 DEF CancelSlice
  <2>2. deleted' \in [Slice -> Nat]
    BY <1>0, <2>1, CountUpSlice, Zenon
  <2>3. UNCHANGED <<sending, reported, geted, holder, settled, failing, bad>>
    BY <1>1 DEF CancelSlice, groupVars
  <2>4. port' \subseteq Completion /\ ticking' \subseteq Completion
    BY <1>1 DEF CancelSlice
  <2> QED BY <2>2, <2>3, <2>4
<1>2. CASE CountSlice(c)
  <2>1. UNCHANGED <<sending, reported, settled, port, failing, deleted, bad>>
    BY <1>2 DEF CountSlice, coreVars, failVars
  <2>2. ticking' \subseteq Completion
    BY <1>2 DEF CountSlice
  <2>3. CASE Owner(About(c)) \in sending
    <3>1. holder' = c /\ geted' = [geted EXCEPT ![Owner(About(c))] = @ + 1]
      BY <1>2, <2>3 DEF CountSlice
    <3>2. geted' \in [Group -> Nat]
      BY <1>0, <3>1, CountUp
    <3> QED BY <2>1, <2>2, <3>1, <3>2
  <2>4. CASE Owner(About(c)) \notin sending
    BY <1>2, <2>1, <2>2, <2>4 DEF CountSlice
  <2> QED BY <2>3, <2>4
<1>3. CASE FinishTick(c)
  <2>1. UNCHANGED <<geted, ticking, settled, port, failing, deleted, bad>> /\ holder' = NoOne
    BY <1>3 DEF FinishTick, coreVars, failVars
  <2>2. EraseGroup(Owner(About(c))) \/ UNCHANGED <<sending, reported>>
    BY <1>3 DEF FinishTick
  <2>3. sending' \subseteq Group /\ reported' \in [Group -> Nat]
    BY <1>0, <2>2, EraseTypes
  <2> QED BY <2>1, <2>3
<1> QED BY <1>1, <1>2, <1>3

(* _insert, with the names of its two outcomes.                            *)
IdOf(s) == Id[Owner(s)]
Size0(s) == IF pieces[IdOf(s)] = {} THEN Size[Owner(s)] ELSE expected[IdOf(s)]
Total(s) == IF Known(IdOf(s), Start(s)) THEN available[IdOf(s)]
            ELSE available[IdOf(s)] + SliceSize(Owner(s), Start(s))
Memory(s) == IF Known(IdOf(s), Start(s)) THEN pieces[IdOf(s)]
             ELSE pieces[IdOf(s)] \cup {s}

LEMMA InsertStep ==
  ASSUME NEW s, Insert(s)
  PROVE  /\ inbox[s] > 0 /\ inbox' = [inbox EXCEPT ![s] = @ - 1]
         /\ UNCHANGED taken /\ CoreStays
         /\ expected' = [expected EXCEPT ![IdOf(s)] = Size0(s)]
         /\ \/ /\ Total(s) = Size0(s)
               /\ received' = [received EXCEPT ![IdOf(s)] = Append(@, Memory(s))]
               /\ pieces' = [pieces EXCEPT ![IdOf(s)] = {}]
               /\ available' = [available EXCEPT ![IdOf(s)] = 0]
            \/ /\ Total(s) # Size0(s)
               /\ pieces' = [pieces EXCEPT ![IdOf(s)] = Memory(s)]
               /\ available' = [available EXCEPT ![IdOf(s)] = Total(s)]
               /\ UNCHANGED received
BY DEF Insert, Key, AcceptedAll, IdOf, Size0, Total, Memory, CoreStays, coreVars, failVars

LEMMA InsertTypes ==
  ASSUME TypeOK, NEW s \in AnySlice, Insert(s)
  PROVE  PeerTypes'
<1> USE DEF TypeOK, PeerTypes
<1> DEFINE b == Owner(s)
           i == IdOf(s)
           m == Memory(s)
           t == Total(s)
           z == Size0(s)
<1>1. b \in Block /\ i \in Ids /\ Start(s) \in Nat /\ Size[b] \in Nat
  BY AnySliceFacts, OffsetsFacts, IdFacts DEF IdOf
<1>2. z \in Nat
  BY <1>1 DEF Size0
<1>3. m \subseteq AnySlice
  BY <1>1 DEF Memory
<1>4. t \in Nat
  <2>1. SliceSize(b, Start(s)) \in Nat
    BY AnySliceFacts, NextSlice
  <2>2. available[i] \in Nat
    BY <1>1
  <2>3. available[i] + SliceSize(b, Start(s)) \in Nat
    BY <2>1, <2>2
  <2> QED BY <2>2, <2>3 DEF Total
<1>5. /\ inbox[s] > 0 /\ inbox' = [inbox EXCEPT ![s] = @ - 1] /\ UNCHANGED taken
      /\ expected' = [expected EXCEPT ![i] = z]
      /\ \/ /\ received' = [received EXCEPT ![i] = Append(@, m)]
            /\ pieces' = [pieces EXCEPT ![i] = {}]
            /\ available' = [available EXCEPT ![i] = 0]
         \/ /\ pieces' = [pieces EXCEPT ![i] = m]
            /\ available' = [available EXCEPT ![i] = t]
            /\ UNCHANGED received
  BY InsertStep
<1> HIDE DEF b, i, m, t, z
<1>6. inbox' \in [AnySlice -> Nat] /\ taken' \in [AnySlice -> Nat]
      /\ expected' \in [Ids -> Nat]
  <2>1. inbox[s] - 1 \in Nat
    BY <1>5
  <2> QED BY <1>1, <1>2, <1>5, <2>1
<1>7. CASE /\ received' = [received EXCEPT ![i] = Append(@, m)]
           /\ pieces' = [pieces EXCEPT ![i] = {}]
           /\ available' = [available EXCEPT ![i] = 0]
  <2>1. Append(received[i], m) \in Seq(SUBSET AnySlice)
    BY <1>1, <1>3
  <2>2. received' \in [Ids -> Seq(SUBSET AnySlice)]
    BY <1>1, <1>7, <2>1
  <2>3. pieces' \in [Ids -> SUBSET AnySlice] /\ available' \in [Ids -> Nat]
    BY <1>1, <1>7
  <2> QED BY <1>6, <2>2, <2>3
<1>8. CASE /\ pieces' = [pieces EXCEPT ![i] = m]
           /\ available' = [available EXCEPT ![i] = t]
           /\ UNCHANGED received
  <2>1. pieces' \in [Ids -> SUBSET AnySlice] /\ available' \in [Ids -> Nat]
    BY <1>1, <1>3, <1>4, <1>8
  <2> QED BY <1>6, <1>8, <2>1
<1> QED BY <1>5, <1>7, <1>8

LEMMA TypeStep ==
  ASSUME TypeOK, \A g \in Group : CutAt(g), [Next]_vars
  PROVE  TypeOK'
<1> USE TypeParts
<1>1. ASSUME NEW g \in Group,
             Register(g) \/ SendSlice(g) \/ StoreCount(g) \/ CompareCount(g)
               \/ EraseAfterSend(g)
      PROVE  TypeOK'
  <2>1. CoreStays /\ PeerStays /\ UNCHANGED <<geted, holder, ticking>>
    BY <1>1, SenderTouches
  <2>2. SenderTypes' /\ sending' \subseteq Group /\ reported' \in [Group -> Nat]
    BY <1>1, CutTypes
  <2>3. GroupTypes'
    BY <2>1, <2>2 DEF GroupTypes
  <2>4. CoreTypes' /\ PeerTypes'
    BY <2>1 DEF CoreTypes, CoreStays, PeerTypes, PeerStays
  <2> QED BY <2>2, <2>3, <2>4 DEF TypeOK, SenderTypes, GroupTypes, CoreTypes, PeerTypes
<1>2. ASSUME SenderStays PROVE SenderTypes'
  BY <1>2 DEF SenderStays, SenderTypes
<1>3. ASSUME GroupStays PROVE GroupTypes'
  BY <1>3 DEF GroupStays, GroupTypes
<1>4. ASSUME PeerStays PROVE PeerTypes'
  BY <1>4 DEF PeerStays, PeerTypes
<1>5. ASSUME CoreStays PROVE CoreTypes'
  BY <1>5 DEF CoreStays, CoreTypes
<1>6. ASSUME SenderTypes', GroupTypes', CoreTypes', PeerTypes' PROVE TypeOK'
  BY <1>6 DEF TypeOK, SenderTypes, GroupTypes, CoreTypes, PeerTypes
<1>7. ASSUME NEW s \in Slice, Acknowledge(s) \/ CancelGroup(s) \/ ExitTimer(s)
      PROVE  TypeOK'
  BY <1>2, <1>3, <1>6, <1>7, NetTypes, NetTouches
<1>12. ASSUME NEW s \in AnySlice, Take(s) PROVE TypeOK'
  BY <1>2, <1>3, <1>6, <1>12, TakeTypes, NetTouches
<1>8. ASSUME NEW s \in AnySlice, Insert(s) PROVE TypeOK'
  BY <1>2, <1>3, <1>5, <1>6, <1>8, InsertTypes, InsertStep, NetTouches
<1>9. ASSUME NEW s \in Slice, ForgetGroup(s) PROVE TypeOK'
  BY <1>2, <1>4, <1>6, <1>9, ForgetTypes, ForgetTouches
<1>10. ASSUME NEW c \in Completion, CancelSlice(c) \/ CountSlice(c) \/ FinishTick(c)
       PROVE  TypeOK'
  BY <1>2, <1>4, <1>6, <1>10, RecvTypes, RecvTouches
<1>11. CASE UNCHANGED vars
  BY <1>2, <1>3, <1>4, <1>5, <1>6, <1>11
     DEF vars, sendVars, groupVars, coreVars, failVars, peerVars, combVars,
         SenderStays, GroupStays, CoreStays, PeerStays
<1> QED BY <1>1, <1>7, <1>8, <1>9, <1>10, <1>11, <1>12, StepTouches

-----------------------------------------------------------------------------
(* How a block is cut: what was sent lies before the slicer's place, the   *)
(* slices so far are whole unless the end was reached, and the count is    *)
(* the largest size_t until the last slice was sent.                       *)
CutSent(g) == \A b \in Offsets(g) : <<g, b>> \in sent <=> b < used[g]

CutCount(g) ==
  /\ local[g] = Cardinality(sent \cap Slices(g))
  /\ used[g] <= local[g] * SliceData
  /\ local[g] * SliceData < used[g] + SliceData
  /\ used[g] < Size[g] => used[g] = local[g] * SliceData

CutStage(g) ==
  /\ pc[g] = "idle" => used[g] = 0
  /\ pc[g] = "cutting" => count[g] = -1
  /\ pc[g] \in {"stored", "erase", "done"} =>
       count[g] = local[g] /\ used[g] = Size[g]

CutInv(g) == CutAt(g) /\ CutSent(g) /\ CutCount(g) /\ CutStage(g)

LEMMA SentBefore ==
  ASSUME NEW g \in Group, CutSent(g), NEW s \in Slices(g)
  PROVE  s \in sent <=> Start(s) < used[g]
BY SlicesFacts DEF CutSent

LEMMA CutInit ==
  ASSUME Init, NEW g \in Group
  PROVE  CutInv(g)
<1>1. Size[g] \in Nat /\ SliceData \in Nat \ {0}
  BY ConstantsAssumption
<1>2. used[g] = 0 /\ local[g] = 0 /\ sent = {} /\ pc[g] = "idle"
  BY DEF Init
<1>3. CutAt(g)
  BY <1>1, <1>2 DEF CutAt, Offsets
<1>4. CutSent(g)
  BY <1>2, OffsetsFacts DEF CutSent
<1>5. sent \cap Slices(g) = {}
  BY <1>2
<1>6. CutCount(g)
  BY <1>1, <1>2, <1>5, FS_EmptySet DEF CutCount
<1> QED BY <1>2, <1>3, <1>4, <1>6 DEF CutInv, CutStage

(* A step that leaves the sender of a block alone.                         *)
SameSender(g) ==
  /\ pc[g]' = pc[g] /\ used[g]' = used[g] /\ local[g]' = local[g]
  /\ count[g]' = count[g] /\ (sent \cap Slices(g))' = sent \cap Slices(g)

LEMMA CutKept ==
  ASSUME NEW g \in Group, CutInv(g), SameSender(g)
  PROVE  CutInv(g)'
<1>1. CutAt(g)' /\ CutCount(g)' /\ CutStage(g)'
  BY DEF CutInv, CutAt, CutCount, CutStage, SameSender, Slices, Offsets
<1>2. ASSUME NEW b \in Offsets(g)
      PROVE  <<g, b>> \in sent' <=> b < used[g]'
  <2>1. <<g, b>> \in sent' <=> <<g, b>> \in sent
    BY SliceMade DEF SameSender, Slices, Offsets
  <2> QED BY <2>1 DEF SameSender, CutInv, CutSent
<1>3. CutSent(g)'
  BY <1>2 DEF CutSent, Offsets
<1> QED BY <1>1, <1>3 DEF CutInv

(* The arithmetic of one slice more.                                       *)
LEMMA OneSliceMore ==
  ASSUME NEW d \in Nat \ {0}, NEW u \in Nat, NEW n \in Nat, NEW z \in Nat \ {0},
         NEW size \in Nat, u < size, u + z <= size,
         z <= d, z < d => u + z = size, u = n * d
  PROVE  /\ u + z <= (n + 1) * d
         /\ (n + 1) * d < u + z + d
         /\ u + z < size => u + z = (n + 1) * d
<1>1. (n + 1) * d = u + d
  OBVIOUS
<1> QED BY <1>1

LEMMA CutSendSlice ==
  ASSUME TypeOK, NEW g \in Group, CutInv(g), SendSlice(g)
  PROVE  CutInv(g)'
<1> DEFINE u == used[g]
           z == SliceSize(g, u)
<1>1. u \in Offsets(g) /\ u \in Nat /\ Size[g] \in Nat /\ u < Size[g]
      /\ SliceData \in Nat \ {0}
  BY OffsetsFacts, ConstantsAssumption DEF SendSlice, SliceEnd, CutInv, CutAt
<1>2. /\ used[g]' = u + z /\ local[g]' = local[g] + 1
      /\ sent' = sent \cup {<<g, u>>} /\ pc[g] = "cutting"
      /\ pc[g]' = pc[g] /\ count[g]' = count[g]
  BY DEF SendSlice, CountWhileSending, TypeOK
<1>3. /\ z \in Nat \ {0} /\ u + z <= Size[g]
      /\ u + z = Size[g] \/ (u + z) % SliceData = 0
      /\ \A b \in Offsets(g) : b < u + z <=> b < u \/ b = u
  BY <1>1, NextSlice
<1>4. CutAt(g)'
  <2>1. u + z \in Offsets(g) \cup {Size[g]}
    BY <1>1, <1>3, OffsetsFacts
  <2> QED BY <1>2, <2>1 DEF CutAt, Offsets
<1>5. CutStage(g)'
  BY <1>2 DEF CutInv, CutStage
<1>6. CutSent(g)'
  <2>1. ASSUME NEW b \in Offsets(g) PROVE <<g, b>> \in sent' <=> b < used[g]'
    <3>1. <<g, b>> \in sent' <=> <<g, b>> \in sent \/ b = u
      BY <1>2
    <3>2. <<g, b>> \in sent <=> b < u
      BY DEF CutInv, CutSent
    <3>3. b < used[g]' <=> b < u \/ b = u
      BY <1>2, <1>3
    <3> QED BY <3>1, <3>2, <3>3
  <2> QED BY <2>1 DEF CutSent, Offsets
<1>7. local[g]' = Cardinality((sent \cap Slices(g))')
  <2>1. <<g, u>> \in Slices(g) /\ <<g, u>> \notin sent
    <3>1. ~ (u < u)
      BY <1>1
    <3> QED BY <1>1, <3>1, SliceMade DEF CutInv, CutSent
  <2>2. sent' \cap Slices(g) = (sent \cap Slices(g)) \cup {<<g, u>>}
    BY <1>2, <2>1
  <2>3. IsFiniteSet(sent \cap Slices(g))
    BY SlicesFinite, FS_Subset
  <2>4. Cardinality(sent' \cap Slices(g)) = Cardinality(sent \cap Slices(g)) + 1
    BY <2>1, <2>2, <2>3, FS_AddElement
  <2> QED BY <1>2, <2>4 DEF CutInv, CutCount, Slices, Offsets
<1>8. z <= SliceData /\ (z < SliceData => u + z = Size[g])
  BY <1>1 DEF SliceSize
<1>9. u = local[g] * SliceData /\ local[g] \in Nat
  BY <1>1 DEF CutInv, CutCount, TypeOK
<1> HIDE DEF u, z
<1>10. /\ u + z <= (local[g] + 1) * SliceData
       /\ (local[g] + 1) * SliceData < u + z + SliceData
       /\ u + z < Size[g] => u + z = (local[g] + 1) * SliceData
  BY <1>1, <1>3, <1>8, <1>9, OneSliceMore
<1>11. CutCount(g)'
  BY <1>2, <1>7, <1>10 DEF CutCount
<1> QED BY <1>4, <1>5, <1>6, <1>11 DEF CutInv

LEMMA CutStep ==
  ASSUME TypeOK, NEW h \in Group, CutInv(h), [Next]_vars
  PROVE  CutInv(h)'
<1>1. ASSUME SenderStays PROVE CutInv(h)'
  BY <1>1, CutKept DEF SenderStays, SameSender, Slices, Offsets
<1>2. ASSUME NEW g \in Group,
             Register(g) \/ SendSlice(g) \/ StoreCount(g) \/ CompareCount(g)
               \/ EraseAfterSend(g)
      PROVE  CutInv(h)'
  <2>1. CASE g # h
    <3>1. pc[h]' = pc[h] /\ used[h]' = used[h] /\ local[h]' = local[h]
          /\ count[h]' = count[h]
      BY <1>2, <2>1 DEF TypeOK, Register, SendSlice, StoreCount, CompareCount,
           EraseAfterSend, SenderAt, CountWhileSending
    <3>2. sent' = sent \/ sent' = sent \cup {<<g, used[g]>>}
      BY <1>2 DEF Register, SendSlice, StoreCount, CompareCount, EraseAfterSend,
           coreVars
    <3>3. <<g, used[g]>> \notin Slices(h)
      BY <2>1 DEF Slices
    <3>4. (sent \cap Slices(h))' = sent \cap Slices(h)
      BY <3>2, <3>3 DEF Slices, Offsets
    <3> QED BY <3>1, <3>4, CutKept DEF SameSender
  <2>2. CASE g = h /\ SendSlice(g)
    BY <2>2, CutSendSlice
  <2>3. CASE g = h /\ ~ SendSlice(g)
    <3>1. used[h]' = used[h] /\ local[h]' = local[h] /\ sent' = sent
      BY <1>2, <2>3 DEF Register, StoreCount, CompareCount, EraseAfterSend, coreVars
    <3>2. CutAt(h)' /\ CutSent(h)' /\ CutCount(h)'
      BY <3>1 DEF CutInv, CutAt, CutSent, CutCount, Slices, Offsets
    <3>3. CutStage(h)'
      <4>1. CASE Register(h)
        BY <4>1 DEF Register, SenderAt, CutStage, TypeOK
      <4>2. CASE StoreCount(h)
        BY <3>1, <4>2 DEF StoreCount, SenderAt, CutStage, TypeOK, SliceEnd
      <4>3. CASE CompareCount(h)
        BY <3>1, <4>3 DEF CompareCount, SenderAt, CutStage, TypeOK, CutInv
      <4>4. CASE EraseAfterSend(h)
        BY <3>1, <4>4 DEF EraseAfterSend, SenderAt, CutStage, TypeOK, CutInv
      <4> QED BY <1>2, <2>3, <4>1, <4>2, <4>3, <4>4
    <3> QED BY <3>2, <3>3 DEF CutInv
  <2> QED BY <2>1, <2>2, <2>3
<1>3. CASE UNCHANGED vars
  BY <1>1, <1>3 DEF vars, sendVars, coreVars, SenderStays
<1> QED BY <1>1, <1>2, <1>3, StepTouches, NetTouches, ForgetTouches, RecvTouches

-----------------------------------------------------------------------------
(* What trans_core knows of a slice.  One that was not given up has at     *)
(* most one completion under way, in one place, a good one, and only after *)
(* the peer took it; its node is deleted no earlier than that completion.  *)
Kind == {"complete", "cancelled", "exited"}
Complete(s) == <<"complete", s>>
Around(c) == c \in port \/ c \in ticking \/ holder = c

Passed ==
  /\ \A s \in AnySlice : inbox[s] <= taken[s]
  /\ \A s \in Slice : taken[s] > 0 => s \in sent
  /\ settled \subseteq sent
  /\ \A s \in Slice : failing[s] # "no" => s \in sent

GoodSlice(s) ==
  /\ \A k \in {"cancelled", "exited"} : ~ Around(<<k, s>>)
  /\ Around(Complete(s)) => s \in settled
  /\ ~ (Complete(s) \in port /\ Complete(s) \in ticking)
  /\ holder = Complete(s) => Complete(s) \notin port /\ Complete(s) \notin ticking
  /\ s \in settled => taken[s] > 0
  /\ deleted[s] > 0 => s \in settled /\ Complete(s) \notin port

SliceInv(s) == failing[s] = "no" => GoodSlice(s)

LEMMA PassedStep ==
  ASSUME TypeOK, Passed, [Next]_vars
  PROVE  Passed'
<1>1. ASSUME NEW g \in Group,
             Register(g) \/ SendSlice(g) \/ StoreCount(g) \/ CompareCount(g)
               \/ EraseAfterSend(g)
      PROVE  Passed'
  <2>1. sent \subseteq sent'
    BY <1>1 DEF Register, SendSlice, StoreCount, CompareCount, EraseAfterSend, coreVars
  <2> QED BY <1>1, <2>1, SenderTouches DEF Passed, CoreStays, PeerStays
<1>2. ASSUME NEW s \in AnySlice, Take(s) PROVE Passed'
  <2>1. /\ UNCHANGED <<sent, settled, failing>> /\ (s \in sent \/ Owner(s) \in Stranger)
        /\ taken' = [taken EXCEPT ![s] = @ + 1] /\ inbox' = [inbox EXCEPT ![s] = @ + 1]
        /\ taken \in [AnySlice -> Nat] /\ inbox \in [AnySlice -> Nat]
    BY <1>2 DEF Take, coreVars, failVars, TypeOK
  <2>2. \A t \in AnySlice : inbox'[t] <= taken'[t]
    BY <2>1 DEF Passed
  <2>3. \A t \in Slice : taken'[t] > 0 => t \in sent'
    <3>1. s \in Slice => s \in sent
      BY <2>1, SliceFacts, ConstantsAssumption
    <3>2. \A t \in Slice : t # s => taken'[t] = taken[t]
      BY <2>1, SliceFacts
    <3> QED BY <2>1, <3>1, <3>2 DEF Passed
  <2> QED BY <2>1, <2>2, <2>3 DEF Passed
<1>3. ASSUME NEW s \in Slice, Acknowledge(s) PROVE Passed'
  BY <1>3 DEF Acknowledge, Tracked, Passed, peerVars, failVars
<1>4. ASSUME NEW s \in Slice,
             CancelGroup(s) \/ ForgetGroup(s) \/ ExitTimer(s)
      PROVE  Passed'
  <2>1. s \in sent
    BY <1>4 DEF CancelGroup, ForgetGroup, ExitTimer, Passed
  <2>2. UNCHANGED <<sent, taken, inbox>>
    BY <1>4 DEF CancelGroup, ForgetGroup, ExitTimer, coreVars, peerVars
  <2>3. settled' = settled \/ settled' = settled \cup {s}
    BY <1>4 DEF CancelGroup, ForgetGroup, ExitTimer, coreVars, Linked
  <2>4. \A t \in Slice : t # s => failing'[t] = failing[t]
    BY <1>4 DEF CancelGroup, ForgetGroup, ExitTimer, TypeOK
  <2>5. \A t \in Slice : failing'[t] # "no" => t \in sent'
    BY <2>1, <2>2, <2>4 DEF Passed
  <2> QED BY <2>1, <2>2, <2>3, <2>5 DEF Passed
<1>5. ASSUME NEW s \in AnySlice, Insert(s) PROVE Passed'
  <2>1. /\ UNCHANGED <<sent, settled, failing, taken>>
        /\ inbox' = [inbox EXCEPT ![s] = @ - 1]
        /\ taken \in [AnySlice -> Nat] /\ inbox \in [AnySlice -> Nat]
    BY <1>5, InsertStep, NetTouches DEF SenderStays, CoreStays, TypeOK
  <2>2. \A t \in AnySlice : inbox'[t] <= taken'[t]
    BY <2>1 DEF Passed
  <2> QED BY <2>1, <2>2 DEF Passed
<1>6. ASSUME NEW c \in Completion, CancelSlice(c) \/ CountSlice(c) \/ FinishTick(c)
      PROVE  Passed'
  BY <1>6, RecvTouches DEF Passed, SenderStays, PeerStays
<1>7. CASE UNCHANGED vars
  BY <1>7 DEF vars, coreVars, peerVars, failVars, Passed
<1> QED BY <1>1, <1>2, <1>3, <1>4, <1>5, <1>6, <1>7, StepTouches

(* A step that leaves what is known of a slice alone.                      *)
SameSlice(t) ==
  /\ failing[t]' = failing[t] /\ deleted[t]' = deleted[t]
  /\ t \in settled' <=> t \in settled
  /\ taken[t] > 0 => taken'[t] > 0
  /\ \A k \in Kind : /\ <<k, t>> \in port' <=> <<k, t>> \in port
                     /\ <<k, t>> \in ticking' <=> <<k, t>> \in ticking
                     /\ holder' = <<k, t>> <=> holder = <<k, t>>

LEMMA SliceKept ==
  ASSUME NEW t \in Slice, SliceInv(t), SameSlice(t)
  PROVE  SliceInv(t)'
BY DEF SliceInv, GoodSlice, SameSlice, Kind, Around, Complete

LEMMA SliceInit ==
  ASSUME Init, NEW t \in Slice
  PROVE  SliceInv(t)
<1>1. \A k \in Kind : <<k, t>> \in Completion
  BY CompletionMade DEF Kind
<1>2. holder = NoOne /\ port = {} /\ ticking = {} /\ settled = {} /\ deleted[t] = 0
  BY DEF Init
<1>3. \A k \in Kind : ~ Around(<<k, t>>)
  BY <1>1, <1>2, ConstantsAssumption DEF Around
<1> QED BY <1>2, <1>3 DEF SliceInv, GoodSlice, Kind, Around, Complete

LEMMA SliceTake ==
  ASSUME TypeOK, NEW t \in Slice, SliceInv(t), NEW s \in AnySlice, Take(s)
  PROVE  SliceInv(t)'
<1>1. GroupStays /\ UNCHANGED <<settled, port, failing, deleted>>
  BY NetTouches DEF Take, coreVars, failVars
<1>2. taken' = [taken EXCEPT ![s] = @ + 1] /\ taken \in [AnySlice -> Nat]
      /\ t \in AnySlice
  BY SliceFacts DEF Take, TypeOK
<1>3. taken[t] > 0 => taken'[t] > 0
  BY <1>2
<1> QED BY <1>1, <1>3, SliceKept DEF SameSlice, GroupStays

LEMMA SliceNet ==
  ASSUME TypeOK, Passed, NEW t \in Slice, SliceInv(t), NEW s \in Slice,
         Acknowledge(s) \/ CancelGroup(s) \/ ExitTimer(s)
  PROVE  SliceInv(t)'
<1>1. GroupStays
  BY NetTouches
<1>3. CASE Acknowledge(s)
  <2>1. /\ UNCHANGED <<failing, deleted, taken>>
        /\ settled' = settled \cup {s} /\ port' = port \cup {<<"complete", s>>}
        /\ s \notin settled /\ taken[s] > 0
    BY <1>3 DEF Acknowledge, Tracked, failVars, peerVars
  <2>2. CASE s # t
    BY <1>1, <2>1, <2>2, SliceKept DEF SameSlice, GroupStays
  <2>3. CASE s = t
    <3>1. SUFFICES ASSUME failing[t] = "no" PROVE GoodSlice(t)'
      BY <2>1 DEF SliceInv
    <3>2. GoodSlice(t) /\ t \notin settled /\ taken[t] > 0 /\ t \in settled'
      BY <2>1, <2>3, <3>1 DEF SliceInv
    <3>3. ~ Around(Complete(t)) /\ ~ (deleted[t] > 0)
      BY <3>2 DEF GoodSlice
    <3>4. ~ (deleted'[t] > 0)
      BY <2>1, <3>3
    <3>5. \A k \in {"cancelled", "exited"} : ~ Around(<<k, t>>)'
      BY <1>1, <2>1, <2>3, <3>2 DEF GoodSlice, Around, GroupStays
    <3>6. ticking' = ticking /\ holder' = holder /\ taken' = taken
      BY <1>1, <2>1 DEF GroupStays
    <3> QED BY <3>2, <3>3, <3>4, <3>5, <3>6 DEF GoodSlice, Around, Complete
  <2> QED BY <2>2, <2>3
<1>4. CASE CancelGroup(s) \/ ExitTimer(s)
  <2>1. /\ \A r \in Slice : r # s => failing'[r] = failing[r] /\ deleted'[r] = deleted[r]
        /\ failing'[s] # "no" /\ taken' = taken
    BY <1>4 DEF CancelGroup, ExitTimer, Linked, TypeOK, peerVars
  <2>2. /\ settled' = settled \/ settled' = settled \cup {s}
        /\ \/ port' = port
           \/ port' = port \cup {<<"cancelled", s>>}
           \/ port' = port \cup {<<"exited", s>>}
    BY <1>4 DEF CancelGroup, ExitTimer, Linked
  <2>3. CASE s # t
    BY <1>1, <2>1, <2>2, <2>3, SliceKept DEF SameSlice, GroupStays
  <2>4. CASE s = t
    BY <2>1, <2>4 DEF SliceInv
  <2> QED BY <2>3, <2>4
<1> QED BY <1>3, <1>4

LEMMA SliceRecv ==
  ASSUME TypeOK, Passed, NEW t \in Slice, SliceInv(t), NEW c \in Completion,
         CancelSlice(c) \/ CountSlice(c) \/ FinishTick(c)
  PROVE  SliceInv(t)'
<1>1. PeerStays /\ UNCHANGED <<settled, failing>> /\ About(c) \in Slice
  BY RecvTouches, CompletionFacts
<1>2. \A k \in Kind : <<k, t>> \in Completion /\ About(<<k, t>>) = t
                      /\ <<k, t>> # NoOne
  BY CompletionMade, ConstantsAssumption DEF Kind
<1>3. /\ \A e \in Completion : e # c => (e \in port' <=> e \in port)
      /\ \A e \in Completion : e # c => (e \in ticking' <=> e \in ticking)
      /\ \A e \in Completion : e # c => (holder' = e <=> holder = e)
  BY ConstantsAssumption DEF CancelSlice, CountSlice, FinishTick, groupVars, coreVars
<1>4. \A r \in Slice : r # About(c) => deleted'[r] = deleted[r]
  BY DEF CancelSlice, CountSlice, FinishTick, failVars, TypeOK
<1>5. CASE About(c) # t
  <2>1. \A k \in Kind : <<k, t>> # c
    BY <1>2, <1>5
  <2> QED BY <1>1, <1>2, <1>3, <1>4, <1>5, <2>1, SliceKept DEF SameSlice, PeerStays
<1>6. CASE About(c) = t
  <2>1. SUFFICES ASSUME failing[t] = "no" PROVE GoodSlice(t)'
    BY <1>1 DEF SliceInv
  <2>2. GoodSlice(t)
    BY <2>1 DEF SliceInv
  <2>3. Around(c)
    BY DEF CancelSlice, CountSlice, FinishTick, Around
  <2>4. c = Complete(t)
    BY <1>6, <2>2, <2>3, CompletionFacts DEF GoodSlice, Complete
  <2>5. \A k \in {"cancelled", "exited"} : ~ Around(<<k, t>>)'
    <3>1. ASSUME NEW k \in {"cancelled", "exited"} PROVE ~ Around(<<k, t>>)'
      <4>1. <<k, t>> # c /\ <<k, t>> \in Completion
        BY <1>2, <2>4 DEF Complete, Kind
      <4> QED BY <1>3, <2>2, <4>1 DEF GoodSlice, Around
    <3> QED BY <3>1
  <2>6. t \in settled' /\ taken'[t] > 0
    BY <1>1, <2>2, <2>3, <2>4 DEF GoodSlice, PeerStays
  <2>7. /\ ~ (c \in port' /\ c \in ticking')
        /\ holder' = c => c \notin port' /\ c \notin ticking'
        /\ c \notin port'
    <3>1. CASE CancelSlice(c)
      BY <2>2, <2>4, <3>1 DEF CancelSlice, GoodSlice, groupVars
    <3>2. CASE CountSlice(c)
      BY <2>2, <2>4, <3>2 DEF CountSlice, GoodSlice, coreVars
    <3>3. CASE FinishTick(c)
      BY <2>2, <2>4, <3>3, ConstantsAssumption DEF FinishTick, GoodSlice, coreVars
    <3> QED BY <3>1, <3>2, <3>3
  <2> QED BY <2>4, <2>5, <2>6, <2>7 DEF GoodSlice, Complete
<1> QED BY <1>5, <1>6

LEMMA SliceStep ==
  ASSUME TypeOK, Passed, NEW t \in Slice, SliceInv(t), [Next]_vars
  PROVE  SliceInv(t)'
<1>1. ASSUME NEW g \in Group,
             Register(g) \/ SendSlice(g) \/ StoreCount(g) \/ CompareCount(g)
               \/ EraseAfterSend(g)
      PROVE  SliceInv(t)'
  BY <1>1, SenderTouches, SliceKept DEF CoreStays, PeerStays, SameSlice
<1>2. ASSUME NEW s \in Slice, ForgetGroup(s) PROVE SliceInv(t)'
  <2>1. CASE s # t
    <3>1. failing'[t] = failing[t]
      BY <1>2, <2>1 DEF ForgetGroup, TypeOK
    <3> QED BY <1>2, <3>1, ForgetTouches, SliceKept DEF PeerStays, SameSlice
  <2>2. CASE s = t
    BY <1>2, <2>2 DEF ForgetGroup, TypeOK, SliceInv
  <2> QED BY <2>1, <2>2
<1>3. ASSUME NEW s \in AnySlice, Insert(s) PROVE SliceInv(t)'
  BY <1>3, InsertStep, NetTouches, SliceKept DEF CoreStays, GroupStays, SameSlice
<1>4. CASE UNCHANGED vars
  BY <1>4, SliceKept DEF vars, groupVars, coreVars, failVars, peerVars, SameSlice
<1> QED BY <1>1, <1>2, <1>3, <1>4, SliceTake, SliceNet, SliceRecv, StepTouches

-----------------------------------------------------------------------------
(* How completions are counted.  The slices counted for a healthy group    *)
(* are those settled whose completion has gone through _erase_group; a     *)
(* group that is no longer sending has all of them counted.                *)
Counted(g) ==
  {s \in Slices(g) : s \in settled /\ Complete(s) \notin port
                                   /\ Complete(s) \notin ticking}

Reports(g) ==
  /\ g \in sending => pc[g] # "idle" /\ reported[g] = 0
  /\ reported[g] <= 1
  /\ pc[g] = "idle" => reported[g] = 0 /\ geted[g] = 0

Counts(g) ==
  /\ g \in sending => geted[g] = Cardinality(Counted(g))
  /\ pc[g] = "erase" => Counted(g) = Slices(g)
  /\ g \notin sending /\ pc[g] # "idle" => Counted(g) = Slices(g)

CountInv(g) == Reports(g) /\ (Healthy(g) => Counts(g))

LEMMA CountedFinite ==
  ASSUME NEW g \in Group
  PROVE  /\ Counted(g) \subseteq Slices(g) /\ IsFiniteSet(Counted(g))
         /\ Cardinality(Counted(g)) \in Nat
         /\ Cardinality(Counted(g)) = Cardinality(Slices(g)) => Counted(g) = Slices(g)
<1>1. Counted(g) \subseteq Slices(g)
  BY DEF Counted
<1> QED BY <1>1, SlicesFinite, FS_Subset, FS_CardinalityType

(* Once it is stored, the count is the number of slices of the block.      *)
LEMMA StoredCount ==
  ASSUME NEW g \in Group, CutInv(g), pc[g] \in {"stored", "erase", "done"}
  PROVE  count[g] = Cardinality(Slices(g))
<1>1. used[g] = Size[g] /\ count[g] = Cardinality(sent \cap Slices(g))
  BY DEF CutInv, CutCount, CutStage
<1>2. \A s \in Slices(g) : s \in sent
  BY <1>1, SentBefore, SlicesFacts, OffsetsFacts DEF CutInv
<1>3. sent \cap Slices(g) = Slices(g)
  BY <1>2
<1> QED BY <1>1, <1>3

LEMMA CountInit ==
  ASSUME Init, NEW g \in Group
  PROVE  CountInv(g)
BY DEF Init, CountInv, Reports, Counts

(* A step that leaves the counting of a group alone.                       *)
SameCount(g) ==
  /\ pc[g]' = pc[g] /\ reported[g]' = reported[g] /\ geted[g]' = geted[g]
  /\ g \in sending' <=> g \in sending
  /\ Counted(g)' = Counted(g)
  /\ Healthy(g)' => Healthy(g)

LEMMA CountKept ==
  ASSUME NEW g \in Group, CountInv(g), SameCount(g)
  PROVE  CountInv(g)'
<1>1. Slices(g)' = Slices(g)
  BY DEF Slices, Offsets
<1> QED BY <1>1 DEF CountInv, Reports, Counts, SameCount

LEMMA SameCounted ==
  ASSUME NEW g \in Group,
         \A s \in Slices(g) :
           (s \in settled' /\ Complete(s) \notin port' /\ Complete(s) \notin ticking')
             <=> (s \in settled /\ Complete(s) \notin port /\ Complete(s) \notin ticking)
  PROVE  Counted(g)' = Counted(g)
BY DEF Counted, Slices, Offsets, Complete

(* All the completions a stored count asks for were counted.               *)
LEMMA AllCounted ==
  ASSUME TypeOK, NEW g \in Group, CutInv(g), CountInv(g), Healthy(g),
         g \in sending, AllGeted(g)
  PROVE  Counted(g) = Slices(g)
<1>1. geted[g] = Cardinality(Counted(g)) /\ pc[g] # "idle"
  BY DEF CountInv, Reports, Counts
<1>2. count[g] # -1
  BY <1>1, CountedFinite DEF AllGeted
<1>3. pc[g] \in {"stored", "erase", "done"}
  BY <1>1, <1>2 DEF CutInv, CutStage, TypeOK, SendState
<1> QED BY <1>1, <1>3, StoredCount, CountedFinite DEF AllGeted

LEMMA CountErase ==
  ASSUME TypeOK, NEW g \in Group, CountInv(g), EraseGroup(g),
         pc[g]' # "idle", geted[g]' = geted[g], Counted(g)' = Counted(g),
         Healthy(g)' => Healthy(g) /\ Counted(g) = Slices(g), pc[g] # "idle"
  PROVE  CountInv(g)'
<1>1. g \notin sending'
  BY DEF EraseGroup
<1>2. Reports(g)'
  <2>1. CASE g \in sending
    BY <1>1, <2>1 DEF EraseGroup, CountInv, Reports, TypeOK
  <2>2. CASE g \notin sending
    BY <1>1, <2>2 DEF EraseGroup, CountInv, Reports, TypeOK
  <2> QED BY <2>1, <2>2
<1>3. Slices(g)' = Slices(g)
  BY DEF Slices, Offsets
<1>4. Healthy(g)' => Counts(g)'
  BY <1>1, <1>3 DEF Counts
<1> QED BY <1>2, <1>4 DEF CountInv

LEMMA CountSender ==
  ASSUME TypeOK, Passed, NEW h \in Group, CutInv(h), CountInv(h), NEW g \in Group,
         Register(g) \/ SendSlice(g) \/ StoreCount(g) \/ CompareCount(g)
           \/ EraseAfterSend(g)
  PROVE  CountInv(h)'
<1>1. /\ UNCHANGED <<settled, port, failing, ticking>>
      /\ geted' = geted /\ Counted(h)' = Counted(h)
      /\ Healthy(h)' <=> Healthy(h)
      /\ Slices(h)' = Slices(h)
  BY SenderTouches DEF CoreStays, Counted, Healthy, Slices, Offsets
<1>2. CASE g # h
  <2>1. pc[h]' = pc[h] /\ reported[h]' = reported[h] /\ (h \in sending' <=> h \in sending)
    BY <1>2 DEF TypeOK, Register, SendSlice, StoreCount, CompareCount,
         EraseAfterSend, SenderAt, EraseGroup, groupVars
  <2> QED BY <1>1, <2>1, CountKept DEF SameCount
<1>3. CASE Register(h)
  <2>1. pc[h] = "idle" /\ pc[h]' = "cutting" /\ reported' = reported /\ h \in sending'
    BY <1>3 DEF Register, SenderAt, TypeOK
  <2>2. Reports(h)'
    BY <2>1 DEF CountInv, Reports
  <2>3. Counted(h) = {}
    <3>1. ASSUME NEW s \in Slices(h) PROVE s \notin settled
      <4>1. used[h] = 0 /\ Start(s) \in Nat
        BY <2>1, SlicesFacts, OffsetsFacts DEF CutInv, CutStage
      <4>2. ~ (Start(s) < used[h])
        BY <4>1
      <4> QED BY <4>2, SentBefore DEF CutInv, Passed
    <3> QED BY <3>1 DEF Counted
  <2>4. geted[h] = 0 /\ Cardinality(Counted(h)) = 0
    BY <2>1, <2>3, FS_EmptySet DEF CountInv, Reports
  <2>5. Counts(h)'
    BY <1>1, <2>1, <2>4 DEF Counts
  <2> QED BY <2>2, <2>5 DEF CountInv
<1>4. CASE SendSlice(h)
  BY <1>1, <1>4, CountKept DEF SendSlice, groupVars, SameCount
<1>5. CASE StoreCount(h)
  <2>1. pc[h] = "cutting" /\ pc[h]' = "stored" /\ reported' = reported /\ sending' = sending
    BY <1>5 DEF StoreCount, SenderAt, TypeOK, groupVars
  <2> QED BY <1>1, <2>1 DEF CountInv, Reports, Counts
<1>6. CASE CompareCount(h)
  <2>1. pc[h] = "stored" /\ reported' = reported /\ sending' = sending
        /\ pc[h]' = (IF AllGeted(h) THEN "erase" ELSE "done")
    BY <1>6 DEF CompareCount, Compares, SenderAt, TypeOK, groupVars
  <2>2. Healthy(h) /\ AllGeted(h) => Counted(h) = Slices(h)
    <3>1. CASE h \in sending
      BY <3>1, AllCounted
    <3>2. CASE h \notin sending
      BY <2>1, <3>2 DEF CountInv, Counts
    <3> QED BY <3>1, <3>2
  <2>3. pc[h]' # "idle" /\ (pc[h]' = "erase" => AllGeted(h))
    BY <2>1
  <2> QED BY <1>1, <2>1, <2>2, <2>3 DEF CountInv, Reports, Counts
<1>7. CASE EraseAfterSend(h)
  <2>1. pc[h] = "erase" /\ pc[h]' = "done" /\ EraseGroup(h)
    BY <1>7 DEF EraseAfterSend, SenderAt, TypeOK
  <2>2. Healthy(h) => Counted(h) = Slices(h)
    BY <2>1 DEF CountInv, Counts
  <2> QED BY <1>1, <2>1, <2>2, CountErase
<1> QED BY <1>2, <1>3, <1>4, <1>5, <1>6, <1>7

LEMMA CountTake ==
  ASSUME NEW h \in Group, CountInv(h), NEW s \in AnySlice, Take(s)
  PROVE  CountInv(h)'
<1>1. UNCHANGED <<pc, reported, geted, ticking, sending, settled, port, failing>>
  BY NetTouches DEF Take, coreVars, failVars, SenderStays, GroupStays
<1> QED BY <1>1, SameCounted, CountKept DEF SameCount, Healthy, Slices, Offsets

LEMMA CountNet ==
  ASSUME TypeOK, NEW h \in Group, CountInv(h), NEW s \in Slice,
         Acknowledge(s) \/ CancelGroup(s) \/ ForgetGroup(s) \/ ExitTimer(s)
  PROVE  CountInv(h)'
<1>1. pc' = pc /\ reported' = reported /\ geted' = geted /\ ticking' = ticking
  BY NetTouches, ForgetTouches DEF SenderStays, GroupStays
<1>3. CASE Acknowledge(s)
  <2>1. /\ settled' = settled \cup {s} /\ port' = port \cup {Complete(s)}
        /\ s \notin settled /\ sending' = sending /\ failing' = failing
    BY <1>3, NetTouches DEF Acknowledge, Tracked, failVars, GroupStays, Complete
  <2>2. \A t \in Slices(h) : t # s => Complete(t) # Complete(s)
    BY DEF Complete
  <2>3. Counted(h)' = Counted(h)
    BY <1>1, <2>1, <2>2, SameCounted
  <2> QED BY <1>1, <2>1, <2>3, CountKept DEF SameCount, Healthy, Slices, Offsets
<1>4. CASE CancelGroup(s) \/ ForgetGroup(s) \/ ExitTimer(s)
  <2>1. /\ failing'[s] # "no"
        /\ \A t \in Slice : failing[t] # "no" => failing'[t] # "no"
    BY <1>4 DEF CancelGroup, ForgetGroup, ExitTimer, TypeOK
  <2>2. CASE Owner(s) = h
    <3>1. s \in Slices(h)' /\ ~ Healthy(h)'
      BY <2>1, <2>2, SliceFacts DEF Healthy, Slices, Offsets
    <3>2. h \in sending' => h \in sending
      BY <1>4, NetTouches DEF ForgetGroup, GroupStays
    <3>3. Reports(h)'
      BY <1>1, <3>2 DEF CountInv, Reports
    <3> QED BY <3>1, <3>3 DEF CountInv
  <2>3. CASE Owner(s) # h
    <3>1. h \in sending' <=> h \in sending
      BY <1>4, <2>3, NetTouches DEF ForgetGroup, GroupStays
    <3>2. \A t \in Slices(h) : t # s /\ t \in Slice
      BY <2>3, SlicesFacts
    <3>3. /\ settled' = settled \/ settled' = settled \cup {s}
          /\ \/ port' = port
             \/ port' = port \cup {<<"cancelled", s>>}
             \/ port' = port \cup {<<"exited", s>>}
      BY <1>4 DEF CancelGroup, ForgetGroup, ExitTimer, Linked, coreVars
    <3>4. Counted(h)' = Counted(h)
      BY <1>1, <3>2, <3>3, SameCounted DEF Complete
    <3>5. Healthy(h)' => Healthy(h)
      BY <2>1, <3>2 DEF Healthy, Slices, Offsets
    <3> QED BY <1>1, <3>1, <3>4, <3>5, CountKept DEF SameCount
  <2> QED BY <2>2, <2>3
<1> QED BY <1>3, <1>4

LEMMA CountRecv ==
  ASSUME TypeOK, \A s \in Slice : SliceInv(s), NEW h \in Group, CutInv(h), CountInv(h),
         NEW c \in Completion, CancelSlice(c) \/ CountSlice(c) \/ FinishTick(c)
  PROVE  CountInv(h)'
<1> DEFINE s == About(c)
           g == Owner(s)
<1>0. s \in Slice /\ g \in Group /\ s \in Slices(g)
  BY CompletionFacts, SliceFacts
<1>1. /\ pc' = pc /\ settled' = settled /\ failing' = failing
      /\ Healthy(h)' <=> Healthy(h)
      /\ Slices(h)' = Slices(h)
  BY RecvTouches DEF SenderStays, Healthy, Slices, Offsets
<1>2. CASE CancelSlice(c)
  <2>1. /\ port' = port \ {c} /\ ticking' = ticking \cup {c} /\ c \in port
        /\ UNCHANGED <<sending, geted, reported>>
    BY <1>2 DEF CancelSlice, groupVars
  <2>2. Counted(h)' = Counted(h)
    BY <1>1, <2>1, SameCounted
  <2> QED BY <1>1, <2>1, <2>2, CountKept DEF SameCount
<1>3. CASE CountSlice(c)
  <2>1. /\ port' = port /\ ticking' = ticking \ {c} /\ c \in ticking
        /\ UNCHANGED <<sending, reported>>
    BY <1>3 DEF CountSlice, coreVars
  <2>2. CASE g # h
    <3>1. \A t \in Slices(h) : Complete(t) # c
      BY <2>2, SlicesFacts DEF Complete, About
    <3>2. Counted(h)' = Counted(h)
      BY <1>1, <2>1, <3>1, SameCounted
    <3>3. geted'[h] = geted[h]
      BY <1>3, <2>2 DEF CountSlice, TypeOK
    <3> QED BY <1>1, <2>1, <3>2, <3>3, CountKept DEF SameCount
  <2>3. CASE g = h
    <3>1. Reports(h)'
      <4>1. CASE h \in sending
        BY <1>1, <2>1, <4>1 DEF CountInv, Reports
      <4>2. CASE h \notin sending
        BY <1>1, <1>3, <2>1, <2>3, <4>2 DEF CountSlice, CountInv, Reports
      <4> QED BY <4>1, <4>2
    <3>2. ASSUME Healthy(h) PROVE Counts(h)'
      <4>1. failing[s] = "no" /\ SliceInv(s)
        BY <1>0, <2>3, <3>2 DEF Healthy
      <4>2. c = Complete(s) /\ s \in settled /\ c \notin port
        BY <2>1, <4>1, CompletionFacts DEF SliceInv, GoodSlice, Around, Complete
      <4>3. Counted(h)' = Counted(h) \cup {s}
        <5>1. \A t \in Slices(h) : Complete(t) = c => t = s
          BY <4>2 DEF Complete
        <5> QED BY <1>0, <1>1, <2>1, <2>3, <4>2, <5>1 DEF Counted, Complete
      <4>4. s \notin Counted(h)
        BY <2>1, <4>2 DEF Counted
      <4>5. CASE h \in sending
        <5>1. geted'[h] = geted[h] + 1 /\ h \in sending'
          BY <1>3, <2>1, <2>3, <4>5 DEF CountSlice, TypeOK
        <5>2. Cardinality(Counted(h)') = Cardinality(Counted(h)) + 1
          BY <4>3, <4>4, CountedFinite, FS_AddElement
        <5>3. pc[h] # "erase"
          BY <1>0, <2>3, <3>2, <4>4 DEF CountInv, Counts
        <5>4. geted[h] = Cardinality(Counted(h))
          BY <3>2, <4>5 DEF CountInv, Counts
        <5>5. geted'[h] = Cardinality(Counted(h)')
          BY <5>1, <5>2, <5>4
        <5> QED BY <1>1, <5>1, <5>3, <5>5 DEF Counts
      <4>6. CASE h \notin sending
        <5>1. pc[h] = "idle"
          BY <1>0, <2>3, <3>2, <4>4, <4>6 DEF CountInv, Counts
        <5> QED BY <1>1, <2>1, <4>6, <5>1 DEF Counts
      <4> QED BY <4>5, <4>6
    <3> QED BY <1>1, <3>1, <3>2 DEF CountInv
  <2> QED BY <2>2, <2>3
<1>4. CASE FinishTick(c)
  <2>1. UNCHANGED <<port, ticking, geted>>
    BY <1>4 DEF FinishTick, coreVars
  <2>2. Counted(h)' = Counted(h)
    BY <1>1, <2>1, SameCounted
  <2>3. CASE AllGeted(g) /\ g = h
    <3>1. EraseGroup(h)
      BY <1>4, <2>3 DEF FinishTick
    <3>2. CASE h \in sending
      <4>1. Healthy(h) => Counted(h) = Slices(h)
        BY <2>3, <3>2, AllCounted
      <4>2. pc[h] # "idle"
        BY <3>2 DEF CountInv, Reports
      <4> QED BY <1>1, <2>1, <2>2, <3>1, <4>1, <4>2, CountErase
    <3>3. CASE h \notin sending
      <4>1. h \notin sending' /\ reported' = reported
        BY <3>1, <3>3 DEF EraseGroup
      <4> QED BY <1>1, <2>1, <2>2, <3>3, <4>1, CountKept DEF SameCount
    <3> QED BY <3>2, <3>3
  <2>4. CASE ~ (AllGeted(g) /\ g = h)
    <3>1. (h \in sending' <=> h \in sending) /\ reported'[h] = reported[h]
      BY <1>0, <1>4, <2>4 DEF FinishTick, EraseGroup, TypeOK
    <3> QED BY <1>1, <2>1, <2>2, <3>1, CountKept DEF SameCount
  <2> QED BY <2>3, <2>4
<1> QED BY <1>2, <1>3, <1>4

LEMMA CountStep ==
  ASSUME TypeOK, Passed, \A s \in Slice : SliceInv(s), NEW h \in Group, CutInv(h),
         CountInv(h), [Next]_vars
  PROVE  CountInv(h)'
<1>1. ASSUME NEW s \in AnySlice, Insert(s) PROVE CountInv(h)'
  <2>1. SenderStays /\ GroupStays /\ CoreStays
    BY <1>1, InsertStep, NetTouches
  <2> QED BY <2>1, SameCounted, CountKept
       DEF SenderStays, GroupStays, CoreStays, SameCount, Healthy, Slices, Offsets
<1>2. CASE UNCHANGED vars
  BY <1>2, SameCounted, CountKept
     DEF vars, sendVars, groupVars, coreVars, failVars, SameCount, Healthy, Slices, Offsets
<1> QED BY <1>1, <1>2, CountSender, CountTake, CountNet, CountRecv, StepTouches

-----------------------------------------------------------------------------
(* What the other side has put together.  Every slice but the last carries *)
(* SliceData bytes, so the bytes there are tell how many slices there are, *)
(* and the sum is the size of the block only when none is missing.         *)
Whole(s) == SliceSize(Owner(s), Start(s)) = SliceData

Held(g) == pieces[Id[g]]
HeldOf(g, s) == IF s \in Held(g) THEN 1 ELSE 0
Out(g) == received[Id[g]]

Sum(g) ==
  /\ available[Id[g]] <= Cardinality(Held(g)) * SliceData
  /\ available[Id[g]] + SliceData > Cardinality(Held(g)) * SliceData
  /\ (\A s \in Held(g) : Whole(s)) =>
       available[Id[g]] = Cardinality(Held(g)) * SliceData

Pieces(g) ==
  /\ Held(g) \subseteq Slices(g)
  /\ Held(g) # {} => expected[Id[g]] = Size[g]

HandedUp(g) == \A i \in DOMAIN Out(g) : Out(g)[i] = Slices(g)

(* Every time a slice was taken it is still to be fetched, is in the       *)
(* combination, is in one of the blocks that came out, or was dropped.     *)
Accounted(g) ==
  \A s \in Slices(g) : inbox[s] + HeldOf(g, s) + Len(Out(g)) <= taken[s]

CombInv(g) == Pieces(g) /\ Sum(g) /\ HandedUp(g) /\ Accounted(g)

LEMMA OutType ==
  ASSUME TypeOK, NEW g \in Group
  PROVE  Out(g) \in Seq(SUBSET AnySlice) /\ Len(Out(g)) \in Nat
<1>1. Id[g] \in Ids
  BY IdFacts
<1>2. Out(g) \in Seq(SUBSET AnySlice)
  BY <1>1 DEF TypeOK, Out
<1> QED BY <1>2

LEMMA CombInit ==
  ASSUME Init, NEW g \in Group
  PROVE  CombInv(g)
<1>1. Held(g) = {} /\ available[Id[g]] = 0 /\ Out(g) = <<>>
  BY IdFacts DEF Init, Held, Out
<1>2. Cardinality(Held(g)) = 0 /\ SliceData \in Nat \ {0}
  BY <1>1, FS_EmptySet, ConstantsAssumption
<1>3. Pieces(g) /\ HandedUp(g)
  BY <1>1 DEF Pieces, HandedUp
<1>4. Sum(g)
  BY <1>1, <1>2 DEF Sum
<1>5. Accounted(g)
  <2>1. \A s \in Slices(g) : inbox[s] = 0 /\ taken[s] = 0
    BY SlicesFacts DEF Init
  <2>2. Len(Out(g)) = 0 /\ \A s : HeldOf(g, s) = 0
    BY <1>1 DEF HeldOf
  <2> QED BY <2>1, <2>2 DEF Accounted
<1> QED BY <1>3, <1>4, <1>5 DEF CombInv

(* A step that leaves a combination alone; more may have been taken and be *)
(* waiting, or less be waiting.                                            *)
SameComb(g) ==
  /\ Held(g)' = Held(g) /\ expected[Id[g]]' = expected[Id[g]]
  /\ available[Id[g]]' = available[Id[g]] /\ Out(g)' = Out(g)

MoreTaken(g) == \A s \in Slices(g) : inbox'[s] + taken[s] <= inbox[s] + taken'[s]

LEMMA CombKept ==
  ASSUME TypeOK, TypeOK', NEW g \in Group, CombInv(g), SameComb(g), MoreTaken(g)
  PROVE  CombInv(g)'
<1>1. Slices(g)' = Slices(g) /\ \A s : Whole(s)' <=> Whole(s)
  BY DEF Slices, Offsets, Whole, SliceSize, Owner, Start
<1>2. Pieces(g)'
  BY <1>1 DEF CombInv, Pieces, SameComb
<1>3. HandedUp(g)'
  BY <1>1 DEF CombInv, HandedUp, SameComb
<1>4. Sum(g)'
  BY <1>1 DEF CombInv, Sum, SameComb
<1>5. Accounted(g)'
  <2>1. ASSUME NEW s \in Slices(g)
        PROVE  inbox'[s] + HeldOf(g, s)' + Len(Out(g)') <= taken'[s]
    <3>1. s \in AnySlice
      BY SlicesFacts
    <3>2. /\ inbox[s] \in Nat /\ taken[s] \in Nat
          /\ inbox'[s] \in Nat /\ taken'[s] \in Nat
      BY <3>1 DEF TypeOK
    <3>3. HeldOf(g, s)' = HeldOf(g, s) /\ HeldOf(g, s) \in Nat /\ Out(g)' = Out(g)
      BY DEF HeldOf, SameComb
    <3>4. Len(Out(g)) \in Nat
      BY OutType
    <3>5. inbox[s] + HeldOf(g, s) + Len(Out(g)) <= taken[s]
      BY DEF CombInv, Accounted
    <3>6. inbox'[s] + taken[s] <= inbox[s] + taken'[s]
      BY DEF MoreTaken
    <3>7. Len(Out(g)') = Len(Out(g))
      BY <3>3
    <3> HIDE DEF HeldOf, Out
    <3> QED BY <3>2, <3>3, <3>4, <3>5, <3>6, <3>7
  <2> QED BY <1>1, <2>1 DEF Accounted
<1> QED BY <1>2, <1>3, <1>4, <1>5 DEF CombInv

(* What a combination holds and what came out was taken.                   *)
LEMMA HeldTaken ==
  ASSUME TypeOK, NEW g \in Group, CombInv(g), NEW s \in Slices(g),
         s \in Held(g) \/ Out(g) # <<>>
  PROVE  taken[s] > 0
<1>1. s \in AnySlice
  BY SlicesFacts
<1>2. inbox[s] \in Nat /\ taken[s] \in Nat
  BY <1>1 DEF TypeOK
<1>3. inbox[s] + HeldOf(g, s) + Len(Out(g)) <= taken[s]
  BY DEF CombInv, Accounted
<1>4. Out(g) \in Seq(SUBSET AnySlice) /\ Len(Out(g)) \in Nat
  BY OutType
<1>5. Out(g) # <<>> => Len(Out(g)) > 0
  BY <1>4
<1>6. HeldOf(g, s) \in Nat /\ (s \in Held(g) => HeldOf(g, s) = 1)
  BY DEF HeldOf
<1> HIDE DEF HeldOf, Out, Held
<1> QED BY <1>2, <1>3, <1>4, <1>5, <1>6

(* Only the last slice of a block is not whole.                            *)
LEMMA ShortIsLast ==
  ASSUME NEW g \in Group, NEW s \in Slices(g), NEW t \in Slices(g),
         ~ Whole(s), ~ Whole(t)
  PROVE  s = t
<1>1. /\ s = <<g, Start(s)>> /\ t = <<g, Start(t)>>
      /\ Owner(s) = g /\ Owner(t) = g
      /\ Start(s) \in Offsets(g) /\ Start(t) \in Offsets(g)
  BY SlicesFacts
<1>2. /\ Start(s) \in Nat /\ Start(s) < Size[g] /\ Start(s) % SliceData = 0
      /\ Start(t) \in Nat /\ Start(t) < Size[g] /\ Start(t) % SliceData = 0
      /\ Size[g] \in Nat /\ SliceData \in Nat \ {0}
  BY <1>1, OffsetsFacts, ConstantsAssumption
<1>3. Size[g] - Start(s) < SliceData /\ Size[g] - Start(t) < SliceData
  BY <1>1, <1>2 DEF Whole, SliceSize
<1>4. Start(t) < Start(s) + SliceData /\ Start(s) < Start(t) + SliceData
  BY <1>2, <1>3
<1>5. Start(s) = Start(t)
  <2>1. CASE Start(s) <= Start(t)
    BY <1>2, <1>4, <2>1, BetweenMultiples
  <2>2. CASE Start(t) <= Start(s)
    BY <1>2, <1>4, <2>2, BetweenMultiples
  <2> QED BY <1>2, <2>1, <2>2
<1> QED BY <1>1, <1>5

(* The sum with one slice more.                                            *)
LEMMA OnePieceMore ==
  ASSUME NEW d \in Nat \ {0}, NEW n \in Nat, NEW a \in Nat, NEW z \in Nat \ {0},
         a <= n * d, a + d > n * d, z <= d, z < d => a = n * d
  PROVE  /\ a + z <= (n + 1) * d
         /\ a + z + d > (n + 1) * d
         /\ a = n * d /\ z = d => a + z = (n + 1) * d
<1>1. (n + 1) * d = n * d + d /\ n * d \in Nat
  OBVIOUS
<1> QED BY <1>1

(* How many slices a sum of bytes stands for.                              *)
LEMMA SameNumber ==
  ASSUME NEW d \in Nat \ {0}, NEW n \in Nat, NEW m \in Nat, NEW size \in Nat,
         size <= n * d, size + d > n * d, size <= m * d, size + d > m * d
  PROVE  n = m
<1>1. ASSUME n > m PROVE FALSE
  <2>1. m * d + d <= n * d
    BY <1>1
  <2> QED BY <2>1
<1>2. ASSUME n < m PROVE FALSE
  <2>1. n * d + d <= m * d
    BY <1>2
  <2> QED BY <2>1
<1> QED BY <1>1, <1>2

LEMMA FewerThan ==
  ASSUME NEW d \in Nat \ {0}, NEW n \in Nat, NEW m \in Nat, n <= m
  PROVE  n * d <= m * d
OBVIOUS

(* A slice that is sent while the block is not all cut is whole.           *)
LEMMA SentWhole ==
  ASSUME NEW g \in Group, CutInv(g), used[g] # Size[g], NEW s \in Slices(g), s \in sent
  PROVE  Whole(s)
<1>1. /\ Owner(s) = g /\ Start(s) \in Offsets(g) /\ used[g] \in Offsets(g)
      /\ Start(s) < used[g]
  BY SlicesFacts, SentBefore DEF CutInv, CutAt
<1>2. /\ Start(s) \in Nat /\ Start(s) % SliceData = 0
      /\ used[g] \in Nat /\ used[g] < Size[g] /\ used[g] % SliceData = 0
      /\ Size[g] \in Nat /\ SliceData \in Nat \ {0}
  BY <1>1, OffsetsFacts, ConstantsAssumption
<1>3. ~ (used[g] < Start(s) + SliceData)
  BY <1>1, <1>2, BetweenMultiples
<1>4. ~ (Size[g] - Start(s) < SliceData)
  BY <1>2, <1>3
<1> QED BY <1>1, <1>4 DEF Whole, SliceSize

(* Slices that were sent and that add up to the block are the whole block. *)
LEMMA SumIsAll ==
  ASSUME TypeOK, NEW g \in Group, CutInv(g),
         NEW P, P \subseteq Slices(g), P \subseteq sent,
         Size[g] <= Cardinality(P) * SliceData,
         Size[g] + SliceData > Cardinality(P) * SliceData,
         (\A s \in P : Whole(s)) => Size[g] = Cardinality(P) * SliceData
  PROVE  P = Slices(g)
<1>1. Size[g] \in Nat /\ SliceData \in Nat \ {0} /\ local[g] \in Nat /\ used[g] \in Nat
  BY ConstantsAssumption DEF TypeOK
<1>2. IsFiniteSet(sent \cap Slices(g)) /\ Cardinality(sent \cap Slices(g)) = local[g]
  BY SlicesFinite, FS_Subset DEF CutInv, CutCount
<1>3. P \subseteq sent \cap Slices(g)
  OBVIOUS
<1>4. IsFiniteSet(P) /\ Cardinality(P) \in Nat /\ Cardinality(P) <= local[g]
      /\ (Cardinality(P) = local[g] => P = sent \cap Slices(g))
  BY <1>2, <1>3, FS_Subset, FS_CardinalityType
<1>5. used[g] <= Size[g]
  BY <1>1, OffsetsFacts DEF CutInv, CutAt
<1>6. CASE used[g] # Size[g]
  <2>1. \A s \in P : Whole(s)
    BY <1>3, <1>6, SentWhole
  <2>2. Size[g] = Cardinality(P) * SliceData /\ used[g] = local[g] * SliceData
    BY <1>1, <1>5, <1>6, <2>1 DEF CutInv, CutCount
  <2>3. Cardinality(P) * SliceData <= local[g] * SliceData
    BY <1>1, <1>4, FewerThan
  <2> QED BY <1>1, <1>5, <1>6, <2>2, <2>3
<1>7. CASE used[g] = Size[g]
  <2>1. Size[g] <= local[g] * SliceData /\ Size[g] + SliceData > local[g] * SliceData
    BY <1>1, <1>7 DEF CutInv, CutCount
  <2>2. Cardinality(P) = local[g]
    BY <1>1, <1>4, <2>1, SameNumber
  <2>3. \A s \in Slices(g) : s \in sent
    BY <1>7, SentBefore, SlicesFacts, OffsetsFacts DEF CutInv
  <2> QED BY <1>4, <2>2, <2>3
<1> QED BY <1>6, <1>7

(* The same in the next state.                                             *)
LEMMA HeldTakenNext ==
  ASSUME TypeOK', NEW g \in Group, CombInv(g)', NEW s \in Slices(g)', (Out(g) # <<>>)'
  PROVE  taken'[s] > 0
<1>1. Slices(g)' = Slices(g)
  BY DEF Slices, Offsets
<1>2. s \in AnySlice
  BY <1>1, SlicesFacts
<1>3. inbox'[s] \in Nat /\ taken'[s] \in Nat
  BY <1>2 DEF TypeOK
<1>4. inbox'[s] + HeldOf(g, s)' + Len(Out(g)') <= taken'[s]
  BY DEF CombInv, Accounted
<1>5. HeldOf(g, s)' \in Nat
  BY DEF HeldOf
<1>6. Out(g)' \in Seq(SUBSET AnySlice)
  <2>1. Id[g] \in Ids /\ received' \in [Ids -> Seq(SUBSET AnySlice)]
    BY IdFacts DEF TypeOK, Ids, AnySlice, Slices, Offsets
  <2> QED BY <2>1 DEF Out
<1>7. Len(Out(g)') \in Nat /\ Len(Out(g)') > 0
  BY <1>6
<1> HIDE DEF HeldOf, Out
<1> QED BY <1>3, <1>4, <1>5, <1>7

(* Only the block itself puts slices into the combination of its id.       *)
LEMMA AloneOwner ==
  ASSUME NEW g \in Group, Alone(g), NEW s \in AnySlice, taken[s] > 0,
         Id[Owner(s)] = Id[g]
  PROVE  Owner(s) = g /\ s \in Slices(g) /\ s \in Slice
<1>1. Owner(s) \in Block /\ s \in Slices(Owner(s)) /\ s \in Here
  BY AnySliceFacts DEF Here
<1>2. Owner(s) = g
  BY <1>1 DEF Alone
<1> QED BY <1>1, <1>2, AnySliceFacts

LEMMA CombInsert ==
  ASSUME TypeOK, TypeOK', Passed, NEW g \in Group, CutInv(g), CombInv(g),
         NEW s \in Slices(g), Insert(s)
  PROVE  CombInv(g)'
<1> DEFINE P == Held(g) \cup {s}
           n == Cardinality(Held(g))
           z == SliceSize(g, Start(s))
           a == available[Id[g]]
           T == Total(s)
           i == Id[g]
<1>1. /\ s \in Slice /\ s \in AnySlice /\ s = <<g, Start(s)>> /\ Start(s) \in Offsets(g)
      /\ SliceData \in Nat \ {0} /\ Size[g] \in Nat /\ Owner(s) = g /\ IdOf(s) = i
      /\ i \in Ids
  BY SlicesFacts, IdFacts, ConstantsAssumption DEF IdOf
<1>2. /\ inbox[s] > 0 /\ inbox' = [inbox EXCEPT ![s] = @ - 1] /\ taken' = taken
      /\ inbox[s] \in Nat /\ taken[s] \in Nat /\ taken[s] > 0 /\ s \in sent
  <2>1. inbox[s] > 0 /\ inbox' = [inbox EXCEPT ![s] = @ - 1] /\ taken' = taken
    BY InsertStep
  <2>2. inbox[s] \in Nat /\ taken[s] \in Nat /\ inbox[s] <= taken[s]
    BY <1>1 DEF TypeOK, Passed
  <2>3. taken[s] > 0
    BY <2>1, <2>2
  <2> QED BY <1>1, <2>1, <2>2, <2>3 DEF Passed
<1>4. Known(i, Start(s)) <=> s \in Held(g)
  <2>1. \A t \in Held(g) : Start(t) = Start(s) => t = s
    BY <1>1, SlicesFacts DEF CombInv, Pieces
  <2> QED BY <2>1 DEF Known, Held
<1>5. Size0(s) = Size[g]
  BY <1>1 DEF Size0, CombInv, Pieces, Held
<1>6. /\ Memory(s) = P
      /\ T = IF s \in Held(g) THEN a ELSE a + z
  <2>1. CASE s \in Held(g)
    BY <1>1, <1>4, <2>1 DEF Total, Memory, Held
  <2>2. CASE s \notin Held(g)
    BY <1>1, <1>4, <2>2 DEF Total, Memory, Held
  <2> QED BY <2>1, <2>2
<1>7. /\ IsFiniteSet(Held(g)) /\ n \in Nat
      /\ Cardinality(P) = IF s \in Held(g) THEN n ELSE n + 1
  <2>1. IsFiniteSet(Held(g))
    BY <1>1, SlicesFinite, FS_Subset DEF CombInv, Pieces
  <2>2. CASE s \in Held(g)
    <3>1. P = Held(g)
      BY <2>2
    <3> QED BY <2>1, <2>2, <3>1, FS_CardinalityType
  <2>3. CASE s \notin Held(g)
    BY <2>1, <2>3, FS_AddElement, FS_CardinalityType
  <2> QED BY <2>2, <2>3
<1>8. z \in Nat \ {0} /\ z <= SliceData /\ a \in Nat
  <2>1. z <= SliceData
    BY <1>1, OffsetsFacts DEF SliceSize
  <2>2. a \in Nat
    BY <1>1 DEF TypeOK
  <2> QED BY <1>1, <2>1, <2>2, NextSlice
<1>9. s \notin Held(g) /\ z < SliceData => a = n * SliceData
  <2>1. SUFFICES ASSUME s \notin Held(g), z < SliceData PROVE \A t \in Held(g) : Whole(t)
    BY DEF CombInv, Sum
  <2>2. ~ Whole(s)
    BY <1>1, <1>8, <2>1 DEF Whole
  <2> QED BY <1>1, <2>1, <2>2, ShortIsLast DEF CombInv, Pieces
<1>10. /\ a <= n * SliceData /\ a + SliceData > n * SliceData
       /\ (\A t \in Held(g) : Whole(t)) => a = n * SliceData
  BY DEF CombInv, Sum
<1>11. (\A t \in P : Whole(t)) => a = n * SliceData /\ z = SliceData
  <2>1. (\A t \in P : Whole(t)) => a = n * SliceData
    BY <1>10
  <2>2. Whole(s) => z = SliceData
    BY <1>1 DEF Whole
  <2> QED BY <2>1, <2>2
<1>12. P \subseteq Slices(g) /\ P \subseteq sent
  <2>1. Held(g) \subseteq Slices(g)
    BY DEF CombInv, Pieces
  <2>2. \A t \in Held(g) : t \in sent
    <3>1. ASSUME NEW t \in Held(g) PROVE t \in sent
      <4>1. t \in Slices(g) /\ t \in Slice
        BY <2>1, SlicesFacts
      <4>2. taken[t] > 0
        BY <4>1, HeldTaken
      <4> QED BY <4>1, <4>2 DEF Passed
    <3> QED BY <3>1
  <2> QED BY <1>2, <2>1, <2>2
<1>13. /\ expected' = [expected EXCEPT ![i] = Size[g]]
       /\ \/ /\ T = Size[g]
             /\ received' = [received EXCEPT ![i] = Append(@, P)]
             /\ pieces' = [pieces EXCEPT ![i] = {}]
             /\ available' = [available EXCEPT ![i] = 0]
          \/ /\ pieces' = [pieces EXCEPT ![i] = P]
             /\ available' = [available EXCEPT ![i] = T]
             /\ received' = received
  BY <1>1, <1>5, <1>6, InsertStep
<1>14. Slices(g)' = Slices(g) /\ \A t : Whole(t)' <=> Whole(t)
  BY DEF Slices, Offsets, Whole, SliceSize, Owner, Start
<1>15. ASSUME NEW t \in Slices(g)
       PROVE  /\ inbox[t] \in Nat /\ taken[t] \in Nat /\ taken'[t] = taken[t]
              /\ inbox'[t] = IF t = s THEN inbox[s] - 1 ELSE inbox[t]
              /\ inbox[t] + HeldOf(g, t) + Len(Out(g)) <= taken[t]
  <2>1. t \in AnySlice
    BY SlicesFacts
  <2>2. inbox[t] \in Nat /\ taken[t] \in Nat /\ taken'[t] = taken[t]
    BY <1>2, <2>1 DEF TypeOK
  <2>3. inbox'[t] = IF t = s THEN inbox[s] - 1 ELSE inbox[t]
    BY <1>1, <1>2, <2>1 DEF TypeOK
  <2>4. inbox[t] + HeldOf(g, t) + Len(Out(g)) <= taken[t]
    BY DEF CombInv, Accounted
  <2> QED BY <2>2, <2>3, <2>4
<1>16. /\ Out(g) \in Seq(SUBSET AnySlice) /\ Len(Out(g)) \in Nat
       /\ \A j \in DOMAIN Out(g) : Out(g)[j] = Slices(g)
       /\ P \in SUBSET AnySlice
  <2>1. P \subseteq AnySlice
    BY <1>12, SlicesFacts
  <2> QED BY <2>1, OutType DEF CombInv, HandedUp
<1>17. /\ DOMAIN pieces = Ids /\ DOMAIN expected = Ids
       /\ DOMAIN available = Ids /\ DOMAIN received = Ids
  BY DEF TypeOK
<1> HIDE DEF P, n, z, a, T
<1>18. /\ T <= Cardinality(P) * SliceData
       /\ T + SliceData > Cardinality(P) * SliceData
       /\ (\A t \in P : Whole(t)) => T = Cardinality(P) * SliceData
  <2>1. CASE s \in Held(g)
    BY <1>6, <1>7, <1>10, <1>11, <2>1
  <2>2. CASE s \notin Held(g)
    <3>1. /\ a + z <= (n + 1) * SliceData
          /\ a + z + SliceData > (n + 1) * SliceData
          /\ a = n * SliceData /\ z = SliceData => a + z = (n + 1) * SliceData
      BY <1>1, <1>7, <1>8, <1>9, <1>10, <2>2, OnePieceMore
    <3>2. T = a + z /\ Cardinality(P) = n + 1
      BY <1>6, <1>7, <2>2
    <3> QED BY <1>11, <3>1, <3>2
  <2> QED BY <2>1, <2>2
<1>19. CASE /\ T = Size[g]
            /\ received' = [received EXCEPT ![i] = Append(@, P)]
            /\ pieces' = [pieces EXCEPT ![i] = {}]
            /\ available' = [available EXCEPT ![i] = 0]
  <2>1. P = Slices(g)
    BY <1>1, <1>12, <1>18, <1>19, SumIsAll
  <2>2. Out(g)' = Append(Out(g), P)
    BY <1>1, <1>17, <1>19 DEF Out
  <2>3. Held(g)' = {} /\ available'[i] = 0
    BY <1>1, <1>17, <1>19 DEF Held
  <2>4. Len(Out(g)') = Len(Out(g)) + 1
    BY <1>16, <2>2
  <2>5. HandedUp(g)'
    <3>1. \A j \in DOMAIN Append(Out(g), P) : Append(Out(g), P)[j] = Slices(g)
      BY <1>16, <2>1
    <3> QED BY <1>14, <2>2, <3>1 DEF HandedUp
  <2>6. Pieces(g)'
    BY <2>3 DEF Pieces
  <2>7. Sum(g)'
    BY <1>1, <2>3, FS_EmptySet DEF Sum
  <2>8. ASSUME NEW t \in Slices(g)
        PROVE  inbox'[t] + HeldOf(g, t)' + Len(Out(g)') <= taken'[t]
    <3>1. HeldOf(g, t)' = 0 /\ HeldOf(g, t) \in Nat
      BY <2>3 DEF HeldOf
    <3>2. t = s \/ HeldOf(g, t) = 1
      BY <2>1 DEF P, HeldOf
    <3> HIDE DEF HeldOf
    <3> QED BY <1>2, <1>15, <1>16, <2>4, <3>1, <3>2
  <2>9. Accounted(g)'
    BY <1>14, <2>8 DEF Accounted
  <2> QED BY <2>5, <2>6, <2>7, <2>9 DEF CombInv
<1>20. CASE /\ pieces' = [pieces EXCEPT ![i] = P]
            /\ available' = [available EXCEPT ![i] = T]
            /\ received' = received
  <2>1. /\ Held(g)' = P /\ available'[i] = T /\ Out(g)' = Out(g)
        /\ expected'[i] = Size[g]
    BY <1>1, <1>13, <1>17, <1>20 DEF Held, Out
  <2>2. HandedUp(g)'
    BY <1>14, <1>16, <2>1 DEF HandedUp
  <2>3. Pieces(g)'
    BY <1>12, <1>14, <2>1 DEF Pieces
  <2>4. Sum(g)'
    BY <1>14, <1>18, <2>1 DEF Sum
  <2>5. ASSUME NEW t \in Slices(g)
        PROVE  inbox'[t] + HeldOf(g, t)' + Len(Out(g)') <= taken'[t]
    <3>1. /\ HeldOf(g, t)' \in {0, 1} /\ HeldOf(g, t) \in {0, 1}
          /\ t # s => HeldOf(g, t)' = HeldOf(g, t)
      BY <2>1 DEF HeldOf, P
    <3>2. Len(Out(g)') = Len(Out(g))
      BY <2>1
    <3> HIDE DEF HeldOf
    <3> QED BY <1>2, <1>15, <1>16, <3>1, <3>2
  <2>6. Accounted(g)'
    BY <1>14, <2>5 DEF Accounted
  <2> QED BY <2>2, <2>3, <2>4, <2>6 DEF CombInv
<1> QED BY <1>13, <1>19, <1>20

LEMMA TakenGrows ==
  ASSUME TypeOK, [Next]_vars, NEW s \in AnySlice
  PROVE  taken[s] > 0 => taken'[s] > 0
<1>1. ASSUME NEW t \in AnySlice, Take(t) PROVE taken[s] > 0 => taken'[s] > 0
  <2>1. taken' = [taken EXCEPT ![t] = @ + 1] /\ taken \in [AnySlice -> Nat]
    BY <1>1 DEF Take, TypeOK
  <2> QED BY <2>1
<1>2. ASSUME PeerStays \/ UNCHANGED taken PROVE taken[s] > 0 => taken'[s] > 0
  BY <1>2 DEF PeerStays
<1>3. ASSUME NEW t \in Slice, Acknowledge(t) \/ CancelGroup(t) \/ ExitTimer(t)
      PROVE  taken[s] > 0 => taken'[s] > 0
  BY <1>3 DEF Acknowledge, CancelGroup, ExitTimer, peerVars
<1>4. ASSUME NEW t \in AnySlice, Insert(t) PROVE taken[s] > 0 => taken'[s] > 0
  BY <1>2, <1>4, InsertStep
<1>5. CASE UNCHANGED vars
  BY <1>5 DEF vars, peerVars
<1> QED BY <1>1, <1>2, <1>3, <1>4, <1>5, StepTouches, SenderTouches, ForgetTouches,
           RecvTouches

LEMMA AloneBefore ==
  ASSUME TypeOK, [Next]_vars, NEW g \in Group, Alone(g)'
  PROVE  Alone(g)
<1>1. SUFFICES ASSUME NEW b \in Block \ {g}, Id[b] = Id[g], NEW s \in Slices(b), s \in Here
      PROVE  FALSE
  BY DEF Alone
<1>2. s \in AnySlice /\ taken[s] > 0
  BY <1>1 DEF Here
<1>3. taken'[s] > 0
  BY <1>2, TakenGrows
<1>4. s \in Here' /\ s \in Slices(b)'
  BY <1>2, <1>3 DEF Here, AnySlice, Slices, Offsets
<1> QED BY <1>1, <1>4 DEF Alone

LEMMA CombStep ==
  ASSUME TypeOK, TypeOK', Passed, NEW h \in Group, CutInv(h),
         Alone(h) => CombInv(h), [Next]_vars
  PROVE  (Alone(h) => CombInv(h))'
<1> SUFFICES ASSUME Alone(h)' PROVE CombInv(h)'
  OBVIOUS
<1>0. Alone(h) /\ CombInv(h)
  BY AloneBefore
<1>1. ASSUME PeerStays PROVE CombInv(h)'
  <2>1. SameComb(h) /\ MoreTaken(h)
    <3>1. \A s \in Slices(h) : s \in AnySlice
      BY SlicesFacts
    <3>2. \A s \in AnySlice : inbox[s] \in Nat /\ taken[s] \in Nat
      BY DEF TypeOK
    <3> QED BY <1>1, <3>1, <3>2 DEF PeerStays, SameComb, MoreTaken, Held, Out
  <2> QED BY <1>0, <2>1, CombKept
<1>2. ASSUME NEW s \in AnySlice, Take(s) PROVE CombInv(h)'
  <2>1. /\ UNCHANGED <<expected, available, pieces, received>>
        /\ taken' = [taken EXCEPT ![s] = @ + 1] /\ inbox' = [inbox EXCEPT ![s] = @ + 1]
        /\ taken \in [AnySlice -> Nat] /\ inbox \in [AnySlice -> Nat]
    BY <1>2 DEF Take, combVars, TypeOK
  <2>2. SameComb(h)
    BY <2>1 DEF SameComb, Held, Out
  <2>3. \A t \in AnySlice : inbox'[t] + taken[t] <= inbox[t] + taken'[t]
    BY <2>1
  <2>4. MoreTaken(h)
    BY <2>3, SlicesFacts DEF MoreTaken
  <2> QED BY <1>0, <2>2, <2>4, CombKept
<1>3. ASSUME NEW s \in Slice, Acknowledge(s) \/ CancelGroup(s) \/ ExitTimer(s)
      PROVE CombInv(h)'
  <2>1. PeerStays
    BY <1>3 DEF Acknowledge, CancelGroup, ExitTimer, peerVars, combVars, PeerStays
  <2> QED BY <1>1, <2>1
<1>4. ASSUME NEW s \in AnySlice, Insert(s) PROVE CombInv(h)'
  <2>1. CASE IdOf(s) = Id[h]
    <3>1. inbox[s] \in Nat /\ taken[s] \in Nat /\ inbox[s] > 0 /\ inbox[s] <= taken[s]
      BY <1>4, InsertStep DEF TypeOK, Passed
    <3>2. taken[s] > 0
      BY <3>1
    <3>3. s \in Slices(h)
      BY <1>0, <2>1, <3>2, AloneOwner DEF IdOf
    <3> QED BY <1>0, <1>4, <3>3, CombInsert
  <2>2. CASE IdOf(s) # Id[h]
    <3>1. /\ inbox' = [inbox EXCEPT ![s] = @ - 1] /\ taken' = taken
          /\ expected' = [expected EXCEPT ![IdOf(s)] = Size0(s)]
          /\ \/ /\ received' = [received EXCEPT ![IdOf(s)] = Append(@, Memory(s))]
                /\ pieces' = [pieces EXCEPT ![IdOf(s)] = {}]
                /\ available' = [available EXCEPT ![IdOf(s)] = 0]
             \/ /\ pieces' = [pieces EXCEPT ![IdOf(s)] = Memory(s)]
                /\ available' = [available EXCEPT ![IdOf(s)] = Total(s)]
                /\ received' = received
      BY <1>4, InsertStep
    <3>2. expected'[Id[h]] = expected[Id[h]]
      BY <2>2, <3>1, IdFacts DEF TypeOK
    <3>3. pieces'[Id[h]] = pieces[Id[h]]
      BY <2>2, <3>1, IdFacts DEF TypeOK
    <3>4. available'[Id[h]] = available[Id[h]]
      BY <2>2, <3>1, IdFacts DEF TypeOK
    <3>5. received'[Id[h]] = received[Id[h]]
      BY <2>2, <3>1, IdFacts DEF TypeOK
    <3>6. SameComb(h)
      BY <3>2, <3>3, <3>4, <3>5 DEF SameComb, Held, Out
    <3>7. \A t \in AnySlice : inbox'[t] + taken[t] <= inbox[t] + taken'[t]
      <4>1. taken \in [AnySlice -> Nat] /\ inbox \in [AnySlice -> Nat]
        BY DEF TypeOK
      <4> QED BY <3>1, <4>1
    <3>8. MoreTaken(h)
      BY <3>7, SlicesFacts DEF MoreTaken
    <3> QED BY <1>0, <3>6, <3>8, CombKept
  <2> QED BY <2>1, <2>2
<1>5. CASE UNCHANGED vars
  BY <1>1, <1>5 DEF vars, peerVars, combVars, PeerStays
<1> QED BY <1>1, <1>2, <1>3, <1>4, <1>5, StepTouches, SenderTouches, ForgetTouches, RecvTouches

-----------------------------------------------------------------------------
(* The inductive invariant, and what follows from it.                      *)
IndInv ==
  /\ TypeOK
  /\ Passed
  /\ \A s \in Slice : SliceInv(s)
  /\ \A g \in Group : CutInv(g) /\ CountInv(g) /\ (Alone(g) => CombInv(g))

(* The invariant the theorems below rest on holds in every state of udt.   *)
THEOREM UdtInductive == Spec => []IndInv
<1>1. Init => IndInv
  <2>1. SUFFICES ASSUME Init PROVE IndInv
    OBVIOUS
  <2>2. /\ inbox = [s \in AnySlice |-> 0] /\ taken = [s \in AnySlice |-> 0]
        /\ sent = {} /\ settled = {}
        /\ failing = [s \in Slice |-> "no"]
    BY <2>1 DEF Init
  <2>3. Passed
    BY <2>2, SliceFacts DEF Passed
  <2>4. TypeOK
    BY <2>1, InitTypes
  <2>5. \A s \in Slice : SliceInv(s)
    BY <2>1, SliceInit
  <2>6. \A g \in Group : CutInv(g) /\ CountInv(g) /\ CombInv(g)
    BY <2>1, CutInit, CountInit, CombInit
  <2> QED BY <2>3, <2>4, <2>5, <2>6 DEF IndInv
<1>2. IndInv /\ [Next]_vars => IndInv'
  <2>1. SUFFICES ASSUME IndInv, [Next]_vars PROVE IndInv'
    OBVIOUS
  <2>2. TypeOK /\ Passed /\ \A g \in Group : CutAt(g)
    BY <2>1 DEF IndInv, CutInv
  <2>3. TypeOK' /\ Passed'
    BY <2>1, <2>2, TypeStep, PassedStep
  <2>4. \A s \in Slice : SliceInv(s)'
    BY <2>1, <2>2, SliceStep DEF IndInv
  <2>5. \A g \in Group : CutInv(g)' /\ CountInv(g)' /\ (Alone(g) => CombInv(g))'
    BY <2>1, <2>2, <2>3, CutStep, CountStep, CombStep DEF IndInv
  <2>6. (\A s \in Slice : SliceInv(s))'
    BY <2>4 DEF Slice, Slices, Offsets
  <2> QED BY <2>3, <2>5, <2>6 DEF IndInv
<1> QED BY <1>1, <1>2, PTL DEF Spec

(* Every variable of udt stays in its type; for the slicer's place this    *)
(* needs that it never passes the end of the block.                        *)
THEOREM UdtTypeCorrect == Spec => []TypeOK
<1>1. IndInv => TypeOK
  BY DEF IndInv
<1> QED BY <1>1, UdtInductive, PTL

(* However the count stored by send_block interleaves with the threads     *)
(* that compare with it, and whatever slices fail, the send callback of a  *)
(* block is called at most once.                                           *)
THEOREM BlockReportedOnce == Spec => []ReportedOnce
<1>1. IndInv => ReportedOnce
  BY DEF IndInv, CountInv, Reports, ReportedOnce
<1> QED BY <1>1, UdtInductive, PTL

(* What is counted for a healthy block that was reported.                  *)
LEMMA ReportedCounted ==
  ASSUME IndInv, NEW g \in Group, reported[g] > 0, Healthy(g)
  PROVE  Counted(g) = Slices(g) /\ Slices(g) \subseteq Here
<1>1. CountInv(g)
  BY DEF IndInv
<1>2. g \notin sending /\ pc[g] # "idle"
  <2>1. reported[g] # 0
    OBVIOUS
  <2> QED BY <1>1, <2>1 DEF CountInv, Reports
<1>3. Counted(g) = Slices(g)
  BY <1>1, <1>2 DEF CountInv, Counts
<1>4. ASSUME NEW s \in Slices(g) PROVE s \in Here
  <2>1. failing[s] = "no" /\ SliceInv(s) /\ s \in settled
    BY <1>3, SlicesFacts DEF Healthy, IndInv, Counted
  <2> QED BY <2>1, SlicesFacts DEF SliceInv, GoodSlice, Here
<1> QED BY <1>3, <1>4

(* When the send callback of a block none of whose slices was given up is  *)
(* called, the peer has taken every slice of it.                           *)
THEOREM BlockReportTrue == Spec => []ReportMeansTaken
<1>1. IndInv => ReportMeansTaken
  BY ReportedCounted DEF ReportMeansTaken
<1> QED BY <1>1, UdtInductive, PTL

(* Whatever blocks of other senders come, in whatever order and however    *)
(* often: as long as none of them bears the id of a block, what comes out  *)
(* under this id is the block whole, and no more often than its slices     *)
(* were handed over.                                                       *)
THEOREM BlockReassembled == Spec => []ReassembledExactly
<1>1. IndInv => ReassembledExactly
  <2>1. SUFFICES ASSUME IndInv, NEW g \in Group, Alone(g)
        PROVE  /\ \A i \in DOMAIN received[Id[g]] : received[Id[g]][i] = Slices(g)
               /\ \A s \in Slices(g) : Len(received[Id[g]]) <= taken[s]
    BY Zenon DEF ReassembledExactly
  <2>2. TypeOK /\ CombInv(g)
    BY <2>1 DEF IndInv
  <2>3. \A i \in DOMAIN received[Id[g]] : received[Id[g]][i] = Slices(g)
    BY <2>2 DEF CombInv, HandedUp, Out
  <2>4. ASSUME NEW s \in Slices(g) PROVE Len(received[Id[g]]) <= taken[s]
    <3>1. s \in AnySlice
      BY SlicesFacts
    <3>2. inbox[s] \in Nat /\ taken[s] \in Nat
      BY <2>2, <3>1 DEF TypeOK
    <3>3. inbox[s] + HeldOf(g, s) + Len(Out(g)) <= taken[s]
      BY <2>2 DEF CombInv, Accounted
    <3>4. HeldOf(g, s) \in Nat /\ Len(Out(g)) \in Nat
      BY <2>2, OutType DEF HeldOf
    <3>5. Out(g) = received[Id[g]]
      BY DEF Out
    <3> HIDE DEF HeldOf, Out
    <3> QED BY <3>2, <3>3, <3>4, <3>5
  <2> QED BY <2>3, <2>4
<1> QED BY <1>1, UdtInductive, PTL

(* A completion recv() fetches finds the node of its slice alive unless    *)
(* this very slice was given up, whatever happened to the other slices of  *)
(* its block, and its group alive unless some slice of it was.             *)
THEOREM BlockNodesAlive == Spec => []NodesAlive
<1>1. IndInv => NodesAlive
  <2>1. SUFFICES ASSUME IndInv, NEW c \in port
        PROVE  /\ failing[About(c)] = "no" => deleted[About(c)] = 0
               /\ Healthy(Owner(About(c))) =>
                    Owner(About(c)) \in sending \/ pc[Owner(About(c))] # "done"
    BY Zenon DEF NodesAlive
  <2> DEFINE s == About(c)
             g == Owner(s)
  <2>2. c \in Completion /\ s \in Slice /\ g \in Group /\ s \in Slices(g)
    BY <2>1, CompletionFacts, SliceFacts DEF IndInv, TypeOK
  <2>3. CountInv(g) /\ deleted[s] \in Nat /\ SliceInv(s)
    BY <2>1, <2>2 DEF IndInv, TypeOK
  <2>4. failing[s] = "no" => GoodSlice(s) /\ c = Complete(s)
    BY <2>2, <2>3, CompletionFacts DEF SliceInv, GoodSlice, Around, Complete
  <2>5. failing[s] = "no" => deleted[s] = 0
    BY <2>3, <2>4 DEF GoodSlice
  <2>6. ASSUME Healthy(g) PROVE g \in sending \/ pc[g] # "done"
    <3>1. c = Complete(s)
      BY <2>2, <2>4, <2>6 DEF Healthy
    <3>2. Counted(g) # Slices(g)
      BY <2>2, <3>1 DEF Counted
    <3> QED BY <2>3, <2>6, <3>2 DEF CountInv, Counts
  <2> QED BY <2>5, <2>6
<1> QED BY <1>1, UdtInductive, PTL

-----------------------------------------------------------------------------
(* udt implements BlockService: every step is one of its steps or none.    *)

SameAccepted == \A g \in Group : pc[g]' = "idle" <=> pc[g] = "idle"
SameTaken == taken' = taken
SameHanded == \A g \in Group : received[Id[g]]' = <<>> <=> received[Id[g]] = <<>>
SameReported == \A g \in Group : reported[g]' > 0 <=> reported[g] > 0
SameHealth == \A g \in Group : Healthy(g)' <=> Healthy(g)

AcceptedView == {g \in Group : pc[g] # "idle"}
ArrivedView == {g \in Group : pc[g] # "idle" /\ Slices(g) \subseteq Here}
CrossedView == {g \in Group : ~ Alone(g)}
HandedView == {g \in Group : received[Id[g]] # <<>>}
ReportedView == {g \in Group : reported[g] > 0}
FailedView == {g \in Group : ~ Healthy(g)}

LEMMA SameViews ==
  /\ SameAccepted => AcceptedView' = AcceptedView
  /\ SameAccepted /\ SameTaken => ArrivedView' = ArrivedView
  /\ SameTaken => CrossedView' = CrossedView
  /\ SameHanded => HandedView' = HandedView
  /\ SameReported => ReportedView' = ReportedView
  /\ SameHealth => FailedView' = FailedView
<1>1. SameAccepted => AcceptedView' = AcceptedView
  BY DEF SameAccepted, AcceptedView
<1>0. ASSUME SameTaken
      PROVE  /\ Here' = Here
             /\ \A b : Slices(b)' = Slices(b)
             /\ \A g : Alone(g)' <=> Alone(g)
  BY <1>0 DEF SameTaken, Here, AnySlice, Slices, Offsets, Alone
<1>2. SameAccepted /\ SameTaken => ArrivedView' = ArrivedView
  BY <1>0 DEF SameAccepted, ArrivedView
<1>6. SameTaken => CrossedView' = CrossedView
  BY <1>0, Zenon DEF CrossedView
<1>3. SameHanded => HandedView' = HandedView
  BY DEF SameHanded, HandedView
<1>4. SameReported => ReportedView' = ReportedView
  BY DEF SameReported, ReportedView
<1>5. SameHealth => FailedView' = FailedView
  BY Zenon DEF SameHealth, FailedView
<1> QED BY <1>1, <1>2, <1>3, <1>4, <1>5, <1>6

LEMMA HealthFrame ==
  UNCHANGED failing => SameHealth
BY DEF SameHealth, Healthy, Slices, Offsets

(* The views are what BlockService is instantiated with.                   *)
LEMMA ServiceStutters ==
  ASSUME SameAccepted, SameTaken, SameHanded, SameReported, SameHealth
  PROVE  UNCHANGED Service!vars
BY SameViews DEF Service!vars, AcceptedView, ArrivedView, CrossedView,
     HandedView, ReportedView, FailedView

LEMMA AcceptService ==
  ASSUME IndInv, NEW g \in Group, Register(g)
  PROVE  Service!Next
<1>1. /\ SameTaken /\ SameHanded /\ SameHealth /\ SameReported
  BY SenderTouches, HealthFrame
     DEF Register, CoreStays, PeerStays, SameTaken, SameHanded, SameReported
<1>2. /\ pc[g] = "idle" /\ pc[g]' # "idle"
      /\ \A h \in Group : h # g => pc[h]' = pc[h]
  BY DEF Register, SenderAt, IndInv, TypeOK
<1>3. g \notin AcceptedView /\ AcceptedView' = AcceptedView \cup {g}
  BY <1>2 DEF AcceptedView
<1>4. ArrivedView' = ArrivedView \/ ArrivedView' = ArrivedView \cup {g}
  <2>1. Here' = Here /\ \A h \in Group : Slices(h)' = Slices(h)
    BY <1>1 DEF Slices, Offsets, SameTaken, Here, AnySlice
  <2>2. \A h \in Group : h # g => (h \in ArrivedView' <=> h \in ArrivedView)
    BY <1>2, <2>1 DEF ArrivedView
  <2>3. g \notin ArrivedView
    BY <1>2 DEF ArrivedView
  <2>4. ArrivedView \subseteq Group /\ ArrivedView' \subseteq Group
    BY DEF ArrivedView
  <2> QED BY <2>2, <2>3, <2>4
<1>5. /\ HandedView' = HandedView /\ ReportedView' = ReportedView
      /\ FailedView' = FailedView /\ CrossedView' = CrossedView
  BY <1>1, SameViews
<1> QED BY <1>3, <1>4, <1>5
        DEF Service!Next, Service!Accept, AcceptedView, ArrivedView, CrossedView,
            HandedView, ReportedView, FailedView

(* Taking a slice: what is here, and which blocks it may concern.          *)
LEMMA TakeHere ==
  ASSUME IndInv, NEW s \in AnySlice, Take(s)
  PROVE  /\ Here' = Here \cup {s}
         /\ \A b : Slices(b)' = Slices(b)
         /\ s \in Slices(Owner(s)) /\ Owner(s) \in Block
         /\ \A b \in Block : b # Owner(s) => s \notin Slices(b)
<1>1. taken' = [taken EXCEPT ![s] = @ + 1] /\ taken \in [AnySlice -> Nat]
  BY DEF Take, IndInv, TypeOK
<1>2. \A b : Slices(b)' = Slices(b)
  BY DEF Slices, Offsets
<1>3. AnySlice' = AnySlice
  BY DEF AnySlice, Slices, Offsets
<1>4. Here' = Here \cup {s}
  BY <1>1, <1>3 DEF Here
<1> QED BY <1>2, <1>4, AnySliceFacts, BlockSlices

LEMMA SentAccepted ==
  ASSUME IndInv, NEW s \in Slice, s \in sent
  PROVE  pc[Owner(s)] # "idle"
<1>1. Owner(s) \in Group /\ CutInv(Owner(s)) /\ s \in Slices(Owner(s))
      /\ Start(s) \in Nat
  BY SliceFacts, OffsetsFacts DEF IndInv
<1>2. Start(s) < used[Owner(s)]
  BY <1>1, SentBefore DEF CutInv
<1>3. used[Owner(s)] # 0
  BY <1>1, <1>2
<1> QED BY <1>1, <1>3 DEF CutInv, CutStage

LEMMA ArriveService ==
  ASSUME IndInv, NEW s \in AnySlice, Take(s)
  PROVE  [Service!Next]_(Service!vars)
<1>1. /\ UNCHANGED <<pc, received, reported, failing>>
      /\ s \in sent \/ Owner(s) \in Stranger
  BY DEF Take, sendVars, groupVars, failVars, combVars
<1>2. SameAccepted /\ SameHanded /\ SameReported /\ SameHealth
  BY <1>1, HealthFrame DEF SameAccepted, SameHanded, SameReported
<1>3. /\ AcceptedView' = AcceptedView /\ HandedView' = HandedView
      /\ ReportedView' = ReportedView /\ FailedView' = FailedView
  BY <1>2, SameViews
<1>4. /\ Here' = Here \cup {s} /\ \A b : Slices(b)' = Slices(b)
      /\ s \in Slices(Owner(s)) /\ Owner(s) \in Block
      /\ \A b \in Block : b # Owner(s) => s \notin Slices(b)
  BY TakeHere
<1>5. \A h \in Group : h # Owner(s) => (h \in ArrivedView' <=> h \in ArrivedView)
  <2>1. \A h \in Group : h # Owner(s) =>
          (Slices(h) \subseteq Here' <=> Slices(h) \subseteq Here)
    BY <1>4
  <2> QED BY <1>1, <1>4, <2>1 DEF ArrivedView
<1>6. ArrivedView \subseteq ArrivedView'
  BY <1>1, <1>4 DEF ArrivedView
<1>7. ArrivedView \subseteq Group /\ ArrivedView' \subseteq Group
      /\ CrossedView \subseteq Group /\ CrossedView' \subseteq Group
  BY DEF ArrivedView, CrossedView
<1>8. \A h \in Group : Id[h] # Id[Owner(s)] \/ h = Owner(s) =>
        (h \in CrossedView' <=> h \in CrossedView)
  <2>1. ASSUME NEW h \in Group, Id[h] # Id[Owner(s)] \/ h = Owner(s)
        PROVE  Alone(h)' <=> Alone(h)
    <3>1. \A b \in Block \ {h} : Id[b] = Id[h] =>
            (Slices(b) \cap Here' = {} <=> Slices(b) \cap Here = {})
      BY <1>4, <2>1
    <3> QED BY <1>4, <3>1 DEF Alone
  <2> QED BY <2>1 DEF CrossedView
<1>9. CrossedView \subseteq CrossedView'
  <2>1. ASSUME NEW h \in Group, Alone(h)' PROVE Alone(h)
    BY <1>4, <2>1 DEF Alone
  <2> QED BY <2>1 DEF CrossedView
<1>10. CASE Owner(s) \in Group
  <2>1. s \in Slice /\ Owner(s) \notin Stranger
    BY <1>10, AnySliceFacts, ConstantsAssumption
  <2>2. pc[Owner(s)] # "idle"
    BY <1>1, <2>1, SentAccepted
  <2>3. \A h \in Group : h \in CrossedView' <=> h \in CrossedView
    BY <1>8, <1>10, ConstantsAssumption
  <2>4. CrossedView' = CrossedView
    BY <1>7, <2>3
  <2>5. Owner(s) \in AcceptedView
    BY <1>10, <2>2 DEF AcceptedView
  <2>6. CASE Owner(s) \in ArrivedView' /\ Owner(s) \notin ArrivedView
    <3>1. \A h : h \in ArrivedView' <=> h \in ArrivedView \/ h = Owner(s)
      BY <1>5, <1>7, <2>6
    <3>2. ArrivedView' = ArrivedView \cup {Owner(s)}
      BY <3>1
    <3> QED BY <1>3, <1>10, <2>4, <2>5, <2>6, <3>2
       DEF Service!Next, Service!Arrive, AcceptedView, ArrivedView, CrossedView,
           HandedView, ReportedView, FailedView
  <2>7. CASE ~ (Owner(s) \in ArrivedView' /\ Owner(s) \notin ArrivedView)
    <3>1. \A h : h \in ArrivedView' <=> h \in ArrivedView
      BY <1>5, <1>6, <1>7, <2>7
    <3>2. ArrivedView' = ArrivedView
      BY <3>1
    <3> QED BY <1>3, <2>4, <3>2
       DEF Service!vars, AcceptedView, ArrivedView, CrossedView, HandedView,
           ReportedView, FailedView
  <2> QED BY <2>6, <2>7
<1>11. CASE Owner(s) \notin Group
  <2>1. \A h : h \in ArrivedView' <=> h \in ArrivedView
    BY <1>5, <1>7, <1>11
  <2>2. ArrivedView' = ArrivedView
    BY <2>1
  <2>3. CASE CrossedView' = CrossedView
    BY <1>3, <2>2, <2>3
       DEF Service!vars, AcceptedView, ArrivedView, CrossedView, HandedView,
           ReportedView, FailedView
  <2>4. CASE CrossedView' # CrossedView
    <3>1. PICK h \in Group : h \in CrossedView' /\ h \notin CrossedView
      BY <1>7, <1>9, <2>4
    <3>2. Id[h] = Id[Owner(s)]
      BY <1>8, <3>1
    <3>3. \A k \in Group : k # h => (k \in CrossedView' <=> k \in CrossedView)
      BY <1>8, <3>2, ConstantsAssumption
    <3>4. \A k : k \in CrossedView' <=> k \in CrossedView \/ k = h
      BY <1>7, <3>1, <3>3
    <3>5. CrossedView' = CrossedView \cup {h}
      BY <3>4
    <3> QED BY <1>3, <2>2, <3>1, <3>5
       DEF Service!Next, Service!Cross, AcceptedView, ArrivedView, CrossedView,
           HandedView, ReportedView, FailedView
  <2> QED BY <2>3, <2>4
<1> QED BY <1>10, <1>11

LEMMA HandUpService ==
  ASSUME IndInv, IndInv', NEW s \in AnySlice, Insert(s)
  PROVE  [Service!Next]_(Service!vars)
<1>1. SenderStays /\ GroupStays /\ CoreStays /\ taken' = taken
  BY InsertStep, NetTouches
<1>2. SameAccepted /\ SameTaken /\ SameReported /\ SameHealth
  BY <1>1, HealthFrame DEF SenderStays, GroupStays, CoreStays, SameAccepted, SameTaken,
     SameReported
<1>3. /\ AcceptedView' = AcceptedView /\ ArrivedView' = ArrivedView
      /\ ReportedView' = ReportedView /\ FailedView' = FailedView
      /\ CrossedView' = CrossedView
  BY <1>2, SameViews
<1>4. \/ received' = received
      \/ received' = [received EXCEPT ![IdOf(s)] = Append(@, Memory(s))]
  BY InsertStep
<1>5. \A h \in Group : Id[h] # IdOf(s) => received'[Id[h]] = received[Id[h]]
  BY <1>4, IdFacts DEF IndInv, TypeOK
<1>6. \A h \in Group : received[Id[h]] # <<>> => received'[Id[h]] # <<>>
  <2>1. ASSUME NEW h \in Group, received[Id[h]] # <<>>, Id[h] = IdOf(s)
        PROVE  received'[Id[h]] # <<>>
    <3>1. received \in [Ids -> Seq(SUBSET AnySlice)] /\ Id[h] \in Ids
      BY IdFacts DEF IndInv, TypeOK
    <3>2. received[Id[h]] \in Seq(SUBSET AnySlice)
      BY <3>1
    <3>3. Append(received[Id[h]], Memory(s)) # <<>>
      BY <3>2
    <3> QED BY <1>4, <2>1, <3>1, <3>3
  <2> QED BY <1>5, <2>1
<1>7. CASE SameHanded
  BY <1>2, <1>7, ServiceStutters
<1>8. CASE ~ SameHanded
  <2>1. PICK g \in Group : received[Id[g]] = <<>> /\ received'[Id[g]] # <<>>
    BY <1>6, <1>8 DEF SameHanded
  <2>2. Id[g] = IdOf(s)
    BY <1>5, <2>1
  <2>3. \A h \in Group : h # g => received'[Id[h]] = received[Id[h]]
    BY <1>5, <2>2, ConstantsAssumption
  <2>4. HandedView' = HandedView \cup {g} /\ g \notin HandedView
    <3>1. \A h \in Group : h \in HandedView' <=> h \in HandedView \/ h = g
      BY <2>1, <2>3 DEF HandedView
    <3>2. HandedView \subseteq Group /\ HandedView' \subseteq Group
      BY DEF HandedView
    <3> QED BY <2>1, <3>1, <3>2 DEF HandedView
  <2>5. ASSUME Alone(g) PROVE g \in ArrivedView
    <3>1. g \in CrossedView' <=> g \in CrossedView
      BY <1>3
    <3>2. Alone(g)'
      BY <2>5, <3>1 DEF CrossedView
    <3>3. TypeOK' /\ CombInv(g)'
      BY <3>2 DEF IndInv
    <3>4. Out(g)' # <<>>
      BY <2>1 DEF Out
    <3>5. Slices(g)' = Slices(g)
      BY DEF Slices, Offsets
    <3>6. \A t \in Slices(g) : t \in Here
      <4>1. ASSUME NEW t \in Slices(g) PROVE t \in Here
        <5>1. taken'[t] > 0
          BY <3>3, <3>4, <3>5, HeldTakenNext
        <5> QED BY <1>1, <5>1, SlicesFacts DEF Here
      <4> QED BY <4>1
    <3>7. pc[g] # "idle"
      <4>1. inbox[s] \in Nat /\ taken[s] \in Nat /\ inbox[s] > 0 /\ inbox[s] <= taken[s]
        BY InsertStep DEF IndInv, TypeOK, Passed
      <4>2. taken[s] > 0
        BY <4>1
      <4>3. Owner(s) = g /\ s \in Slice
        BY <2>2, <2>5, <4>2, AloneOwner DEF IdOf
      <4>4. s \in sent
        BY <4>2, <4>3 DEF IndInv, Passed
      <4> QED BY <4>3, <4>4, SentAccepted
    <3> QED BY <3>6, <3>7 DEF ArrivedView
  <2>6. g \in ArrivedView \cup CrossedView
    BY <2>5 DEF CrossedView
  <2> QED BY <1>3, <2>4, <2>6
          DEF Service!Next, Service!HandUp, AcceptedView, ArrivedView, CrossedView,
              HandedView, ReportedView, FailedView
<1> QED BY <1>7, <1>8

LEMMA IndReport == IndInv => ReportMeansTaken
BY ReportedCounted DEF ReportMeansTaken

LEMMA IndReportNext == IndInv' => ReportMeansTaken'
BY IndReport, PTL

LEMMA ReportService ==
  ASSUME IndInv, IndInv', NEW g \in Group, EraseGroup(g),
         SameAccepted, SameTaken, SameHanded, SameHealth
  PROVE  [Service!Next]_(Service!vars)
<1>1. /\ AcceptedView' = AcceptedView /\ ArrivedView' = ArrivedView
      /\ HandedView' = HandedView /\ FailedView' = FailedView
      /\ CrossedView' = CrossedView
  BY SameViews
<1>2. CASE g \notin sending
  <2>1. SameReported
    BY <1>2 DEF EraseGroup, SameReported
  <2> QED BY <2>1, ServiceStutters
<1>3. CASE g \in sending
  <2>1. /\ reported[g] = 0 /\ pc[g] # "idle" /\ reported'[g] = 1
        /\ \A h \in Group : h # g => reported'[h] = reported[h]
    BY <1>3 DEF EraseGroup, IndInv, CountInv, Reports, TypeOK
  <2>2. ReportedView' = ReportedView \cup {g} /\ g \notin ReportedView
    BY <2>1 DEF ReportedView
  <2>3. Slices(g)' = Slices(g)
    BY DEF Slices, Offsets
  <2>4. Healthy(g) => Slices(g) \subseteq Here
    <3>1. SUFFICES ASSUME Healthy(g) PROVE Slices(g) \subseteq Here
      OBVIOUS
    <3>2. Healthy(g)'
      BY <3>1 DEF SameHealth
    <3>3. reported'[g] > 0
      BY <2>1
    <3>4. Slices(g)' \subseteq Here'
      BY <3>2, <3>3, IndReportNext DEF ReportMeansTaken
    <3>5. Here' = Here
      BY DEF SameTaken, Here, AnySlice, Slices, Offsets
    <3> QED BY <2>3, <3>4, <3>5
  <2>5. g \in AcceptedView /\ g \in ArrivedView \cup FailedView
    BY <2>1, <2>4 DEF AcceptedView, ArrivedView, FailedView
  <2> QED BY <1>1, <2>2, <2>5
          DEF Service!Next, Service!Report, AcceptedView, ArrivedView, CrossedView,
              HandedView, ReportedView, FailedView
<1> QED BY <1>2, <1>3

LEMMA FailService ==
  ASSUME IndInv, NEW s \in Slice, CancelGroup(s)
  PROVE  [Service!Next]_(Service!vars)
<1> DEFINE g == Owner(s)
<1>1. /\ UNCHANGED <<pc, taken, received, reported>> /\ s \in sent
      /\ failing' = [failing EXCEPT ![s] = "cancelled"]
  BY DEF CancelGroup, sendVars, groupVars, peerVars, combVars
<1>2. SameAccepted /\ SameTaken /\ SameHanded /\ SameReported
  BY <1>1 DEF SameAccepted, SameTaken, SameHanded, SameReported
<1>3. /\ AcceptedView' = AcceptedView /\ ArrivedView' = ArrivedView
      /\ HandedView' = HandedView /\ ReportedView' = ReportedView
      /\ CrossedView' = CrossedView
  BY <1>2, SameViews
<1>4. g \in Group /\ s \in Slices(g) /\ Start(s) \in Nat
  BY SliceFacts, OffsetsFacts
<1>5. pc[g] # "idle"
  <2>1. used[g] # 0 /\ CutInv(g)
    BY <1>1, <1>4, SentBefore DEF IndInv, CutInv
  <2> QED BY <2>1 DEF CutInv, CutStage
<1>6. /\ failing'[s] # "no"
      /\ \A t \in Slice : t # s => failing'[t] = failing[t]
  BY <1>1 DEF IndInv, TypeOK
<1>7. \A h \in Group : Slices(h)' = Slices(h)
  BY DEF Slices, Offsets
<1>8. ~ Healthy(g)'
  BY <1>4, <1>6, <1>7 DEF Healthy
<1>9. ASSUME NEW h \in Group, h # g PROVE Healthy(h)' <=> Healthy(h)
  <2>1. \A t \in Slices(h) : t \in Slice /\ t # s
    BY <1>9, SlicesFacts
  <2> QED BY <1>6, <1>7, <2>1 DEF Healthy
<1>10. CASE Healthy(g)
  <2>1. FailedView' = FailedView \cup {g} /\ g \notin FailedView
    BY <1>4, <1>8, <1>9, <1>10 DEF FailedView
  <2>2. g \in AcceptedView
    BY <1>4, <1>5 DEF AcceptedView
  <2> QED BY <1>3, <1>4, <2>1, <2>2
          DEF Service!Next, Service!Fail, AcceptedView, ArrivedView, CrossedView,
              HandedView, ReportedView, FailedView
<1>11. CASE ~ Healthy(g)
  <2>1. SameHealth
    BY <1>8, <1>9, <1>11 DEF SameHealth
  <2> QED BY <1>2, <2>1, ServiceStutters
<1> QED BY <1>10, <1>11

LEMMA SenderService ==
  ASSUME IndInv, IndInv', NEW g \in Group,
         SendSlice(g) \/ StoreCount(g) \/ CompareCount(g) \/ EraseAfterSend(g)
  PROVE  [Service!Next]_(Service!vars)
<1>1. SameTaken /\ SameHanded /\ SameHealth
  BY SenderTouches, HealthFrame DEF CoreStays, PeerStays, SameTaken, SameHanded
<1>2. SameAccepted
  BY DEF SendSlice, StoreCount, CompareCount, EraseAfterSend, SenderAt, SameAccepted,
     IndInv, TypeOK
<1>3. CASE EraseAfterSend(g)
  BY <1>1, <1>2, <1>3, ReportService DEF EraseAfterSend
<1>4. CASE SendSlice(g) \/ StoreCount(g) \/ CompareCount(g)
  <2>1. reported' = reported
    BY <1>4 DEF SendSlice, StoreCount, CompareCount, groupVars
  <2>2. SameReported
    BY <2>1 DEF SameReported
  <2> QED BY <1>1, <1>2, <2>2, ServiceStutters
<1> QED BY <1>3, <1>4

LEMMA GivenUpService ==
  ASSUME IndInv, NEW s \in Slice, ForgetGroup(s) \/ ExitTimer(s)
  PROVE  UNCHANGED Service!vars
<1>1. UNCHANGED <<pc, taken, received, reported>>
  BY DEF ForgetGroup, ExitTimer, sendVars, groupVars, peerVars, combVars
<1>2. SameAccepted /\ SameTaken /\ SameHanded /\ SameReported
  BY <1>1 DEF SameAccepted, SameTaken, SameHanded, SameReported
<1>3. failing[s] # "no" /\ failing'[s] # "no"
      /\ \A t \in Slice : t # s => failing'[t] = failing[t]
  BY DEF ForgetGroup, ExitTimer, IndInv, TypeOK
<1>4. \A t \in Slice : failing'[t] = "no" <=> failing[t] = "no"
  BY <1>3
<1>5. SameHealth
  <2>1. \A h \in Group : Slices(h)' = Slices(h) /\ Slices(h) \subseteq Slice
    BY SlicesFacts DEF Slices, Offsets
  <2> QED BY <1>4, <2>1 DEF SameHealth, Healthy
<1> QED BY <1>2, <1>5, ServiceStutters

LEMMA RecvService ==
  ASSUME IndInv, IndInv', NEW c \in Completion,
         CancelSlice(c) \/ CountSlice(c) \/ FinishTick(c)
  PROVE  [Service!Next]_(Service!vars)
<1>1. SameAccepted /\ SameTaken /\ SameHanded /\ SameHealth
  BY RecvTouches, HealthFrame DEF SenderStays, PeerStays, SameAccepted, SameTaken,
     SameHanded
<1>2. CASE UNCHANGED reported
  <2>1. SameReported
    BY <1>2 DEF SameReported
  <2> QED BY <1>1, <2>1, ServiceStutters
<1>3. CASE EraseGroup(Owner(About(c)))
  BY <1>1, <1>3, CompletionFacts, SliceFacts, ReportService
<1>4. UNCHANGED reported \/ EraseGroup(Owner(About(c)))
  BY DEF CancelSlice, CountSlice, FinishTick, groupVars
<1> QED BY <1>2, <1>3, <1>4

LEMMA StepImplements ==
  IndInv /\ IndInv' /\ [Next]_vars => [Service!Next]_(Service!vars)
<1> SUFFICES ASSUME IndInv, IndInv', [Next]_vars PROVE [Service!Next]_(Service!vars)
  OBVIOUS
<1>1. ASSUME NEW s \in Slice, Acknowledge(s) PROVE UNCHANGED Service!vars
  <2>1. UNCHANGED <<pc, taken, received, reported, failing>>
    BY <1>1 DEF Acknowledge, sendVars, groupVars, failVars, peerVars, combVars
  <2>2. SameAccepted /\ SameTaken /\ SameHanded /\ SameReported /\ SameHealth
    BY <2>1, HealthFrame DEF SameAccepted, SameTaken, SameHanded, SameReported
  <2> QED BY <2>2, ServiceStutters
<1>2. CASE UNCHANGED vars
  <2>1. UNCHANGED <<pc, taken, received, reported, failing>>
    BY <1>2 DEF vars, sendVars, groupVars, failVars, peerVars, combVars
  <2>2. SameAccepted /\ SameTaken /\ SameHanded /\ SameReported /\ SameHealth
    BY <2>1, HealthFrame DEF SameAccepted, SameTaken, SameHanded, SameReported
  <2> QED BY <2>2, ServiceStutters
<1> QED BY <1>1, <1>2, StepTouches, AcceptService, SenderService, ArriveService,
           FailService, GivenUpService, HandUpService, RecvService

(* Nothing comes out under the id of a block before all of it has arrived, *)
(* unless another sender's block of that id has come, and the report means *)
(* what it says: cutting, sending, counting completions and putting slices *)
(* together again implement BlockService.                                  *)
THEOREM BlockImplementation == Spec => ImplementsService
<1>1. Init => Service!Init
  <2>1. SUFFICES ASSUME Init PROVE Service!Init
    OBVIOUS
  <2>2. /\ \A g \in Group : pc[g] = "idle" /\ received[Id[g]] = <<>> /\ reported[g] = 0
        /\ \A s \in Slice : failing[s] = "no"
        /\ Here = {}
    BY <2>1, IdFacts DEF Init, Here
  <2>4. \A g \in Group : Alone(g)
    BY <2>2 DEF Alone
  <2>3. \A g \in Group : Healthy(g)
    BY <2>2, SlicesFacts DEF Healthy
  <2> QED BY <2>2, <2>3, <2>4 DEF Service!Init
<1> QED BY <1>1, UdtInductive, StepImplements, PTL
        DEF Spec, ImplementsService, Service!Spec
=============================================================================
