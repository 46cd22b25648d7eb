------------------------- MODULE DatagramTcpProofs -------------------------
(***************************************************************************)
(* For all lengths, buffer and header sizes: datagrams come out of a       *)
(* connection whole and in order, and none is held back.                   *)
(***************************************************************************)
EXTENDS DatagramTcp, TLAPS, SequenceTheorems

(* Where the i-th datagram begins, or will begin if it is the next one.    *)
Begin(i) == IF i = Len(written) + 1 THEN total ELSE begins[i]
End(i) == begins[i] + HeadSize + written[i]

(* The datagrams lie in the stream one after the other.                    *)
StreamInv ==
  /\ Len(begins) = Len(written)
  /\ Len(written) = 0 => total = 0
  /\ Begin(1) = 0
  /\ \A i \in 1 .. Len(written) : Begin(i + 1) = End(i) /\ End(i) <= total
  /\ \A i, j \in 1 .. Len(written) : i < j => End(i) <= begins[j]

(* The datagram being read.                                                *)
Current == Len(out) + 1

(* While the header is incomplete, the thread is headGot bytes into the    *)
(* current datagram; then it is bodyGot bytes into its body.               *)
HeadInv ==
  headGot < HeadSize =>
    /\ Offset = Begin(Current) + headGot
    /\ headGot > 0 => headStart = Begin(Current)

BodyInv ==
  headGot = HeadSize =>
    /\ Len(out) < Len(written)
    /\ bodySize = written[Current]
    /\ Offset = begins[Current] + HeadSize + bodyGot
    /\ bodyGot > 0 => bodyStart = begins[Current] + HeadSize
    /\ bodyGot < bodySize \/ bodySize = 0

ReaderInv ==
  /\ chunk <= taken
  /\ Len(out) <= Len(written)
  /\ pc \in {"new", "recv", "ended"} => chunk = 0
  /\ pc = "copy" => HeadComplete
  /\ pc = "new" <=> accepter = "listening"
  /\ HeadInv
  /\ BodyInv

OutInv ==
  \A i \in 1 .. Len(out) :
    /\ out[i].size = written[i]
    /\ out[i].size = 0 \/ out[i].start = begins[i] + HeadSize

FramingInv == TypeOK /\ StreamInv /\ ReaderInv /\ OutInv

-----------------------------------------------------------------------------
LEMMA InitInv == Init => FramingInv
<1> SUFFICES ASSUME Init PROVE FramingInv
  OBVIOUS
<1>0. Len(written) = 0 /\ Len(begins) = 0 /\ Len(out) = 0
  BY DEF Init
<1>1. FramingTypeOK
  BY SizeAssumption DEF FramingTypeOK, Init
<1>2. SetupTypeOK
  BY Zenon DEF SetupTypeOK, Init
<1>3. StreamInv
  BY <1>0 DEF StreamInv, Begin, Init
<1>4. ReaderInv
  BY <1>0, SizeAssumption
  DEF ReaderInv, HeadInv, BodyInv, Begin, Current, Offset, HeadComplete, Init
<1>5. OutInv
  BY <1>0 DEF OutInv
<1> QED BY <1>1, <1>2, <1>3, <1>4, <1>5 DEF FramingInv, TypeOK

(* What the types say of the numbers in the state.                         *)
LEMMA Lengths ==
  ASSUME FramingInv
  PROVE  /\ Len(written) \in Nat /\ Len(begins) = Len(written)
         /\ Len(out) \in Nat /\ Current = Len(out) + 1
<1>1. Len(written) \in Nat /\ Len(begins) = Len(written) /\ Len(out) \in Nat
  BY DEF FramingInv, TypeOK, FramingTypeOK, StreamInv
<1> QED BY <1>1 DEF Current

LEMMA ByteNumbers ==
  ASSUME FramingInv
  PROVE  /\ total \in Nat /\ taken \in Nat /\ taken <= total
         /\ chunk \in Nat /\ chunk <= BufferSize /\ BufferSize \in Nat
         /\ chunk <= taken
<1>1. total \in Nat /\ taken \in 0 .. total /\ chunk \in 0 .. BufferSize
  BY DEF FramingInv, TypeOK, FramingTypeOK
<1>2. BufferSize \in Nat
  BY SizeAssumption
<1>3. chunk <= taken
  BY DEF FramingInv, ReaderInv
<1> QED BY <1>1, <1>2, <1>3

LEMMA HeadNumbers ==
  ASSUME FramingInv
  PROVE  /\ HeadSize \in Nat /\ HeadSize > 0
         /\ headGot \in Nat /\ headGot <= HeadSize
<1>1. headGot \in 0 .. HeadSize
  BY DEF FramingInv, TypeOK, FramingTypeOK
<1>2. HeadSize \in Nat \ {0}
  BY SizeAssumption
<1> QED BY <1>1, <1>2

LEMMA BodyNumbers ==
  ASSUME FramingInv
  PROVE  bodyGot \in Nat /\ bodySize \in Nat /\ bodyGot <= bodySize
<1>1. bodySize \in Nat /\ bodyGot \in 0 .. bodySize
  BY DEF FramingInv, TypeOK, FramingTypeOK
<1> QED BY <1>1

LEMMA StreamNumbers ==
  ASSUME FramingInv, NEW i \in 1 .. Len(written)
  PROVE  written[i] \in Nat /\ begins[i] \in Nat /\ End(i) \in Nat
<1>1. written[i] \in Length
  BY DEF FramingInv, TypeOK, FramingTypeOK
<1>2. written[i] \in Nat
  BY <1>1, SizeAssumption
<1>3. i \in 1 .. Len(begins)
  BY Lengths
<1>4. begins[i] \in Nat
  BY <1>3 DEF FramingInv, TypeOK, FramingTypeOK
<1> QED BY <1>2, <1>4, HeadNumbers DEF End

(* What stream_wrap::append takes is no more than there is or fits.        *)
LEMMA FitsBounds ==
  ASSUME FramingInv, NEW room \in Nat
  PROVE  /\ Fits(room) \in Nat
         /\ Fits(room) <= chunk /\ Fits(room) <= room
         /\ Fits(room) = chunk \/ Fits(room) = room
BY ByteNumbers DEF Fits, Smaller

LEMMA TakesSome ==
  ASSUME FramingInv, NEW n \in Nat, n <= chunk
  PROVE  /\ chunk - n \in 0 .. BufferSize /\ chunk - n <= taken
         /\ taken - (chunk - n) = Offset + n
BY ByteNumbers DEF Offset

(* A header that was read where a datagram begins gives its length.        *)
LEMMA DecodedRight ==
  ASSUME FramingInv, NEW k \in 1 .. Len(written)
  PROVE  Decoded(begins[k]) = {written[k]}
<1>1. DOMAIN begins = 1 .. Len(written)
  BY DEF FramingInv, TypeOK, FramingTypeOK, StreamInv
<1>2. ASSUME NEW i \in 1 .. Len(written), NEW j \in 1 .. Len(written), i < j
      PROVE  begins[i] < begins[j]
  <2>1. End(i) <= begins[j]
    BY <1>2 DEF FramingInv, StreamInv
  <2>2. End(i) = begins[i] + HeadSize + written[i]
    BY DEF End
  <2>3. /\ begins[i] \in Nat /\ written[i] \in Nat /\ begins[j] \in Nat
        /\ HeadSize \in Nat /\ HeadSize > 0
    BY StreamNumbers, HeadNumbers
  <2> QED BY <2>1, <2>2, <2>3
<1>3. ASSUME NEW j \in 1 .. Len(written), begins[j] = begins[k]
      PROVE  j = k
  <2>1. begins[j] \in Nat /\ begins[k] \in Nat
    BY StreamNumbers
  <2>2. ~ (j < k) /\ ~ (k < j)
    BY <1>2, <1>3, <2>1
  <2> QED BY <2>2, Lengths
<1> QED
  BY <1>1, <1>3 DEF Decoded

-----------------------------------------------------------------------------
LEMMA SendKeeps ==
  ASSUME FramingInv, NEW l \in Length, Send(l)
  PROVE  FramingInv'
<1> DEFINE last == Len(written) + 1
<1>0. l \in Nat /\ total' = total + HeadSize + l
  BY SizeAssumption DEF Send
<1>1. /\ written \in Seq(Length) /\ begins \in Seq(Nat)
      /\ written' = Append(written, l) /\ begins' = Append(begins, total)
      /\ UNCHANGED <<taken, pc, chunk, headVars, bodyVars, out, setupVars>>
  BY DEF Send, FramingInv, TypeOK, FramingTypeOK
<1>2. /\ Len(written') = last /\ Len(begins') = last
      /\ written'[last] = l /\ begins'[last] = total
  BY <1>1, Lengths
<1>3. \A i \in 1 .. Len(written) :
        written'[i] = written[i] /\ begins'[i] = begins[i]
  BY <1>1, Lengths
<1>4. TypeOK'
  <2>1. written' \in Seq(Length) /\ begins' \in Seq(Nat)
    BY <1>1, ByteNumbers
  <2>2. total' \in Nat /\ total <= total'
    BY <1>0, ByteNumbers, HeadNumbers
  <2>3. taken' \in 0 .. total'
    BY <1>1, <2>2, ByteNumbers
  <2>4. FramingTypeOK'
    BY <1>1, <2>1, <2>2, <2>3
    DEF FramingInv, TypeOK, FramingTypeOK, headVars, bodyVars
  <2>5. SetupTypeOK'
    BY DEF FramingInv, TypeOK, SetupTypeOK, Send, setupVars
  <2> QED BY <2>4, <2>5 DEF TypeOK
<1>5. \A i \in 1 .. Len(written) : End(i)' = End(i)
  BY <1>3 DEF End
<1>6. ASSUME NEW i, i = last
      PROVE  End(i)' = total' /\ total' \in Nat /\ Begin(i + 1)' = total'
  <2>1. End(i)' = total + HeadSize + l
    BY <1>2, <1>6 DEF End
  <2>2. Begin(i + 1)' = total'
    BY <1>2, <1>6 DEF Begin
  <2> QED BY <1>0, <2>1, <2>2, ByteNumbers, HeadNumbers
<1>7. ASSUME NEW i \in 1 .. last PROVE Begin(i)' = Begin(i)
  <2>1. CASE i = last
    BY <2>1, <1>2, Lengths DEF Begin
  <2>2. CASE i \in 1 .. Len(written)
    <3>1. i # Len(written) + 1 /\ i # Len(written') + 1
      BY <2>2, <1>2, Lengths
    <3> QED BY <2>2, <3>1, <1>3 DEF Begin
  <2> QED BY <2>1, <2>2, Lengths
<1>8. StreamInv'
  <2>1. Begin(1)' = 0
    BY <1>7, Lengths DEF FramingInv, StreamInv
  <2>2. ASSUME NEW i \in 1 .. last
        PROVE  Begin(i + 1)' = End(i)' /\ End(i)' <= total'
    <3>1. CASE i = last
      BY <3>1, <1>6
    <3>2. CASE i \in 1 .. Len(written)
      <4>1. Begin(i + 1) = End(i) /\ End(i) <= total
        BY <3>2 DEF FramingInv, StreamInv
      <4>2. Begin(i + 1)' = Begin(i + 1)
        BY <3>2, <1>7, Lengths
      <4>3. End(i)' = End(i)
        BY <3>2, <1>5
      <4>4. End(i) \in Nat
        BY <3>2, StreamNumbers
      <4>5. total \in Nat /\ HeadSize \in Nat /\ total' = total + HeadSize + l
        BY <1>0, ByteNumbers, HeadNumbers
      <4> QED BY <4>1, <4>2, <4>3, <4>4, <4>5, <1>0
    <3> QED BY <3>1, <3>2, Lengths
  <2>3. ASSUME NEW i \in 1 .. last, NEW j \in 1 .. last, i < j
        PROVE  End(i)' <= begins'[j]
    <3>1. i \in 1 .. Len(written)
      BY <2>3, Lengths
    <3>2. End(i)' = End(i)
      BY <3>1, <1>5
    <3>3. CASE j = last
      BY <3>1, <3>2, <3>3, <1>2 DEF FramingInv, StreamInv
    <3>4. CASE j \in 1 .. Len(written)
      BY <2>3, <3>1, <3>2, <3>4, <1>3 DEF FramingInv, StreamInv
    <3> QED BY <3>3, <3>4, Lengths
  <2> QED BY <1>2, <2>1, <2>2, <2>3, Lengths DEF StreamInv
<1>9. Len(out) <= Len(written)
  BY DEF FramingInv, ReaderInv
<1>10. Current' = Current /\ Offset' = Offset /\ HeadComplete' = HeadComplete
  BY <1>1 DEF Current, Offset, HeadComplete, headVars
<1>11. Begin(Current)' = Begin(Current)
  <2>1. Current \in 1 .. last
    BY <1>9, Lengths
  <2> QED BY <2>1, <1>7, <1>10
<1>12. HeadInv'
  BY <1>1, <1>10, <1>11 DEF FramingInv, ReaderInv, HeadInv, headVars
<1>13. BodyInv'
  <2> SUFFICES ASSUME headGot = HeadSize PROVE BodyInv'
    BY <1>1 DEF BodyInv, headVars
  <2>1. BodyInv /\ Len(out) < Len(written)
    BY DEF FramingInv, ReaderInv, BodyInv
  <2>2. Current \in 1 .. Len(written)
    BY <2>1, Lengths
  <2>3. written'[Current] = written[Current] /\ begins'[Current] = begins[Current]
    BY <2>2, <1>3
  <2>4. Len(out') < Len(written')
    BY <1>1, <1>2, <2>1, Lengths
  <2> QED BY <1>1, <1>10, <2>1, <2>3, <2>4 DEF BodyInv, bodyVars
<1>14. ReaderInv'
  <2>1. Len(out') <= Len(written')
    BY <1>1, <1>2, <1>9, Lengths
  <2> QED BY <1>1, <1>10, <1>12, <1>13, <2>1
          DEF FramingInv, ReaderInv, setupVars
<1>15. OutInv'
  <2>1. \A i \in 1 .. Len(out) : i \in 1 .. Len(written)
    BY <1>9, Lengths
  <2> QED BY <1>1, <1>3, <2>1 DEF FramingInv, OutInv
<1> QED BY <1>4, <1>8, <1>14, <1>15 DEF FramingInv

(* Steps that move no byte.                                                *)
LEMMA StillKeeps ==
  ASSUME FramingInv, SetupTypeOK',
         UNCHANGED <<written, begins, total, taken, chunk, headVars, bodyVars,
                     out>>,
         pc' \in {"new", "recv", "ended"} => chunk' = 0,
         pc' = "copy" => HeadComplete',
         pc' = "new" <=> accepter' = "listening"
  PROVE  FramingInv'
<1>1. FramingTypeOK'
  BY DEF FramingInv, TypeOK, FramingTypeOK, headVars, bodyVars
<1>2. StreamInv' /\ OutInv'
  BY DEF FramingInv, StreamInv, OutInv, Begin, End
<1>3. HeadInv' /\ BodyInv'
  BY DEF FramingInv, ReaderInv, HeadInv, BodyInv, Begin, Current, Offset,
     headVars, bodyVars
<1> QED BY <1>1, <1>2, <1>3 DEF FramingInv, ReaderInv, TypeOK

(* Steps that only change how the connection is set up or ends.            *)
LEMMA SetupKeeps ==
  ASSUME FramingInv,
         Finish \/ Break \/ Start \/ List \/ PassOnCallback \/ WhenRecvComplete
  PROVE  FramingInv'
<1>1. UNCHANGED <<written, begins, total, taken, chunk, headVars, bodyVars, out>>
  BY DEF Finish, Break, Start, List, PassOnCallback, WhenRecvComplete, streamVars
<1>2. SetupTypeOK /\ ReaderInv
  BY DEF FramingInv, TypeOK
<1>3. SetupTypeOK'
  BY <1>2, Zenon DEF SetupTypeOK, Finish, Break, Start, List, PassOnCallback,
     WhenRecvComplete, Registers, streamVars, setupVars
<1>4. /\ pc' \in {"new", "recv", "ended"} => chunk' = 0
      /\ pc' = "copy" => HeadComplete'
      /\ pc' = "new" <=> accepter' = "listening"
  BY <1>1, <1>2 DEF ReaderInv, SetupTypeOK, HeadComplete, headVars, Finish,
     Break, Start, List, PassOnCallback, WhenRecvComplete, setupVars, streamVars
<1> QED BY <1>1, <1>3, <1>4, StillKeeps

(* Steps of the receive thread that move no byte.                          *)
LEMMA IdleKeeps ==
  ASSUME FramingInv,
         RecvNothing \/ RecvFails \/ UsedUp \/ HasHead \/ NothingToCopy
  PROVE  FramingInv'
<1>1. UNCHANGED <<streamVars, chunk, headVars, bodyVars, out, setupVars>>
  BY DEF RecvNothing, RecvFails, UsedUp, HasHead, NothingToCopy
<1>2. SetupTypeOK /\ ReaderInv
  BY DEF FramingInv, TypeOK
<1>3. SetupTypeOK'
  BY <1>1, <1>2 DEF SetupTypeOK, streamVars, setupVars, RecvNothing, RecvFails,
     UsedUp, HasHead, NothingToCopy
<1>4. /\ pc' \in {"new", "recv", "ended"} => chunk' = 0
      /\ pc' = "copy" => HeadComplete'
      /\ pc' = "new" <=> accepter' = "listening"
  BY <1>1, <1>2 DEF ReaderInv, SetupTypeOK, HeadComplete, headVars, setupVars,
     RecvNothing, RecvFails, UsedUp, HasHead, NothingToCopy
<1> QED BY <1>1, <1>3, <1>4, StillKeeps DEF streamVars

LEMMA RecvKeeps ==
  ASSUME FramingInv, NEW n \in 1 .. BufferSize, Recv(n)
  PROVE  FramingInv'
<1>1. /\ taken' = taken + n /\ chunk' = n
      /\ pc = "recv" /\ pc' = "head"
      /\ UNCHANGED <<written, begins, total, link, headVars, bodyVars, out,
                     setupVars>>
  BY DEF Recv
<1>2. n \in Nat /\ n <= BufferSize /\ n <= total - taken
  BY ByteNumbers DEF Recv, Smaller
<1>3. chunk = 0
  BY <1>1 DEF FramingInv, ReaderInv
<1>4. TypeOK'
  <2>1. taken' \in 0 .. total' /\ chunk' \in 0 .. BufferSize
    BY <1>1, <1>2, ByteNumbers
  <2>2. FramingTypeOK'
    BY <1>1, <2>1 DEF FramingInv, TypeOK, FramingTypeOK, headVars, bodyVars
  <2>3. SetupTypeOK'
    BY <1>1 DEF FramingInv, TypeOK, SetupTypeOK, setupVars
  <2> QED BY <2>2, <2>3 DEF TypeOK
<1>5. StreamInv' /\ OutInv'
  BY <1>1 DEF FramingInv, StreamInv, OutInv, Begin, End
<1>6. Offset' = Offset /\ chunk' <= taken'
  BY <1>1, <1>2, <1>3, ByteNumbers DEF Offset
<1>7. HeadInv' /\ BodyInv'
  BY <1>1, <1>6 DEF FramingInv, ReaderInv, HeadInv, BodyInv, Begin, Current,
     headVars, bodyVars
<1> QED
  BY <1>1, <1>4, <1>5, <1>6, <1>7 DEF FramingInv, ReaderInv, setupVars

(* While a header is read its datagram has been written.                   *)
LEMMA CurrentWritten ==
  ASSUME FramingInv, chunk > 0, headGot < HeadSize
  PROVE  /\ Current \in 1 .. Len(written)
         /\ Begin(Current) = begins[Current]
         /\ begins[Current] \in Nat
         /\ Offset = begins[Current] + headGot
<1>1. Offset < total
  BY ByteNumbers DEF Offset
<1>2. Offset = Begin(Current) + headGot /\ Len(out) <= Len(written)
  BY DEF FramingInv, ReaderInv, HeadInv
<1>3. Len(out) # Len(written)
  <2> SUFFICES ASSUME Len(out) = Len(written) PROVE FALSE
    OBVIOUS
  <2>1. Begin(Current) = total
    BY Lengths DEF Begin
  <2> QED BY <1>1, <1>2, <2>1, ByteNumbers, HeadNumbers
<1>4. Current \in 1 .. Len(written)
  BY <1>2, <1>3, Lengths
<1>5. Begin(Current) = begins[Current]
  BY <1>4, Lengths DEF Begin
<1>6. begins[Current] \in Nat
  BY <1>4, StreamNumbers
<1> QED BY <1>2, <1>4, <1>5, <1>6

LEMMA AppendHeadKeeps ==
  ASSUME FramingInv, AppendHead
  PROVE  FramingInv'
<1> DEFINE n == Fits(HeadSize - headGot)
<1>1. chunk > 0 /\ headGot < HeadSize
  BY HeadNumbers DEF AppendHead, HeadComplete
<1>2. /\ Current \in 1 .. Len(written)
      /\ Begin(Current) = begins[Current]
      /\ begins[Current] \in Nat
      /\ Offset = begins[Current] + headGot
  BY <1>1, CurrentWritten
<1>3. /\ n \in Nat /\ n <= chunk /\ n <= HeadSize - headGot
      /\ n = chunk \/ n = HeadSize - headGot
  <2>1. HeadSize - headGot \in Nat
    BY <1>1, HeadNumbers
  <2> QED BY <2>1, FitsBounds
<1>4. /\ headGot' = headGot + n /\ chunk' = chunk - n
      /\ pc = "head"
      /\ UNCHANGED <<written, begins, total, taken, link, bodyStart, out, role,
                     accepter, callback, registered>>
  BY DEF AppendHead, streamVars, setupVars
<1>5. headStart' = begins[Current]
  <2>1. CASE headGot = 0
    BY <2>1, <1>2 DEF AppendHead
  <2>2. CASE headGot > 0
    <3>1. headStart = Begin(Current)
      BY <2>2, <1>1 DEF FramingInv, ReaderInv, HeadInv
    <3> QED BY <2>2, <3>1, <1>2 DEF AppendHead
  <2> QED BY <2>1, <2>2, HeadNumbers
<1>6. /\ headGot' \in 0 .. HeadSize /\ headGot' > 0
      /\ chunk' \in 0 .. BufferSize /\ chunk' <= taken'
      /\ Offset' = begins[Current] + headGot'
  <2>1. n > 0
    BY <1>1, <1>3, ByteNumbers, HeadNumbers
  <2>2. headGot' \in 0 .. HeadSize /\ headGot' > 0
    <3> HIDE DEF n
    <3> QED BY <2>1, <1>3, <1>4, HeadNumbers
  <2>3. chunk' \in 0 .. BufferSize /\ chunk' <= taken'
    BY <1>3, <1>4, TakesSome
  <2>4. Offset' = Offset + n
    BY <1>3, <1>4, TakesSome DEF Offset
  <2>5. Offset' = begins[Current] + headGot'
    <3> HIDE DEF n
    <3>1. /\ n \in Nat /\ begins[Current] \in Nat
          /\ Offset = begins[Current] + headGot /\ headGot' = headGot + n
      BY <1>2, <1>3, <1>4
    <3> QED BY <2>4, <3>1, HeadNumbers
  <2> QED BY <2>2, <2>3, <2>5
<1>7. StreamInv' /\ OutInv'
  BY <1>4 DEF FramingInv, StreamInv, OutInv, Begin, End
<1>8. Begin(Current)' = begins[Current] /\ Current' = Current
  BY <1>2, <1>4 DEF Begin, Current
<1>9. HeadInv'
  BY <1>4, <1>5, <1>6, <1>8 DEF HeadInv
<1>10. CASE headGot + n = HeadSize
  <2>1. bodySize' = written[Current] /\ bodyGot' = 0 /\ pc' = "copy"
    <3>1. bodySize' \in Decoded(begins[Current])
      BY <1>5, <1>10 DEF AppendHead
    <3>2. Decoded(begins[Current]) = {written[Current]}
      BY <1>2, DecodedRight
    <3> QED BY <3>1, <3>2, <1>10 DEF AppendHead
  <2>2. written[Current] \in Nat
    BY <1>2, StreamNumbers
  <2>3. FramingTypeOK'
    BY <1>2, <1>4, <1>5, <1>6, <2>1, <2>2
    DEF FramingInv, TypeOK, FramingTypeOK
  <2>4. SetupTypeOK'
    BY <1>4, <2>1 DEF FramingInv, TypeOK, SetupTypeOK
  <2>5. BodyInv'
    <3>1. Len(out') < Len(written')
      BY <1>2, <1>4, Lengths
    <3>2. bodySize' = written'[Current'] /\ (bodyGot' < bodySize' \/ bodySize' = 0)
      BY <2>1, <2>2, <1>4, <1>8
    <3>3. Offset' = begins'[Current'] + HeadSize + bodyGot'
      <4>1. headGot' = HeadSize /\ begins'[Current'] = begins[Current]
        BY <1>4, <1>8, <1>10
      <4> QED BY <4>1, <1>2, <1>6, <2>1, HeadNumbers
    <3> QED BY <2>1, <3>1, <3>2, <3>3 DEF BodyInv
  <2>6. ReaderInv'
    BY <1>4, <1>6, <1>9, <1>10, <2>1, <2>5
    DEF FramingInv, ReaderInv, HeadComplete
  <2> QED BY <1>7, <2>3, <2>4, <2>6 DEF FramingInv, TypeOK
<1>11. CASE headGot + n # HeadSize
  <2>1. bodySize' = bodySize /\ bodyGot' = bodyGot /\ pc' = "recv"
    BY <1>11 DEF AppendHead
  <2>2. chunk' = 0 /\ headGot' # HeadSize
    <3> HIDE DEF n
    <3>1. n = chunk
      BY <1>11, <1>3, HeadNumbers
    <3> QED BY <3>1, <1>4, <1>11, ByteNumbers
  <2>3. FramingTypeOK'
    BY <1>2, <1>4, <1>5, <1>6, <2>1 DEF FramingInv, TypeOK, FramingTypeOK
  <2>4. SetupTypeOK'
    BY <1>4, <2>1 DEF FramingInv, TypeOK, SetupTypeOK
  <2>5. BodyInv'
    BY <2>2 DEF BodyInv
  <2>6. ReaderInv'
    BY <1>4, <1>6, <1>9, <2>1, <2>2, <2>5
    DEF FramingInv, ReaderInv, HeadComplete
  <2> QED BY <1>7, <2>3, <2>4, <2>6 DEF FramingInv, TypeOK
<1> QED BY <1>10, <1>11

(* What is known when the thread is about to copy bytes of a body.         *)
LEMMA CopyFacts ==
  ASSUME FramingInv, pc = "copy", chunk > 0
  PROVE  /\ headGot = HeadSize
         /\ Current \in 1 .. Len(written)
         /\ bodySize = written[Current]
         /\ begins[Current] \in Nat
         /\ Offset = begins[Current] + HeadSize + bodyGot
         /\ BodyStart = begins[Current] + HeadSize
         /\ LET n == Fits(bodySize - bodyGot) IN
            /\ n \in Nat /\ n <= chunk /\ n <= bodySize - bodyGot
            /\ n = chunk \/ n = bodySize - bodyGot
<1>1. BodyInv /\ headGot = HeadSize
  BY DEF FramingInv, ReaderInv, HeadComplete
<1>2. Current \in 1 .. Len(written)
  BY <1>1, Lengths DEF BodyInv
<1>3. /\ bodySize = written[Current]
      /\ Offset = begins[Current] + HeadSize + bodyGot
      /\ bodyGot > 0 => bodyStart = begins[Current] + HeadSize
  BY <1>1 DEF BodyInv
<1>4. begins[Current] \in Nat
  BY <1>2, StreamNumbers
<1>5. BodyStart = begins[Current] + HeadSize
  BY <1>3, <1>4, HeadNumbers, BodyNumbers DEF BodyStart
<1>6. bodySize - bodyGot \in Nat
  BY BodyNumbers
<1> QED BY <1>1, <1>2, <1>3, <1>4, <1>5, <1>6, FitsBounds

LEMMA CopyPartKeeps ==
  ASSUME FramingInv, CopyPart
  PROVE  FramingInv'
<1> DEFINE n == Fits(bodySize - bodyGot)
<1>1. pc = "copy" /\ chunk > 0
  BY DEF CopyPart
<1>2. /\ headGot = HeadSize
      /\ Current \in 1 .. Len(written)
      /\ bodySize = written[Current]
      /\ begins[Current] \in Nat
      /\ Offset = begins[Current] + HeadSize + bodyGot
      /\ BodyStart = begins[Current] + HeadSize
      /\ n \in Nat /\ n <= chunk /\ n <= bodySize - bodyGot
  BY <1>1, CopyFacts
<1>3. /\ bodyGot' = bodyGot + n /\ chunk' = chunk - n
      /\ bodyStart' = begins[Current] + HeadSize
      /\ bodyGot + n # bodySize
      /\ pc' = "head"
      /\ UNCHANGED <<written, begins, total, taken, link, headStart, headGot,
                     bodySize, out, role, accepter, callback, registered>>
  BY <1>2 DEF CopyPart, streamVars, headVars, setupVars
<1>4. /\ bodyGot' \in 0 .. bodySize' /\ bodyGot' < bodySize'
      /\ bodyStart' \in Nat
      /\ chunk' \in 0 .. BufferSize /\ chunk' <= taken'
      /\ Offset' = begins[Current] + HeadSize + bodyGot'
  <2>2. bodyGot' \in 0 .. bodySize' /\ bodyGot' < bodySize'
    <3> HIDE DEF n
    <3>1. /\ n \in Nat /\ n <= bodySize - bodyGot /\ bodyGot + n # bodySize
          /\ bodyGot' = bodyGot + n /\ bodySize' = bodySize
      BY <1>2, <1>3
    <3> QED BY <3>1, BodyNumbers
  <2>3. chunk' \in 0 .. BufferSize /\ chunk' <= taken'
    BY <1>2, <1>3, TakesSome
  <2>4. Offset' = Offset + n
    BY <1>2, <1>3, TakesSome DEF Offset
  <2>5. bodyStart' \in Nat
    BY <1>2, <1>3, HeadNumbers
  <2>6. Offset' = begins[Current] + HeadSize + bodyGot'
    <3> HIDE DEF n
    <3>1. begins[Current] + HeadSize \in Nat
      BY <1>2, HeadNumbers
    <3>2. /\ n \in Nat /\ Offset = (begins[Current] + HeadSize) + bodyGot
          /\ bodyGot' = bodyGot + n
      BY <1>2, <1>3
    <3> QED BY <2>4, <3>1, <3>2, BodyNumbers
  <2> QED BY <2>2, <2>3, <2>5, <2>6
<1>5. FramingTypeOK'
  BY <1>3, <1>4 DEF FramingInv, TypeOK, FramingTypeOK
<1>6. SetupTypeOK'
  BY <1>3 DEF FramingInv, TypeOK, SetupTypeOK
<1>7. StreamInv' /\ OutInv'
  BY <1>3 DEF FramingInv, StreamInv, OutInv, Begin, End
<1>8. HeadInv'
  BY <1>2, <1>3, HeadNumbers DEF HeadInv
<1>9. BodyInv'
  <2>1. Current' = Current /\ Len(out) < Len(written)
    BY <1>2, <1>3, Lengths DEF Current
  <2> QED BY <1>2, <1>3, <1>4, <2>1 DEF BodyInv
<1>10. ReaderInv'
  BY <1>1, <1>2, <1>3, <1>4, <1>8, <1>9 DEF FramingInv, ReaderInv, HeadComplete
<1> QED BY <1>5, <1>6, <1>7, <1>10 DEF FramingInv, TypeOK

LEMMA CopyAndCallKeeps ==
  ASSUME FramingInv, CopyAndCall
  PROVE  FramingInv'
<1> DEFINE n == Fits(bodySize - bodyGot)
           frame == [start |-> BodyStart, size |-> bodySize,
                     handed |-> callback, registered |-> registered]
<1>1. pc = "copy" /\ chunk > 0
  BY DEF CopyAndCall
<1>2. /\ headGot = HeadSize
      /\ Current \in 1 .. Len(written)
      /\ bodySize = written[Current]
      /\ begins[Current] \in Nat
      /\ Offset = begins[Current] + HeadSize + bodyGot
      /\ BodyStart = begins[Current] + HeadSize
      /\ n \in Nat /\ n <= chunk
  BY <1>1, CopyFacts
<1>3. /\ out' = Append(out, frame)
      /\ chunk' = chunk - n
      /\ bodyGot + n = bodySize
      /\ headGot' = 0 /\ bodyStart' = 0 /\ bodyGot' = 0 /\ bodySize' = 0
      /\ pc' = "head"
      /\ UNCHANGED <<written, begins, total, taken, link, headStart, role,
                     accepter, callback, registered>>
  BY DEF CopyAndCall, HeadReset, streamVars, setupVars
<1>4. frame \in Frame
  <2>1. BodyStart \in Nat /\ bodySize \in Nat
    <3>1. begins[Current] + HeadSize \in Nat
      BY <1>2, HeadNumbers
    <3> QED BY <3>1, <1>2, BodyNumbers
  <2>2. callback \in BOOLEAN /\ registered \in BOOLEAN
    BY DEF FramingInv, TypeOK, SetupTypeOK
  <2> QED BY <2>1, <2>2, Zenon DEF Frame
<1>5. /\ out' \in Seq(Frame)
      /\ Len(out') = Len(out) + 1
      /\ out'[Len(out) + 1] = frame
      /\ \A i \in 1 .. Len(out) : out'[i] = out[i]
  <2>1. out \in Seq(Frame)
    BY DEF FramingInv, TypeOK, FramingTypeOK
  <2> HIDE DEF frame
  <2> QED BY <1>3, <1>4, <2>1
<1>6. /\ chunk' \in 0 .. BufferSize /\ chunk' <= taken'
      /\ Offset' = End(Current) /\ End(Current) \in Nat
  <2>2. chunk' \in 0 .. BufferSize /\ chunk' <= taken'
    BY <1>2, <1>3, TakesSome
  <2>3. Offset' = Offset + n
    BY <1>2, <1>3, TakesSome DEF Offset
  <2>4. End(Current) = begins[Current] + HeadSize + bodySize
    BY <1>2 DEF End
  <2>5. End(Current) = Offset'
    <3> HIDE DEF n
    <3>1. begins[Current] + HeadSize \in Nat
      BY <1>2, HeadNumbers
    <3>2. /\ n \in Nat /\ Offset = (begins[Current] + HeadSize) + bodyGot
          /\ bodySize = bodyGot + n
      BY <1>2, <1>3
    <3> QED BY <2>3, <2>4, <3>1, <3>2, BodyNumbers
  <2>6. End(Current) \in Nat
    BY <1>2, StreamNumbers
  <2> QED BY <2>2, <2>5, <2>6
<1>7. FramingTypeOK'
  BY <1>3, <1>5, <1>6, HeadNumbers DEF FramingInv, TypeOK, FramingTypeOK
<1>8. SetupTypeOK'
  BY <1>3 DEF FramingInv, TypeOK, SetupTypeOK
<1>9. StreamInv'
  BY <1>3 DEF FramingInv, StreamInv, Begin, End
<1>10. OutInv'
  <2>1. ASSUME NEW i \in 1 .. Len(out) + 1
        PROVE  /\ out'[i].size = written[i]
               /\ out'[i].size = 0 \/ out'[i].start = begins[i] + HeadSize
    <3>1. CASE i = Len(out) + 1
      BY <3>1, <1>2, <1>5, Lengths
    <3>2. CASE i \in 1 .. Len(out)
      BY <3>2, <1>5 DEF FramingInv, OutInv
    <3> QED BY <3>1, <3>2, Lengths
  <2> QED BY <1>3, <1>5, <2>1 DEF OutInv
<1>11. HeadInv'
  <2>1. Begin(Current + 1) = End(Current)
    BY <1>2 DEF FramingInv, StreamInv
  <2>2. Current' = Current + 1
    BY <1>5 DEF Current
  <2>3. Begin(Current)' = Begin(Current + 1)
    BY <1>3, <2>2 DEF Begin
  <2> QED BY <1>3, <1>6, <2>1, <2>3 DEF HeadInv
<1>12. BodyInv'
  BY <1>3, HeadNumbers DEF BodyInv
<1>13. ReaderInv'
  <2>1. Len(out') <= Len(written')
    BY <1>2, <1>3, <1>5, Lengths
  <2> QED BY <1>1, <1>3, <1>6, <1>11, <1>12, <2>1
          DEF FramingInv, ReaderInv, HeadComplete
<1> QED BY <1>7, <1>8, <1>9, <1>10, <1>13 DEF FramingInv, TypeOK

LEMMA NextKeeps == FramingInv /\ [Next]_vars => FramingInv'
<1> SUFFICES ASSUME FramingInv, [Next]_vars PROVE FramingInv'
  OBVIOUS
<1>1. CASE UNCHANGED vars
  <2>1. SetupTypeOK /\ ReaderInv
    BY DEF FramingInv, TypeOK
  <2>2. UNCHANGED <<streamVars, pc, chunk, headVars, bodyVars, out, setupVars>>
    BY <1>1 DEF vars
  <2>3. SetupTypeOK'
    BY <2>1, <2>2 DEF SetupTypeOK, streamVars, setupVars
  <2> QED BY <2>1, <2>2, <2>3, StillKeeps
          DEF streamVars, headVars, setupVars, ReaderInv, HeadComplete
<1>2. ASSUME NEW l \in Length, Send(l) PROVE FramingInv'
  BY <1>2, SendKeeps
<1>3. CASE Finish \/ Break \/ Start \/ List \/ PassOnCallback \/ WhenRecvComplete
  BY <1>3, SetupKeeps
<1>4. ASSUME NEW n \in 1 .. BufferSize, Recv(n) PROVE FramingInv'
  BY <1>4, RecvKeeps
<1>5. CASE RecvNothing \/ RecvFails \/ UsedUp \/ HasHead \/ NothingToCopy
  BY <1>5, IdleKeeps
<1>6. CASE AppendHead
  BY <1>6, AppendHeadKeeps
<1>7. CASE CopyPart
  BY <1>7, CopyPartKeeps
<1>8. CASE CopyAndCall
  BY <1>8, CopyAndCallKeeps
<1> QED
  BY <1>1, <1>2, <1>3, <1>4, <1>5, <1>6, <1>7, <1>8 DEF Next, Receive, Push

LEMMA FramingInvariant == Spec => []FramingInv
BY InitInv, NextKeeps, PTL DEF Spec

-----------------------------------------------------------------------------
(* The state keeps its types.                                              *)
THEOREM FramingTypeCorrect == Spec => []TypeOK
BY FramingInvariant, PTL DEF FramingInv

(* No datagram that has arrived is held back when push() returns, wherever *)
(* recv() cut the stream (lines 274 to 326).                               *)
THEOREM HoldsNothingBack == Spec => []NothingHeldBack
<1>1. FramingInv => NothingHeldBack
  <2> SUFFICES ASSUME FramingInv, pc = "recv",
                      NEW i \in 1 .. Len(written),
                      Arrived(i),
                      Positive(i) \/ begins[i] + HeadSize < taken,
                      i > Len(out)
               PROVE  FALSE
    <3>1. DOMAIN written = 1 .. Len(written)
      BY DEF FramingInv, TypeOK, FramingTypeOK
    <3> QED BY <3>1, Lengths DEF NothingHeldBack
  <2>1. Current \in 1 .. Len(written)
    BY Lengths
  <2>2. /\ begins[i] \in Nat /\ written[i] \in Nat
        /\ begins[Current] \in Nat /\ written[Current] \in Nat
    BY <2>1, StreamNumbers
  <2>3. Offset = taken
    <3>1. chunk = 0
      BY DEF FramingInv, ReaderInv
    <3> QED BY <3>1, ByteNumbers DEF Offset
  <2>4. i = Current \/ End(Current) <= begins[i]
    BY <2>1, Lengths DEF FramingInv, StreamInv
  <2>5. begins[i] + HeadSize + written[i] <= taken
    BY DEF Arrived
  <2>6. End(Current) = begins[Current] + HeadSize + written[Current]
    BY DEF End
  <2>7. written[i] > 0 \/ begins[i] + HeadSize < taken
    BY DEF Positive
  <2>8. CASE headGot < HeadSize
    <3>1. taken = begins[Current] + headGot
      BY <2>1, <2>3, <2>8, Lengths DEF FramingInv, ReaderInv, HeadInv, Begin
    <3>2. taken < begins[Current] + HeadSize
      BY <3>1, <2>2, <2>8, HeadNumbers
    <3>3. begins[Current] <= begins[i]
      BY <2>2, <2>4, <2>6, HeadNumbers
    <3>4. taken \in Nat
      BY ByteNumbers
    <3>5. begins[Current] + HeadSize <= taken
      <4>1. begins[i] + HeadSize <= taken
        BY <2>2, <2>5, HeadNumbers, ByteNumbers
      <4> QED BY <4>1, <3>3, <3>4, <2>2, HeadNumbers
    <3> QED BY <3>2, <3>4, <3>5, <2>2, HeadNumbers
  <2>9. CASE headGot = HeadSize
    <3>1. /\ taken = begins[Current] + HeadSize + bodyGot
          /\ bodySize = written[Current]
          /\ bodyGot < bodySize \/ bodySize = 0
      BY <2>3, <2>9 DEF FramingInv, ReaderInv, BodyInv
    <3>2. CASE i = Current
      <4>1. begins[i] + HeadSize \in Nat
        BY <2>2, HeadNumbers
      <4>2. taken = (begins[i] + HeadSize) + bodyGot /\ bodySize = written[i]
        BY <3>1, <3>2
      <4>3. written[i] <= bodyGot
        BY <4>1, <4>2, <2>2, <2>5, BodyNumbers
      <4>4. written[i] = 0 /\ bodyGot = 0
        BY <4>2, <4>3, <3>1, <2>2, BodyNumbers
      <4> QED BY <4>1, <4>2, <4>4, <2>7
    <3>3. CASE End(Current) <= begins[i]
      <4>1. taken <= End(Current) /\ End(Current) \in Nat
        <5>1. bodyGot <= written[Current] /\ bodyGot \in Nat
          BY <3>1, BodyNumbers
        <5>2. begins[Current] + HeadSize \in Nat
          BY <2>2, HeadNumbers
        <5> QED BY <3>1, <5>1, <5>2, <2>2, <2>6
      <4>2. begins[i] < taken
        BY <2>2, <2>5, HeadNumbers, ByteNumbers
      <4> QED BY <4>1, <4>2, <3>3, <2>2, ByteNumbers
    <3> QED BY <3>2, <3>3, <2>4
  <2> QED BY <2>8, <2>9, HeadNumbers
<1> QED BY <1>1, FramingInvariant, PTL

-----------------------------------------------------------------------------
(* What the application has set on a connection that was set up stays, and *)
(* what comes out after that is handed over.                               *)
HandedInv ==
  /\ role = "client" => accepter \in {"listening", "done"}
  /\ registered => callback /\ (role = "client" \/ accepter = "done")
  /\ \A i \in 1 .. Len(out) : out[i].registered => out[i].handed

LEMMA HandedStep ==
  TypeOK /\ HandedInv /\ [Next]_vars => HandedInv'
<1> SUFFICES ASSUME TypeOK, HandedInv, [Next]_vars PROVE HandedInv'
  OBVIOUS
<1>1. CASE CopyAndCall
  <2>1. UNCHANGED setupVars
    BY <1>1 DEF CopyAndCall
  <2>2. PICK f : /\ out' = Append(out, f)
                 /\ f.handed = callback /\ f.registered = registered
    BY <1>1 DEF CopyAndCall
  <2>3. out \in Seq(Frame)
    BY DEF TypeOK, FramingTypeOK
  <2>4. /\ Len(out') = Len(out) + 1 /\ out'[Len(out) + 1] = f
        /\ \A i \in 1 .. Len(out) : out'[i] = out[i]
    BY <2>2, <2>3
  <2>5. \A i \in 1 .. Len(out') : out'[i].registered => out'[i].handed
    <3> SUFFICES ASSUME NEW i \in 1 .. Len(out')
                 PROVE  out'[i].registered => out'[i].handed
      OBVIOUS
    <3>1. i \in 1 .. Len(out) \/ i = Len(out) + 1
      BY <2>3, <2>4
    <3> QED BY <3>1, <2>2, <2>4, Zenon DEF HandedInv
  <2> QED BY <2>1, <2>5 DEF HandedInv, setupVars
<1>2. CASE Start \/ List \/ PassOnCallback \/ WhenRecvComplete
  <2>1. out' = out /\ role' = role /\ role \in {"client", "server"}
    BY <1>2 DEF Start, List, PassOnCallback, WhenRecvComplete, TypeOK, SetupTypeOK
  <2>2. CASE Start \/ List \/ PassOnCallback
    <3>1. role' = "client" => accepter' \in {"listening", "done"}
      BY <2>1, <2>2 DEF HandedInv, Start, List, PassOnCallback
    <3>2. registered' => role' = "client" \/ accepter' = "done"
      BY <2>1, <2>2 DEF HandedInv, Start, List, PassOnCallback
    <3>3. registered' => callback'
      BY <2>1, <2>2 DEF HandedInv, Start, List, PassOnCallback
    <3> QED BY <2>1, <3>1, <3>2, <3>3, Zenon DEF HandedInv
  <2>3. CASE WhenRecvComplete
    <3>1. registered' => role = "client" \/ accepter = "done"
      BY <2>3, Zenon DEF WhenRecvComplete
    <3>2. registered' => callback'
      BY <2>3, <3>1, Zenon DEF WhenRecvComplete, Registers
    <3>3. accepter' = accepter
      BY <2>3 DEF WhenRecvComplete
    <3> QED BY <2>1, <3>1, <3>2, <3>3, Zenon DEF HandedInv
  <2> QED BY <1>2, <2>2, <2>3
<1>3. CASE UNCHANGED <<out, setupVars>>
  BY <1>3 DEF HandedInv, setupVars
<1>4. ASSUME \/ (\E l \in Length : Send(l)) \/ Finish \/ Break
             \/ (\E n \in 1 .. BufferSize : Recv(n)) \/ RecvNothing \/ RecvFails
      PROVE  UNCHANGED <<out, setupVars>>
  BY <1>4 DEF Send, Finish, Break, Recv, RecvNothing, RecvFails
<1>5. ASSUME UsedUp \/ HasHead \/ AppendHead \/ NothingToCopy \/ CopyPart
      PROVE  UNCHANGED <<out, setupVars>>
  BY <1>5 DEF UsedUp, HasHead, AppendHead, NothingToCopy, CopyPart
<1>6. UNCHANGED vars => UNCHANGED <<out, setupVars>>
  BY DEF vars
<1> QED
  BY <1>1, <1>2, <1>3, <1>4, <1>5, <1>6, Zenon DEF Next, Receive, Push

LEMMA HandedInvariant == Spec => []HandedInv
<1>1. Init => HandedInv
  BY DEF Init, HandedInv
<1>2. FramingInv => TypeOK
  BY DEF FramingInv
<1> QED BY <1>1, <1>2, HandedStep, FramingInvariant, PTL DEF Spec

LEMMA PassedRight ==
  ASSUME FramingInv, HandedInv, NEW i \in 1 .. Len(out)
  PROVE  Passed(i) = written[i]
<1>1. i \in DOMAIN begins
  BY DEF FramingInv, TypeOK, StreamInv, ReaderInv
<1>2. out[i].registered => out[i].handed
  BY Zenon DEF HandedInv
<1> QED BY <1>1, <1>2, Zenon DEF FramingInv, OutInv, Passed

(* Every step is a step of FrameFifo or leaves it alone.                   *)
LEMMA StepImplements ==
  FramingInv /\ FramingInv' /\ HandedInv /\ HandedInv' /\ [Next]_vars
    => [Fifo!Next]_Fifo!vars
<1> SUFFICES ASSUME FramingInv, FramingInv', HandedInv, HandedInv', [Next]_vars
             PROVE  [Fifo!Next]_Fifo!vars
  OBVIOUS
<1> DEFINE passed == [i \in DOMAIN out |-> Passed(i)]
<1>0. DOMAIN out = 1 .. Len(out) /\ Len(out) \in Nat
  BY DEF FramingInv, TypeOK
<1>1. passed = [i \in 1 .. Len(out) |-> written[i]]
  BY <1>0, PassedRight
<1>2. passed' = [i \in 1 .. Len(out') |-> written'[i]]
  <2>1. DOMAIN out' = 1 .. Len(out')
    BY DEF FramingInv, TypeOK
  <2>2. ASSUME NEW i \in 1 .. Len(out') PROVE Passed(i)' = written'[i]
    <3>1. i \in DOMAIN begins'
      BY DEF FramingInv, TypeOK, StreamInv, ReaderInv
    <3>2. out'[i].registered => out'[i].handed
      BY Zenon DEF HandedInv
    <3> QED BY <3>1, <3>2, Zenon DEF FramingInv, OutInv, Passed
  <2> QED BY <2>1, <2>2
<1>3. Len(out) <= Len(written)
  BY DEF FramingInv, ReaderInv
<1>4. ASSUME NEW l \in Length, Send(l) PROVE Fifo!Write
  <2>1. written' = Append(written, l) /\ out' = out
    BY <1>4 DEF Send
  <2>2. passed' = passed
    BY <1>1, <1>2, <1>3, <2>1 DEF FramingInv, TypeOK
  <2> QED BY <2>1, <2>2 DEF Fifo!Write
<1>5. CASE CopyAndCall
  <2>1. /\ written' = written
        /\ Len(out') = Len(out) + 1
    BY <1>5 DEF CopyAndCall, FramingInv, TypeOK, streamVars
  <2>2. Len(out) < Len(written)
    BY <2>1 DEF FramingInv, ReaderInv, TypeOK
  <2>3. passed' = Append(passed, written[Len(passed) + 1])
    BY <1>0, <1>1, <1>2, <2>1
  <2>4. Len(passed) = Len(out)
    BY <1>0, <1>1
  <2> QED BY <2>1, <2>2, <2>3, <2>4 DEF Fifo!Next, Fifo!Pass
<1>6. CASE UNCHANGED <<written, begins, out>>
  BY <1>6, <1>1, <1>2 DEF Fifo!vars
<1> QED
  BY <1>4, <1>5, <1>6 DEF Next, Receive, Push, Fifo!Next, vars, streamVars,
     Finish, Break, Start, List, PassOnCallback, WhenRecvComplete, Recv,
     RecvNothing, RecvFails, UsedUp, HasHead, AppendHead, NothingToCopy, CopyPart

(* A connection is a FIFO of whole datagrams (lines 274 to 326).           *)
THEOREM FramingImplementation == Spec => ImplementsFifo
<1>1. Init => Fifo!Init
  <2> SUFFICES ASSUME Init PROVE Fifo!Init
    OBVIOUS
  <2>1. DOMAIN out = {} BY DEF Init
  <2>2. [i \in DOMAIN out |-> Passed(i)] = <<>>
    BY <2>1
  <2> QED BY <2>2 DEF Init, Fifo!Init
<1> QED BY <1>1, FramingInvariant, HandedInvariant, StepImplements, PTL
        DEF Spec, ImplementsFifo, Fifo!Spec
=============================================================================
