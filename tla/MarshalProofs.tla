---------------------------- MODULE MarshalProofs ----------------------------
(***************************************************************************)
(* For every signature, all values and all lengths: what is written of a   *)
(* row of values is read as that row, a message arrives as its block, and  *)
(* so a call runs on its arguments and returns or raises what the server   *)
(* made of it.                                                             *)
(*                                                                         *)
(* The functions that write, read and walk are recursive.  Each is shown   *)
(* to exist (StepsExist, WalkExists) and then equal to what it ought to    *)
(* be, step by step, by induction over a set of numbers (SetInduction).    *)
(***************************************************************************)
EXTENDS Marshal, TLAPS, WellFoundedInduction, SequenceTheorems

(* Induction over numbers, in the form of sets.                            *)
LEMMA SetInduction ==
  ASSUME NEW T, T \subseteq Nat, 0 \in T, \A n \in T : n + 1 \in T
  PROVE  T = Nat
<1> SUFFICES ASSUME Nat \ T # {}
             PROVE  FALSE
  OBVIOUS
<1> DEFINE R == OpToRel(<, Nat)
           U == Nat \ T
<1>1. IsWellFoundedOn(R, Nat)
  BY NatLessThanWellFounded
<1>2. R = {ss \in Nat \X Nat : ss[1] < ss[2]}
  BY DEF OpToRel
<1> HIDE DEF R
<1>3. U \subseteq Nat /\ U # {}
  OBVIOUS
<1>4. PICK x \in U : \A y \in U : ~ (<<y, x>> \in R)
  BY <1>1, <1>3, WFMin
<1>5. x \in Nat /\ x # 0
  OBVIOUS
<1>6. x - 1 \in Nat /\ <<x - 1, x>> \in R
  BY <1>2, <1>5
<1>7. x - 1 \in T
  BY <1>4, <1>6
<1>8. x - 1 + 1 \in T
  BY <1>7
<1> QED
  BY <1>5, <1>8

(* f is what the steps F make of base, one after the other.                *)
Runs(f, n, S, base, F) ==
  /\ f \in [0 .. n -> S] /\ f[0] = base
  /\ \A i \in 1 .. n : f[i] = F[i][f[i - 1]]

(* A step function can be run for n steps.                                 *)
LEMMA StepsExist ==
  ASSUME NEW n \in Nat, NEW S, NEW base \in S, NEW F \in [1 .. n -> [S -> S]]
  PROVE  \E f : Runs(f, n, S, base, F)
<1> DEFINE Is(f, k) == /\ f \in [0 .. n -> S]
                       /\ f[0] = base
                       /\ \A i \in 1 .. n : i <= k => f[i] = F[i][f[i - 1]]
           T == {k \in Nat : \E f : Is(f, k)}
<1>1. 0 \in T
  <2>1. Is([i \in 0 .. n |-> base], 0)
    OBVIOUS
  <2> QED
    BY <2>1
<1>2. ASSUME NEW k \in T PROVE k + 1 \in T
  <2>0. k \in Nat
    OBVIOUS
  <2>1. PICK f : Is(f, k)
    OBVIOUS
  <2>2. CASE k + 1 > n
    <3>1. Is(f, k + 1)
      BY <2>0, <2>1, <2>2
    <3> QED
      BY <2>0, <3>1
  <2>3. CASE k + 1 <= n
    <3> DEFINE g == [f EXCEPT ![k + 1] = F[k + 1][f[k]]]
    <3>1. k \in 0 .. n /\ k + 1 \in 1 .. n /\ k + 1 \in 0 .. n /\ k + 1 # 0
      BY <2>0, <2>3
    <3>2. f[k] \in S /\ F[k + 1] \in [S -> S]
      BY <2>1, <3>1
    <3>3. F[k + 1][f[k]] \in S
      BY <3>2
    <3>4. g \in [0 .. n -> S]
      BY <2>1, <3>1, <3>3
    <3>5. /\ g[k + 1] = F[k + 1][f[k]]
          /\ \A i \in 0 .. n : i # k + 1 => g[i] = f[i]
      BY <2>1, <3>1
    <3> HIDE DEF g
    <3>6. g[0] = base
      BY <2>1, <3>1, <3>5
    <3>7. ASSUME NEW i \in 1 .. n, i <= k + 1
          PROVE  g[i] = F[i][g[i - 1]]
      <4>1. i - 1 \in 0 .. n /\ i - 1 # k + 1 /\ g[i - 1] = f[i - 1]
        BY <2>0, <3>5, <3>7
      <4>2. CASE i = k + 1
        BY <2>0, <3>5, <4>1, <4>2
      <4>3. CASE i # k + 1
        <5>1. i <= k /\ i \in 0 .. n
          BY <2>0, <3>7, <4>3
        <5>2. f[i] = F[i][f[i - 1]]
          BY <2>1, <5>1
        <5> QED
          BY <3>5, <4>1, <4>3, <5>1, <5>2
      <4> QED
        BY <4>2, <4>3
    <3>8. Is(g, k + 1)
      BY <3>4, <3>6, <3>7
    <3> QED
      BY <2>0, <3>8
  <2> QED
    BY <2>0, <2>2, <2>3
<1>3. n \in T
  <2> HIDE DEF Is
  <2>1. T \subseteq Nat
    OBVIOUS
  <2>2. T = Nat
    BY <1>1, <1>2, <2>1, SetInduction
  <2> QED
    BY <2>2
<1>4. PICK f : Is(f, n)
  BY <1>3
<1> QED
  BY <1>4 DEF Runs

-----------------------------------------------------------------------------

(* What the bytes of a block can be, and a block.                          *)
AnyByte ==
  {Byte(c, i) : c \in Letter, i \in Nat} \cup {<<"word", n>> : n \in Nat}
    \cup {<<"head", i>> : i \in Nat} \cup {Zero, Garbage, <<"broken">>}

Block == Seq(AnyByte)

(* A function on 1 .. n is a sequence of n elements.                       *)
LEMMA FunctionIsSequence ==
  ASSUME NEW S, NEW n \in Nat, NEW f \in [1 .. n -> S]
  PROVE  f \in Seq(S) /\ Len(f) = n
<1>1. f \in Seq(S)
  BY SeqDef
<1>2. Len(f) \in Nat /\ DOMAIN f = 1 .. Len(f)
  BY <1>1, LenProperties
<1>3. DOMAIN f = 1 .. n
  OBVIOUS
<1>4. Len(f) = n
  BY <1>2, <1>3
<1> QED
  BY <1>1, <1>4

(* Align rounds up, and does nothing to what is aligned.                   *)
LEMMA AlignIs ==
  ASSUME NEW n \in Nat
  PROVE  Align(n) \in Nat /\ n <= Align(n) /\ Align(Align(n)) = Align(n)
<1> DEFINE q == (n + 3) \div 4
<1>1. Align(n) = q * 4
  BY DEF Align, Word
<1>2. q \in Nat /\ n <= q * 4
  OBVIOUS
<1> HIDE DEF q
<1>3. Align(q * 4) = ((q * 4 + 3) \div 4) * 4
  BY <1>2 DEF Align, Word
<1>4. (q * 4 + 3) \div 4 = q
  BY <1>2
<1> QED
  BY <1>1, <1>2, <1>3, <1>4

(* The bytes of a word.                                                    *)
LEMMA WordBytesIs ==
  ASSUME NEW n \in Nat
  PROVE  /\ WordBytes(n) \in Block /\ Len(WordBytes(n)) = Word
         /\ \A i \in 1 .. Word : WordBytes(n)[i] = <<"word", n>>
<1>1. WordBytes(n) \in [1 .. Word -> AnyByte]
  BY DEF WordBytes, AnyByte
<1>2. Word \in Nat
  BY DEF Word
<1> QED
  BY <1>1, <1>2, FunctionIsSequence DEF Block, WordBytes

(* As many bytes as are asked for, those of the block where it has any.    *)
LEMMA BytesIs ==
  ASSUME NEW block \in Block, NEW at \in Nat, NEW n \in Nat
  PROVE  /\ Bytes(block, at, n) \in Block /\ Len(Bytes(block, at, n)) = n
         /\ \A i \in 1 .. n : at + i <= Len(block) =>
                                Bytes(block, at, n)[i] = block[at + i]
<1>1. Len(block) \in Nat /\ \A i \in 1 .. Len(block) : block[i] \in AnyByte
  BY LenProperties, ElementOfSeq DEF Block
<1>2. Garbage \in AnyByte
  BY DEF AnyByte
<1>3. Bytes(block, at, n) \in [1 .. n -> AnyByte]
  BY <1>1, <1>2 DEF Bytes
<1>4. \A i \in 1 .. n : at + i <= Len(block) =>
                          Bytes(block, at, n)[i] = block[at + i]
  BY DEF Bytes
<1> QED
  BY <1>3, <1>4, FunctionIsSequence DEF Block

(* A piece that stands somewhere in a block.                               *)
Stands(block, at, piece) ==
  /\ at + Len(piece) <= Len(block)
  /\ \A i \in 1 .. Len(piece) : block[at + i] = piece[i]

(* What stands somewhere can be taken from there.                          *)
LEMMA BytesOfPiece ==
  ASSUME NEW block \in Block, NEW at \in Nat, NEW piece \in Block,
         Stands(block, at, piece)
  PROVE  Bytes(block, at, Len(piece)) = piece
<1>1. Len(piece) \in Nat /\ Len(block) \in Nat
  BY LenProperties DEF Block
<1> DEFINE b == Bytes(block, at, Len(piece))
<1>2. /\ b \in Block /\ Len(b) = Len(piece)
      /\ \A i \in 1 .. Len(piece) : at + i <= Len(block) => b[i] = block[at + i]
  BY <1>1, BytesIs
<1> HIDE DEF b
<1>3. \A i \in 1 .. Len(b) : b[i] = piece[i]
  BY <1>1, <1>2 DEF Stands
<1>4. b = piece
  BY <1>2, <1>3, SeqEqual DEF Block
<1> QED
  BY <1>4 DEF b

(* Whatever stands in a block, a word read from it is a number.            *)
LEMMA WordAtIsNat ==
  ASSUME NEW block \in Block, NEW at \in Nat
  PROVE  WordAt(block, at) \in Nat
<1> DEFINE bytes == Bytes(block, at, Word)
<1>0. Word \in Nat /\ 1 \in 1 .. Word
  BY DEF Word
<1>1. bytes \in Block /\ Len(bytes) = Word /\ 1 \in 1 .. Word
  BY <1>0, BytesIs
<1>2. bytes[1] \in AnyByte
  BY <1>1, ElementOfSeq DEF Block
<1>3. bytes[1][1] = "word" => bytes[1][2] \in Nat
  BY <1>2 DEF AnyByte, Byte, Zero, Garbage
<1> HIDE DEF bytes
<1>4. WordAt(block, at) = IF bytes[1][1] = "word" /\ bytes = WordBytes(bytes[1][2])
                          THEN bytes[1][2] ELSE 0
  BY DEF WordAt, bytes
<1> QED
  BY <1>3, <1>4

(* A word that stands in a block is read as the number it is of.           *)
LEMMA WordAtIs ==
  ASSUME NEW block \in Block, NEW at \in Nat, NEW n \in Nat,
         Stands(block, at, WordBytes(n))
  PROVE  WordAt(block, at) = n
<1>1. /\ WordBytes(n) \in Block /\ Len(WordBytes(n)) = Word
      /\ WordBytes(n)[1] = <<"word", n>>
  BY WordBytesIs DEF Word
<1>2. Bytes(block, at, Word) = WordBytes(n)
  BY <1>1, BytesOfPiece
<1> QED
  BY <1>1, <1>2 DEF WordAt

(* Pieces of a concatenation stand where they were put.                    *)
LEMMA ConcatStands ==
  ASSUME NEW a \in Block, NEW b \in Block
  PROVE  /\ a \o b \in Block /\ Len(a \o b) = Len(a) + Len(b)
         /\ Stands(a \o b, 0, a) /\ Stands(a \o b, Len(a), b)
<1>1. /\ a \o b \in Block /\ Len(a \o b) = Len(a) + Len(b)
      /\ \A i \in 1 .. Len(a) + Len(b) :
           (a \o b)[i] = IF i <= Len(a) THEN a[i] ELSE b[i - Len(a)]
  BY ConcatProperties DEF Block
<1>2. Len(a) \in Nat /\ Len(b) \in Nat
  BY LenProperties DEF Block
<1> DEFINE c == a \o b
<1> HIDE DEF c
<1>3. /\ c \in Block /\ Len(c) = Len(a) + Len(b)
      /\ \A i \in 1 .. Len(a) + Len(b) :
           c[i] = IF i <= Len(a) THEN a[i] ELSE b[i - Len(a)]
  BY <1>1 DEF c
<1>4. Stands(c, 0, a)
  BY <1>2, <1>3 DEF Stands
<1>5. ASSUME NEW i \in 1 .. Len(b)
      PROVE  c[Len(a) + i] = b[i]
  <2>1. c[Len(a) + i] = b[Len(a) + i - Len(a)]
    BY <1>2, <1>3
  <2>2. Len(a) + i - Len(a) = i
    BY <1>2
  <2> QED
    BY <2>1, <2>2
<1>6. Stands(c, Len(a), b)
  BY <1>2, <1>3, <1>5 DEF Stands
<1> QED
  BY <1>3, <1>4, <1>6 DEF c

(* What stands in a piece that stands in a block stands in the block.      *)
LEMMA StandsInPiece ==
  ASSUME NEW block \in Block, NEW b \in Block, NEW c \in Block,
         NEW at \in Nat, NEW k \in Nat,
         Stands(block, at, b), Stands(b, k, c)
  PROVE  Stands(block, at + k, c)
<1>1. Len(block) \in Nat /\ Len(b) \in Nat /\ Len(c) \in Nat
  BY LenProperties DEF Block
<1>2. k + Len(c) <= Len(b) /\ at + Len(b) <= Len(block)
  BY DEF Stands
<1>3. ASSUME NEW i \in 1 .. Len(c)
      PROVE  block[at + k + i] = c[i]
  <2>1. k + i \in 1 .. Len(b) /\ at + (k + i) = at + k + i
    BY <1>1, <1>2
  <2>2. b[k + i] = c[i]
    BY DEF Stands
  <2>3. block[at + (k + i)] = b[k + i]
    BY <2>1 DEF Stands
  <2> QED
    BY <2>1, <2>2, <2>3
<1> QED
  BY <1>1, <1>2, <1>3 DEF Stands

-----------------------------------------------------------------------------
(* One value                                                               *)

(* The object of a value: the value, and what aligns a wrapped one.        *)
LEMMA ObjectIs ==
  ASSUME NEW t \in Type, NEW v \in Block
  PROVE  /\ Object(t, v) \in Block
         /\ RawSize(t, v) = IF t.kind = "wrapped" THEN Align(Len(v)) ELSE Len(v)
         /\ Stands(Object(t, v), 0, v)
<1>1. Len(v) \in Nat
  BY LenProperties DEF Block
<1>2. CASE t.kind = "wrapped"
  <2> DEFINE n == Align(Len(v)) - Len(v)
             pad == [i \in 1 .. n |-> Zero]
  <2>1. n \in Nat /\ Len(v) + n = Align(Len(v))
    BY <1>1, AlignIs
  <2>2. pad \in [1 .. n -> AnyByte]
    BY DEF AnyByte
  <2>3. pad \in Block /\ Len(pad) = n
    BY <2>1, <2>2, FunctionIsSequence DEF Block
  <2>4. Object(t, v) = v \o pad
    BY <1>2 DEF Object, Padded
  <2> HIDE DEF pad, n
  <2>5. /\ v \o pad \in Block /\ Len(v \o pad) = Len(v) + n
        /\ Stands(v \o pad, 0, v)
    BY <2>3, ConcatStands
  <2> QED
    BY <1>2, <2>1, <2>4, <2>5 DEF RawSize
<1>3. CASE t.kind # "wrapped"
  <2>1. Object(t, v) = v
    BY <1>3 DEF Object
  <2>2. Stands(v, 0, v)
    BY <1>1 DEF Stands
  <2> QED
    BY <1>3, <2>1, <2>2 DEF RawSize
<1> QED
  BY <1>2, <1>3

(* What is read into fits: it has the size, or a string is not longer.     *)
Fits(t, old, v) ==
  IF IsFixed(t) THEN Len(old) = Len(v)
  ELSE t.kind = "string" => Len(old) <= Len(v)

(* What is written of a value fits into what was measured for it.          *)
LEMMA ImageIs ==
  ASSUME NEW t \in Type, NEW v \in Block
  PROVE  /\ Image(t, v) \in Block /\ ArchivedSize(t, v) \in Nat
         /\ Len(Image(t, v)) <= ArchivedSize(t, v)
<1>1. Len(v) \in Nat
  BY LenProperties DEF Block
<1>2. /\ Object(t, v) \in Block
      /\ RawSize(t, v) = IF t.kind = "wrapped" THEN Align(Len(v)) ELSE Len(v)
  BY ObjectIs
<1>3. RawSize(t, v) \in Nat /\ Len(Object(t, v)) = RawSize(t, v)
  BY <1>1, <1>2, AlignIs DEF RawSize
<1>4. Align(RawSize(t, v)) \in Nat /\ RawSize(t, v) <= Align(RawSize(t, v))
  BY <1>3, AlignIs
<1>5. CASE IsFixed(t)
  <2>1. Image(t, v) = Object(t, v) /\ ArchivedSize(t, v) = Align(RawSize(t, v)) + 0
    BY <1>5 DEF Image, ArchivedSize, ExLength
  <2> QED
    BY <1>2, <1>3, <1>4, <2>1
<1>6. CASE ~ IsFixed(t)
  <2>1. /\ Image(t, v) = WordBytes(RawSize(t, v)) \o v
        /\ ArchivedSize(t, v) = Align(RawSize(t, v)) + Word
    BY <1>6 DEF Image, ArchivedSize, ExLength
  <2>2. t.kind # "wrapped" /\ RawSize(t, v) = Len(v)
    BY <1>2, <1>6 DEF IsFixed
  <2>3. WordBytes(RawSize(t, v)) \in Block /\ Len(WordBytes(RawSize(t, v))) = Word
    BY <1>3, WordBytesIs
  <2>4. /\ Image(t, v) \in Block /\ Len(Image(t, v)) = Word + Len(v)
    BY <2>1, <2>3, ConcatStands
  <2>5. Word \in Nat
    BY DEF Word
  <2> QED
    BY <1>1, <1>4, <2>1, <2>2, <2>4, <2>5
<1> QED
  BY <1>5, <1>6

(* Reading gives the value back and takes what was measured for it.        *)
LEMMA ReadBack ==
  ASSUME NEW t \in Type, NEW v \in Block, NEW old \in Block, Fits(t, old, v),
         NEW block \in Block, NEW at \in Nat, Stands(block, at, Image(t, v))
  PROVE  Read(t, old, block, at) = [value |-> v, used |-> ArchivedSize(t, v)]
<1>1. Len(v) \in Nat /\ Len(old) \in Nat
  BY LenProperties DEF Block
<1>2. /\ RawSize(t, v) = IF t.kind = "wrapped" THEN Align(Len(v)) ELSE Len(v)
      /\ RawSize(t, old) = IF t.kind = "wrapped" THEN Align(Len(old)) ELSE Len(old)
      /\ Object(t, v) \in Block /\ Stands(Object(t, v), 0, v)
  BY ObjectIs
<1>3. CASE IsFixed(t)
  <2>1. Image(t, v) = Object(t, v) /\ ArchivedSize(t, v) = Align(RawSize(t, v)) + 0
        /\ Len(old) = Len(v)
    BY <1>3 DEF Image, ArchivedSize, ExLength, Fits
  <2>2. Stands(block, at + 0, v)
    BY <1>2, <2>1, StandsInPiece
  <2>3. Bytes(block, at, Len(old)) = v
    BY <2>1, <2>2, BytesOfPiece
  <2>4. Align(RawSize(t, old)) = Align(RawSize(t, v)) /\ Align(RawSize(t, v)) \in Nat
    BY <1>1, <1>2, <2>1, AlignIs
  <2> QED
    BY <1>3, <2>1, <2>3, <2>4 DEF Read, ReadFixed
<1>4. CASE ~ IsFixed(t)
  <2> DEFINE n == Len(v)
             w == WordBytes(n)
  <2>1. t.kind # "wrapped" /\ RawSize(t, v) = n
    BY <1>2, <1>4 DEF IsFixed
  <2>2. Image(t, v) = w \o v /\ ArchivedSize(t, v) = Align(n) + Word
    BY <1>4, <2>1 DEF Image, ArchivedSize, ExLength
  <2>3. w \in Block /\ Len(w) = Word /\ Word \in Nat
    BY <1>1, WordBytesIs DEF Word
  <2> HIDE DEF w
  <2>4. w \o v \in Block /\ Stands(w \o v, 0, w) /\ Stands(w \o v, Word, v)
    BY <2>3, ConcatStands
  <2>5. Stands(block, at + 0, w) /\ Stands(block, at + Word, v)
    BY <2>2, <2>3, <2>4, StandsInPiece
  <2>6. WordAt(block, at) = n
    BY <1>1, <2>5, WordAtIs DEF w
  <2>7. Bytes(block, at + Word, n) = v
    BY <2>3, <2>5, BytesOfPiece
  <2>8. t.kind = "string" => ~ (Len(old) > Len(v))
    BY <1>1, <1>4 DEF Fits
  <2>9. (IF t.kind = "string" THEN IntoString(old, v) ELSE IntoOpaque(old, v)) = v
    BY <2>8 DEF IntoString, IntoOpaque
  <2>10. Align(n) \in Nat /\ Word + Align(n) = Align(n) + Word
    BY <1>1, <2>3, AlignIs
  <2> QED
    BY <1>4, <2>2, <2>6, <2>7, <2>9, <2>10 DEF Read, ReadVariable
<1> QED
  BY <1>3, <1>4

(* Induction over the numbers up to n.                                     *)
LEMMA UpToInduction ==
  ASSUME NEW n \in Nat, NEW T, 0 \in T, \A i \in 1 .. n : i - 1 \in T => i \in T
  PROVE  0 .. n \subseteq T
<1> DEFINE U == {k \in Nat : k <= n => k \in T}
<1>1. 0 \in U
  OBVIOUS
<1>2. ASSUME NEW k \in U PROVE k + 1 \in U
  <2>1. k \in Nat /\ k + 1 - 1 = k
    OBVIOUS
  <2>2. CASE k + 1 <= n
    <3>1. k + 1 \in 1 .. n /\ k \in T
      BY <2>1, <2>2
    <3>2. k + 1 \in T
      BY <2>1, <3>1
    <3> QED
      BY <2>1, <3>2
  <2>3. CASE ~ (k + 1 <= n)
    BY <2>1, <2>3
  <2> QED
    BY <2>2, <2>3
<1>3. U = Nat
  <2>1. U \subseteq Nat
    OBVIOUS
  <2> HIDE DEF U
  <2> QED
    BY <1>1, <1>2, <2>1, SetInduction
<1> QED
  BY <1>3

(* Two functions that begin alike and go on alike are alike.               *)
LEMMA SameSteps ==
  ASSUME NEW n \in Nat, NEW f, NEW g, f[0] = g[0],
         \A i \in 1 .. n : f[i - 1] = g[i - 1] => f[i] = g[i]
  PROVE  \A i \in 0 .. n : f[i] = g[i]
<1> DEFINE T == {i \in 0 .. n : f[i] = g[i]}
<1>1. 0 \in T
  OBVIOUS
<1>2. ASSUME NEW i \in 1 .. n, i - 1 \in T
      PROVE  i \in T
  BY <1>2
<1>3. 0 .. n \subseteq T
  <2> HIDE DEF T
  <2> QED
    BY <1>1, <1>2, UpToInduction
<1> QED
  BY <1>3

-----------------------------------------------------------------------------
(* A row of values                                                         *)

(* What is measured for a value, and the bytes up to the next one.         *)
Rest(ts, vs, passing, i) == FilteredSize(ts[i], vs[i], i \in passing)

Piece(ts, vs, passing, i) ==
  Written(ts[i], vs[i], i \in passing, Rest(ts, vs, passing, i))

(* The bytes up to the next value are as many as were measured, and begin  *)
(* with the image of the value.                                            *)
LEMMA PieceIs ==
  ASSUME NEW ts \in Seq(Type), NEW vs, NEW passing, NEW i \in 1 .. Len(ts),
         vs[i] \in Block
  PROVE  /\ Rest(ts, vs, passing, i) \in Nat
         /\ Piece(ts, vs, passing, i) \in Block
         /\ Len(Piece(ts, vs, passing, i)) = Rest(ts, vs, passing, i)
         /\ i \in passing => Stands(Piece(ts, vs, passing, i), 0, Image(ts[i], vs[i]))
<1> DEFINE size == Rest(ts, vs, passing, i)
           image == IF i \in passing THEN Image(ts[i], vs[i]) ELSE <<>>
           p == [b \in 1 .. size |-> IF b <= Len(image) THEN image[b] ELSE Garbage]
<1>0. ts[i] \in Type
  BY ElementOfSeq
<1>1. /\ Image(ts[i], vs[i]) \in Block /\ ArchivedSize(ts[i], vs[i]) \in Nat
      /\ Len(Image(ts[i], vs[i])) <= ArchivedSize(ts[i], vs[i])
  BY <1>0, ImageIs
<1>2. size \in Nat /\ image \in Block /\ Len(image) <= size
  <2>1. CASE i \in passing
    BY <1>1, <2>1 DEF Rest, FilteredSize
  <2>2. CASE i \notin passing
    BY <2>2 DEF Rest, FilteredSize, Block
  <2> QED
    BY <2>1, <2>2
<1>3. Piece(ts, vs, passing, i) = p
  BY DEF Piece, Written
<1>4. i \in passing => image = Image(ts[i], vs[i])
  OBVIOUS
<1> HIDE DEF size, image
<1>5. Len(image) \in Nat /\ \A b \in 1 .. Len(image) : image[b] \in AnyByte
  BY <1>2, LenProperties, ElementOfSeq DEF Block
<1>6. p \in [1 .. size -> AnyByte]
  BY <1>2, <1>5 DEF AnyByte
<1>7. p \in Block /\ Len(p) = size
  BY <1>2, <1>6, FunctionIsSequence DEF Block
<1>8. Stands(p, 0, image)
  BY <1>2, <1>5, <1>7 DEF Stands
<1> QED
  BY <1>2, <1>3, <1>4, <1>7, <1>8 DEF size

(* The table of sizes, which archive_to_real looks up.                     *)
LEMMA MeasureIs ==
  ASSUME NEW ts \in Seq(Type), NEW vs, NEW passing,
         \A i \in 1 .. Len(ts) : vs[i] \in Block
  PROVE  LET core == Measure(NewCore, ts, vs, passing)
         IN  \A i \in 1 .. Len(ts) :
               core.sizes[core.index + i] = Rest(ts, vs, passing, i)
<1> DEFINE core == Measure(NewCore, ts, vs, passing)
           table == [i \in DOMAIN ts |-> FilteredSize(ts[i], vs[i], i \in passing)]
<1>1. Len(ts) \in Nat /\ DOMAIN ts = 1 .. Len(ts)
  BY LenProperties
<1>2. \A i \in 1 .. Len(ts) : table[i] = Rest(ts, vs, passing, i)
  BY <1>1 DEF Rest
<1>3. \A i \in 1 .. Len(ts) : Rest(ts, vs, passing, i) \in Nat
  BY PieceIs
<1>4. table \in [1 .. Len(ts) -> Nat]
  BY <1>1, <1>3 DEF Rest
<1> HIDE DEF table
<1>5. table \in Seq(Nat)
  BY <1>1, <1>4, FunctionIsSequence
<1>6. <<>> \o table = table
  BY <1>5, ConcatEmptySeq
<1>7. core = [NewCore EXCEPT !.sizes = NewCore.sizes \o table]
  BY DEF Measure, table
<1>8. core.sizes = table /\ core.index = 0
  BY <1>6, <1>7 DEF NewCore
<1> QED
  BY <1>2, <1>8

(* archive_to_real puts one piece behind the other.                        *)
LEMMA ArchivedUpToIs ==
  ASSUME NEW ts \in Seq(Type), NEW vs, NEW passing,
         \A i \in 1 .. Len(ts) : vs[i] \in Block
  PROVE  LET upTo == ArchivedUpTo(Measure(NewCore, ts, vs, passing), ts, vs, passing)
         IN  /\ upTo \in [0 .. Len(ts) -> Block]
             /\ upTo[0] = <<>>
             /\ \A i \in 1 .. Len(ts) :
                  upTo[i] = upTo[i - 1] \o Piece(ts, vs, passing, i)
<1> DEFINE n == Len(ts)
           core == Measure(NewCore, ts, vs, passing)
           upTo == ArchivedUpTo(core, ts, vs, passing)
           Is(f) == f = [i \in 0 .. n |->
             IF i = 0 THEN <<>>
             ELSE f[i - 1] \o Written(ts[i], vs[i], i \in passing,
                                      core.sizes[core.index + i])]
<1>1. n \in Nat
  BY LenProperties
<1>2. \A i \in 1 .. n : core.sizes[core.index + i] = Rest(ts, vs, passing, i)
  BY MeasureIs
<1>3. upTo = CHOOSE f : Is(f)
  BY DEF ArchivedUpTo
<1> HIDE DEF core, upTo
<1>4. \A i \in 1 .. n :
        Written(ts[i], vs[i], i \in passing, core.sizes[core.index + i])
          = Piece(ts, vs, passing, i)
  BY <1>2 DEF Piece
<1>5. \A i \in 1 .. n : Piece(ts, vs, passing, i) \in Block
  BY PieceIs
<1> DEFINE F == [i \in 1 .. n |-> [b \in Block |-> b \o Piece(ts, vs, passing, i)]]
<1>6. F \in [1 .. n -> [Block -> Block]]
  <2>1. ASSUME NEW i \in 1 .. n, NEW b \in Block
        PROVE  b \o Piece(ts, vs, passing, i) \in Block
    BY <1>5, ConcatStands
  <2> QED
    BY <2>1
<1>7. \A i \in 1 .. n : \A b \in Block :
        F[i][b] = b \o Piece(ts, vs, passing, i)
  OBVIOUS
<1>8. <<>> \in Block
  BY DEF Block
<1> HIDE DEF F
<1>9. PICK f : Runs(f, n, Block, <<>>, F)
  BY <1>1, <1>6, <1>8, StepsExist
<1>10. \A i \in 1 .. n : f[i] = f[i - 1] \o Piece(ts, vs, passing, i)
  <2> SUFFICES ASSUME NEW i \in 1 .. n
               PROVE  f[i] = f[i - 1] \o Piece(ts, vs, passing, i)
    OBVIOUS
  <2>1. i - 1 \in 0 .. n /\ f[i - 1] \in Block
    BY <1>1, <1>9 DEF Runs
  <2> QED
    BY <1>7, <1>9, <2>1 DEF Runs
<1>11. Is(f)
  <2>1. ASSUME NEW i \in 0 .. n
        PROVE  f[i] = IF i = 0 THEN <<>>
             ELSE f[i - 1] \o Written(ts[i], vs[i], i \in passing,
                                      core.sizes[core.index + i])
    <3>1. CASE i = 0
      BY <1>9, <3>1 DEF Runs
    <3>2. CASE i # 0
      <4>1. i \in 1 .. n
        BY <1>1, <3>2
      <4> QED
        BY <1>4, <1>10, <3>2, <4>1
    <3> QED
      BY <3>1, <3>2
  <2>2. f = [i \in 0 .. n |-> f[i]]
    BY <1>9 DEF Runs
  <2> QED
    BY <2>1, <2>2
<1>12. Is(upTo)
  <2> HIDE DEF Is
  <2> QED
    BY <1>3, <1>11
<1>13. /\ upTo[0] = <<>>
       /\ \A i \in 1 .. n : upTo[i] = upTo[i - 1] \o Piece(ts, vs, passing, i)
  <2>1. 0 \in 0 .. n /\ \A i \in 1 .. n : i \in 0 .. n /\ i # 0
    BY <1>1
  <2>2. upTo[0] = <<>>
    BY <1>12, <2>1
  <2>3. ASSUME NEW i \in 1 .. n
        PROVE  upTo[i] = upTo[i - 1] \o Piece(ts, vs, passing, i)
    BY <1>4, <1>12, <2>1
  <2> QED
    BY <2>2, <2>3
<1>14. DOMAIN upTo = 0 .. n /\ upTo = [i \in 0 .. n |-> upTo[i]]
  BY <1>12
<1> HIDE DEF Is
<1>15. \A i \in 0 .. n : upTo[i] = f[i]
  <2>1. upTo[0] = f[0]
    BY <1>9, <1>13 DEF Runs
  <2>2. \A i \in 1 .. n : upTo[i - 1] = f[i - 1] => upTo[i] = f[i]
    BY <1>10, <1>13
  <2> QED
    BY <1>1, <2>1, <2>2, SameSteps
<1>16. upTo \in [0 .. n -> Block]
  BY <1>9, <1>14, <1>15 DEF Runs
<1> QED
  BY <1>13, <1>16 DEF upTo, core

(* Every value stands in the block, behind what was written before it.     *)
LEMMA ValuesStand ==
  ASSUME NEW ts \in Seq(Type), NEW vs, NEW passing,
         \A i \in 1 .. Len(ts) : vs[i] \in Block
  PROVE  LET upTo == ArchivedUpTo(Measure(NewCore, ts, vs, passing), ts, vs, passing)
         IN  \A i \in 1 .. Len(ts) :
               /\ Len(upTo[i]) = Len(upTo[i - 1]) + Rest(ts, vs, passing, i)
               /\ i \in passing => Stands(upTo[Len(ts)], Len(upTo[i - 1]),
                                          Image(ts[i], vs[i]))
<1> DEFINE n == Len(ts)
           upTo == ArchivedUpTo(Measure(NewCore, ts, vs, passing), ts, vs, passing)
<1>1. n \in Nat
  BY LenProperties
<1>2. /\ upTo \in [0 .. n -> Block] /\ upTo[0] = <<>>
      /\ \A i \in 1 .. n : upTo[i] = upTo[i - 1] \o Piece(ts, vs, passing, i)
  BY ArchivedUpToIs
<1> HIDE DEF upTo
<1>3. ASSUME NEW i \in 1 .. n
      PROVE  /\ upTo[i - 1] \in Block /\ upTo[i] \in Block
             /\ Piece(ts, vs, passing, i) \in Block
             /\ Len(Piece(ts, vs, passing, i)) = Rest(ts, vs, passing, i)
             /\ Len(upTo[i]) = Len(upTo[i - 1]) + Rest(ts, vs, passing, i)
             /\ Stands(upTo[i], 0, upTo[i - 1])
             /\ Stands(upTo[i], Len(upTo[i - 1]), Piece(ts, vs, passing, i))
  <2>1. i - 1 \in 0 .. n /\ i \in 0 .. n
    BY <1>1
  <2>2. upTo[i - 1] \in Block /\ upTo[i] \in Block
    BY <1>2, <2>1
  <2>3. /\ Piece(ts, vs, passing, i) \in Block
        /\ Len(Piece(ts, vs, passing, i)) = Rest(ts, vs, passing, i)
    BY PieceIs
  <2> DEFINE a == upTo[i - 1]
             b == Piece(ts, vs, passing, i)
  <2>4. a \in Block /\ b \in Block
    BY <2>2, <2>3
  <2> HIDE DEF a, b
  <2>5. Len(a \o b) = Len(a) + Len(b) /\ Stands(a \o b, 0, a)
        /\ Stands(a \o b, Len(a), b)
    BY <2>4, ConcatStands
  <2>6. upTo[i] = a \o b
    BY <1>2 DEF a, b
  <2> QED
    BY <2>2, <2>3, <2>5, <2>6 DEF a, b
<1> DEFINE T == {k \in 0 .. n : \A i \in 0 .. k : Stands(upTo[k], 0, upTo[i])}
<1>4. 0 \in T
  <2>1. Stands(upTo[0], 0, upTo[0])
    BY <1>2 DEF Stands
  <2>2. \A i \in 0 .. 0 : i = 0
    OBVIOUS
  <2> QED
    BY <1>1, <2>1, <2>2
<1>5. ASSUME NEW k \in 1 .. n, k - 1 \in T
      PROVE  k \in T
  <2>1. ASSUME NEW i \in 0 .. k
        PROVE  Stands(upTo[k], 0, upTo[i])
    <3>1. CASE i = k
      <4>1. upTo[k] \in Block
        BY <1>3
      <4>2. Len(upTo[k]) \in Nat
        BY <4>1, LenProperties DEF Block
      <4> QED
        BY <3>1, <4>2 DEF Stands
    <3>2. CASE i # k
      <4>1. i \in 0 .. k - 1 /\ i \in 0 .. n
        BY <1>1, <3>2
      <4>2. Stands(upTo[k - 1], 0, upTo[i])
        BY <1>5, <4>1
      <4>3. upTo[i] \in Block
        BY <1>2, <4>1
      <4>4. Stands(upTo[k], 0 + 0, upTo[i])
        BY <1>3, <4>2, <4>3, StandsInPiece
      <4> QED
        BY <4>4
    <3> QED
      BY <3>1, <3>2
  <2> QED
    BY <1>1, <2>1
<1>6. 0 .. n \subseteq T
  <2> HIDE DEF T
  <2> QED
    BY <1>1, <1>4, <1>5, UpToInduction
<1>7. \A i \in 0 .. n : Stands(upTo[n], 0, upTo[i])
  BY <1>1, <1>6
<1>8. ASSUME NEW i \in 1 .. n, i \in passing
      PROVE  Stands(upTo[n], Len(upTo[i - 1]), Image(ts[i], vs[i]))
  <2>1. /\ upTo[n] \in Block /\ upTo[i] \in Block /\ upTo[i - 1] \in Block
        /\ Stands(upTo[n], 0, upTo[i])
    BY <1>1, <1>2, <1>3, <1>7
  <2>2. Len(upTo[i - 1]) \in Nat
    BY <2>1, LenProperties DEF Block
  <2>3. ts[i] \in Type /\ vs[i] \in Block
    BY ElementOfSeq
  <2>4. Image(ts[i], vs[i]) \in Block
    BY <2>3, ImageIs
  <2>5. Stands(Piece(ts, vs, passing, i), 0, Image(ts[i], vs[i]))
    BY <1>8, <2>3, PieceIs
  <2>6. Stands(upTo[i], Len(upTo[i - 1]) + 0, Image(ts[i], vs[i]))
    BY <1>3, <2>1, <2>2, <2>4, <2>5, StandsInPiece
  <2>7. Stands(upTo[i], Len(upTo[i - 1]), Image(ts[i], vs[i]))
    BY <2>2, <2>6
  <2>8. Stands(upTo[n], 0 + Len(upTo[i - 1]), Image(ts[i], vs[i]))
    BY <2>1, <2>2, <2>4, <2>7, StandsInPiece
  <2> QED
    BY <2>2, <2>8
<1> QED
  BY <1>3, <1>8 DEF upTo

(* A row of n elements is a sequence.                                      *)
LEMMA RowIs ==
  ASSUME NEW S, NEW n \in Nat, NEW v, \A j \in 1 .. n : v[j] \in S
  PROVE  /\ [j \in 1 .. n |-> v[j]] \in Seq(S)
         /\ Len([j \in 1 .. n |-> v[j]]) = n
<1> DEFINE r == [j \in 1 .. n |-> v[j]]
<1>1. r \in [1 .. n -> S]
  OBVIOUS
<1> HIDE DEF r
<1>2. r \in Seq(S) /\ Len(r) = n
  BY <1>1, FunctionIsSequence
<1> QED
  BY <1>2 DEF r

(* A row grows by one element.                                             *)
LEMMA AppendRow ==
  ASSUME NEW S, NEW n \in Nat \ {0}, NEW v, \A j \in 1 .. n : v[j] \in S
  PROVE  Append([j \in 1 .. n - 1 |-> v[j]], v[n]) = [j \in 1 .. n |-> v[j]]
<1> DEFINE s == [j \in 1 .. n - 1 |-> v[j]]
           t == [j \in 1 .. n |-> v[j]]
           a == Append(s, v[n])
<1>1. n - 1 \in Nat /\ n \in Nat /\ \A j \in 1 .. n - 1 : v[j] \in S
  OBVIOUS
<1>2. s \in Seq(S) /\ Len(s) = n - 1
  BY <1>1, RowIs
<1>3. t \in Seq(S) /\ Len(t) = n
  BY <1>1, RowIs
<1>4. \A j \in 1 .. n - 1 : s[j] = v[j]
  OBVIOUS
<1>5. \A j \in 1 .. n : t[j] = v[j]
  OBVIOUS
<1> HIDE DEF s, t
<1>6. /\ a \in Seq(S) /\ Len(a) = n - 1 + 1
      /\ \A i \in 1 .. n - 1 : a[i] = s[i]
      /\ a[n - 1 + 1] = v[n]
  <2>1. v[n] \in S
    OBVIOUS
  <2> QED
    BY <1>2, <2>1, AppendProperties
<1> HIDE DEF a
<1>7. \A j \in 1 .. Len(a) : a[j] = t[j]
  BY <1>4, <1>5, <1>6
<1>8. a = t
  BY <1>3, <1>6, <1>7, SeqEqual
<1> QED
  BY <1>8 DEF a, s, t

(* What a row of variables holds after the values of "passing" were read.  *)
Merged(vs, olds, passing, n) ==
  [i \in 1 .. n |-> IF i \in passing THEN vs[i] ELSE olds[i]]

(* What serialize<> reads is what it wrote: for values of any types, any   *)
(* filter that both ends apply and any variables to read into, if a fixed  *)
(* variable has the size of its value and a string is not longer than what *)
(* comes, then the values that pass the filter come back, the others stay  *)
(* as they are, and reading ends where the block ends.                     *)
THEOREM RoundTrip ==
  ASSUME NEW ts \in Seq(Type), NEW vs, NEW olds, NEW passing,
         \A i \in 1 .. Len(ts) : vs[i] \in Block /\ olds[i] \in Block,
         \A i \in 1 .. Len(ts) : i \in passing => Fits(ts[i], olds[i], vs[i])
  PROVE  LET block == ArchiveReal(NewCore, ts, vs, passing)
         IN  /\ block \in Block
             /\ RarchiveReal(ts, olds, passing, block)
                  = [values |-> Merged(vs, olds, passing, Len(ts)),
                     at |-> Len(block)]
<1> DEFINE n == Len(ts)
           upTo == ArchivedUpTo(Measure(NewCore, ts, vs, passing), ts, vs, passing)
           block == ArchiveReal(NewCore, ts, vs, passing)
           v == Merged(vs, olds, passing, n)
           g == [i \in 0 .. n |-> [values |-> [j \in 1 .. i |-> v[j]],
                                   at |-> Len(upTo[i])]]
           Step(acc, i) ==
             IF i \in passing
             THEN [values |-> Append(acc.values,
                                     Read(ts[i], olds[i], block, acc.at).value),
                   at |-> acc.at + Read(ts[i], olds[i], block, acc.at).used]
             ELSE [acc EXCEPT !.values = Append(@, olds[i])]
           Is(f) == f = [i \in 0 .. n |->
             IF i = 0 THEN [values |-> <<>>, at |-> 0] ELSE Step(f[i - 1], i)]
           R == ReadUpTo(ts, olds, passing, block)
<1>1. n \in Nat
  BY LenProperties
<1>2. upTo \in [0 .. n -> Block] /\ upTo[0] = <<>>
  BY ArchivedUpToIs
<1>3. \A i \in 1 .. n :
        /\ Len(upTo[i]) = Len(upTo[i - 1]) + Rest(ts, vs, passing, i)
        /\ i \in passing => Stands(upTo[n], Len(upTo[i - 1]), Image(ts[i], vs[i]))
  BY ValuesStand
<1>4. block = upTo[n]
  BY DEF ArchiveReal, ArchiveTo
<1>5. block \in Block
  BY <1>1, <1>2, <1>4
<1>6. \A j \in 1 .. n : v[j] = (IF j \in passing THEN vs[j] ELSE olds[j])
                        /\ v[j] \in Block
  BY DEF Merged
<1>7. R = CHOOSE f : Is(f)
  BY DEF ReadUpTo, ReadStep
<1>8. RarchiveReal(ts, olds, passing, block) = R[n]
  BY DEF RarchiveReal
<1> HIDE DEF upTo, block, v, R
<1>9. g[0] = [values |-> <<>>, at |-> 0]
  <2>1. g[0] = [values |-> [j \in 1 .. 0 |-> v[j]], at |-> Len(upTo[0])]
    BY <1>1
  <2>2. [j \in 1 .. 0 |-> v[j]] \in Seq(Block) /\ Len([j \in 1 .. 0 |-> v[j]]) = 0
    BY RowIs
  <2>3. [j \in 1 .. 0 |-> v[j]] = <<>>
    BY <2>2, EmptySeq
  <2> QED
    BY <1>2, <2>1, <2>3
<1>10. ASSUME NEW i \in 1 .. n
       PROVE  Step(g[i - 1], i) = g[i]
  <2>1. i \in 0 .. n /\ i - 1 \in 0 .. n /\ i \in Nat \ {0}
    BY <1>1
  <2> DEFINE before == [j \in 1 .. i - 1 |-> v[j]]
             after == [j \in 1 .. i |-> v[j]]
             from == Len(upTo[i - 1])
  <2>2. /\ g[i - 1] = [values |-> before, at |-> from]
        /\ g[i] = [values |-> after, at |-> Len(upTo[i])]
    BY <2>1
  <2>3. Append(before, v[i]) = after
    <3>1. \A j \in 1 .. i : v[j] \in Block
      BY <1>1, <1>6
    <3> QED
      BY <2>1, <3>1, AppendRow
  <2>4. from \in Nat
    BY <1>2, <2>1, LenProperties DEF Block
  <2>5. ts[i] \in Type /\ vs[i] \in Block /\ olds[i] \in Block
    BY ElementOfSeq
  <2> HIDE DEF before, after, from, g
  <2>6. CASE i \in passing
    <3>1. Stands(block, from, Image(ts[i], vs[i])) /\ Fits(ts[i], olds[i], vs[i])
      BY <1>3, <1>4, <2>6 DEF from
    <3>2. Read(ts[i], olds[i], block, from)
            = [value |-> vs[i], used |-> ArchivedSize(ts[i], vs[i])]
      BY <1>5, <2>4, <2>5, <3>1, ReadBack
    <3>3. Step([values |-> before, at |-> from], i)
            = [values |-> Append(before, vs[i]),
               at |-> from + ArchivedSize(ts[i], vs[i])]
      <4> DEFINE acc == [values |-> before, at |-> from]
      <4>1. acc.values = before /\ acc.at = from
        OBVIOUS
      <4> HIDE DEF acc
      <4> DEFINE r == Read(ts[i], olds[i], block, acc.at)
      <4>2. r.value = vs[i] /\ r.used = ArchivedSize(ts[i], vs[i])
        BY <3>2, <4>1
      <4>3. Step(acc, i) = [values |-> Append(acc.values, r.value),
                            at |-> acc.at + r.used]
        BY <2>6
      <4> HIDE DEF r, Step
      <4>4. Step(acc, i) = [values |-> Append(before, vs[i]),
                            at |-> from + ArchivedSize(ts[i], vs[i])]
        BY <4>1, <4>2, <4>3
      <4> QED
        BY <4>4 DEF acc
    <3>4. Len(upTo[i]) = from + ArchivedSize(ts[i], vs[i]) /\ v[i] = vs[i]
      BY <1>3, <1>6, <2>6 DEF from, Rest, FilteredSize
    <3> HIDE DEF Step
    <3> QED
      BY <2>2, <2>3, <3>3, <3>4
  <2>7. CASE i \notin passing
    <3>1. Step([values |-> before, at |-> from], i)
            = [values |-> Append(before, olds[i]), at |-> from]
      BY <2>7
    <3>3. Len(upTo[i]) = from /\ v[i] = olds[i]
      <4>1. Len(upTo[i]) = from + 0
        BY <1>3, <2>7 DEF from, Rest, FilteredSize
      <4> QED
        BY <1>6, <2>4, <2>7, <4>1
    <3> HIDE DEF Step
    <3> QED
      BY <2>2, <2>3, <2>4, <3>1, <3>3
  <2> QED
    BY <2>6, <2>7
<1> HIDE DEF Step
<1>11. Is(g)
  <2>1. ASSUME NEW i \in 0 .. n
        PROVE  g[i] = IF i = 0 THEN [values |-> <<>>, at |-> 0]
             ELSE Step(g[i - 1], i)
    <3>1. CASE i = 0
      BY <1>9, <3>1
    <3>2. CASE i # 0
      <4>1. i \in 1 .. n
        BY <1>1, <3>2
      <4> HIDE DEF g
      <4> QED
        BY <1>10, <3>2, <4>1
    <3> QED
      BY <3>1, <3>2
  <2>2. g = [i \in 0 .. n |-> g[i]]
    OBVIOUS
  <2> HIDE DEF g
  <2> QED
    BY <2>1, <2>2
<1> HIDE DEF g
<1>12. Is(R)
  <2> HIDE DEF Is
  <2> QED
    BY <1>7, <1>11
<1>13. \A i \in 0 .. n : R[i] = g[i]
  <2>1. /\ 0 \in 0 .. n /\ \A i \in 1 .. n : i \in 0 .. n /\ i # 0
    BY <1>1
  <2>2. R[0] = g[0]
    BY <1>9, <1>12, <2>1
  <2>3. ASSUME NEW i \in 1 .. n, R[i - 1] = g[i - 1]
        PROVE  R[i] = g[i]
    <3>1. R[i] = Step(R[i - 1], i)
      BY <1>12, <2>1
    <3> QED
      BY <1>10, <2>3, <3>1
  <2> QED
    BY <1>1, <2>2, <2>3, SameSteps
<1>14. g[n] = [values |-> v, at |-> Len(block)]
  <2>1. g[n] = [values |-> [j \in 1 .. n |-> v[j]], at |-> Len(upTo[n])]
    BY <1>1 DEF g
  <2>2. v = [j \in 1 .. n |-> v[j]]
    BY DEF v, Merged
  <2> QED
    BY <1>4, <2>1, <2>2
<1>15. R[n] = [values |-> v, at |-> Len(block)]
  BY <1>1, <1>13, <1>14
<1> QED
  BY <1>5, <1>8, <1>15 DEF block, v

(* A block with its length in front.                                       *)
LEMMA SizedIs ==
  ASSUME NEW b \in Block
  PROVE  /\ Sized(b) \in Block /\ Len(Sized(b)) = Word + Len(b)
         /\ Stands(Sized(b), 0, WordBytes(Len(b))) /\ Stands(Sized(b), Word, b)
<1>1. Len(b) \in Nat
  BY LenProperties DEF Block
<1>2. WordBytes(Len(b)) \in Block /\ Len(WordBytes(Len(b))) = Word
  BY <1>1, WordBytesIs
<1> QED
  BY <1>2, ConcatStands DEF Sized

(* A block behind its length is found.                                     *)
LEMMA UnsizedIs ==
  ASSUME NEW d \in Block, NEW at \in Nat, NEW b \in Block, Stands(d, at, Sized(b))
  PROVE  Unsized(d, at) = b /\ WordAt(d, at) = Len(b)
<1>1. Len(b) \in Nat /\ Word \in Nat
  BY LenProperties DEF Block, Word
<1>2. /\ Sized(b) \in Block
      /\ Stands(Sized(b), 0, WordBytes(Len(b))) /\ Stands(Sized(b), Word, b)
      /\ WordBytes(Len(b)) \in Block
  BY <1>1, SizedIs, WordBytesIs
<1>3. Stands(d, at + 0, WordBytes(Len(b))) /\ Stands(d, at + Word, b)
  BY <1>1, <1>2, StandsInPiece
<1>4. WordAt(d, at) = Len(b)
  <2>1. at + 0 = at
    OBVIOUS
  <2> QED
    BY <1>1, <1>3, <2>1, WordAtIs
<1>5. at + Word \in Nat
  BY <1>1
<1>6. Bytes(d, at + Word, Len(b)) = b
  BY <1>3, <1>5, BytesOfPiece
<1> QED
  BY <1>4, <1>6 DEF Unsized

(* for_each_memory_block comes to an end: it is defined for what it reads. *)
From(d, f, at) ==
  IF at >= Len(d) THEN <<>>
  ELSE <<Unsized(d, at)>> \o f[at + Word + WordAt(d, at)]

(* The walk over the bodies is defined for every datagram, for each step   *)
(* goes on by a word at least.                                             *)
LEMMA WalkExists ==
  ASSUME NEW d \in Block
  PROVE  \E f : f = [at \in Nat |-> From(d, f, at)]
<1> DEFINE D(k) == {a \in Nat : a + k >= Len(d)}
           Is(f, k) == f = [at \in D(k) |-> From(d, f, at)]
           T == {k \in Nat : \E f : Is(f, k)}
<1>0. Len(d) \in Nat /\ Word \in Nat \ {0}
  BY LenProperties DEF Block, Word
<1>1. 0 \in T
  <2> DEFINE f == [at \in D(0) |-> <<>>]
  <2>1. \A at \in D(0) : From(d, f, at) = <<>>
    BY <1>0 DEF From
  <2>2. Is(f, 0)
    BY <2>1
  <2> QED
    BY <2>2
<1>2. ASSUME NEW k \in T PROVE k + 1 \in T
  <2>0. k \in Nat /\ k + 1 \in Nat
    OBVIOUS
  <2>1. PICK f : Is(f, k)
    OBVIOUS
  <2> DEFINE g == [at \in D(k + 1) |-> IF at \in D(k) THEN f[at] ELSE From(d, f, at)]
  <2>2. \A at \in D(k) : at \in D(k + 1) /\ g[at] = f[at]
    BY <1>0, <2>0
  <2>3. ASSUME NEW at \in D(k + 1)
        PROVE  g[at] = From(d, g, at)
    <3> DEFINE next == at + Word + WordAt(d, at)
    <3>1. at \in Nat /\ WordAt(d, at) \in Nat /\ next \in Nat
      BY <1>0, WordAtIsNat
    <3>2. next \in D(k)
      BY <1>0, <2>0, <3>1
    <3>3. g[next] = f[next]
      BY <2>2, <3>2
    <3>4. From(d, g, at) = From(d, f, at)
      <4>1. g[at + Word + WordAt(d, at)] = f[at + Word + WordAt(d, at)]
        BY <3>3
      <4> HIDE DEF g, Is, D, T
      <4> QED
        BY <4>1 DEF From
    <3>5. CASE at \in D(k)
      <4>1. f[at] = From(d, f, at)
        BY <2>1, <3>5
      <4> QED
        BY <2>2, <3>4, <3>5, <4>1
    <3>6. CASE at \notin D(k)
      <4>1. g[at] = From(d, f, at)
        BY <3>6
      <4> QED
        BY <3>4, <4>1
    <3> QED
      BY <3>5, <3>6
  <2>4. g = [at \in D(k + 1) |-> g[at]]
    OBVIOUS
  <2> HIDE DEF g
  <2>5. Is(g, k + 1)
    BY <2>3, <2>4
  <2> QED
    BY <2>0, <2>5
<1>3. Len(d) \in T
  <2> HIDE DEF Is
  <2>1. T \subseteq Nat
    OBVIOUS
  <2>2. T = Nat
    BY <1>1, <1>2, <2>1, SetInduction
  <2> QED
    BY <1>0, <2>2
<1>4. D(Len(d)) = Nat
  BY <1>0
<1> QED
  BY <1>3, <1>4

(* A datagram that holds one body gives this body.                         *)
LEMMA OneBody ==
  ASSUME NEW b \in Block
  PROVE  Bodies(Sized(b)) = <<b>>
<1> DEFINE d == Sized(b)
           Is(f) == f = [at \in Nat |-> From(d, f, at)]
           w == CHOOSE f : Is(f)
<1>1. d \in Block /\ Len(d) = Word + Len(b) /\ Len(b) \in Nat /\ Word \in Nat \ {0}
  BY SizedIs, LenProperties DEF Block, Word
<1>2. Bodies(d) = w[0]
  BY DEF Bodies, From
<1>3. Is(w)
  <2> HIDE DEF d
  <2>1. \E f : Is(f)
    BY <1>1, WalkExists
  <2> HIDE DEF Is
  <2> QED
    BY <2>1
<1>4. Unsized(d, 0) = b /\ WordAt(d, 0) = Len(b)
  <2>1. Stands(d, 0, Sized(b))
    <3> HIDE DEF d
    <3>1. d = Sized(b)
      BY DEF d
    <3> QED
      BY <1>1, <3>1 DEF Stands
  <2> HIDE DEF d
  <2> QED
    BY <1>1, <2>1, UnsizedIs
<1> HIDE DEF d, w
<1>5. w[0] = <<b>> \o w[0 + Word + Len(b)]
  <2>1. w[0] = From(d, w, 0)
    BY <1>3
  <2> HIDE DEF Is
  <2> QED
    BY <1>1, <1>4, <2>1 DEF From
<1>6. w[0 + Word + Len(b)] = <<>>
  <2>1. 0 + Word + Len(b) \in Nat /\ 0 + Word + Len(b) >= Len(d)
    BY <1>1
  <2>2. w[0 + Word + Len(b)] = From(d, w, 0 + Word + Len(b))
    BY <1>3, <2>1
  <2> HIDE DEF Is
  <2> QED
    BY <2>1, <2>2 DEF From
<1>7. <<b>> \o <<>> = <<b>>
  <2>1. <<b>> \in Seq(Block)
    OBVIOUS
  <2> QED
    BY <2>1, ConcatEmptySeq
<1> QED
  BY <1>2, <1>5, <1>6, <1>7 DEF d

(* What the receiver of a message finds: one body, and in it the block.    *)
THEOREM MessageArrives ==
  ASSUME NEW block \in Block
  PROVE  LET bodies == Bodies(Message(HeadBytes, block))
         IN  DOMAIN bodies = {1} /\ BlockOf(bodies[1]) = block
<1> DEFINE h == HeadBytes
           s == Sized(block)
           body == h \o s
<1>0. Word \in Nat /\ HeadSize = Word
  BY DEF Word, HeadSize
<1>1. h \in Block /\ Len(h) = Word
  <2>1. h \in [1 .. Word -> AnyByte]
    BY DEF HeadBytes, HeadSize, AnyByte, Word
  <2> QED
    BY <1>0, <2>1, FunctionIsSequence DEF Block
<1>2. s \in Block
  BY SizedIs
<1> HIDE DEF h, s
<1>3. /\ body \in Block /\ Len(body) = Len(h) + Len(s) /\ Stands(body, Word, s)
  <2>1. /\ h \o s \in Block /\ Len(h \o s) = Len(h) + Len(s)
        /\ Stands(h \o s, Len(h), s)
    BY <1>1, <1>2, ConcatStands
  <2> QED
    BY <1>1, <2>1
<1>4. Len(body) \in Nat
  BY <1>3, LenProperties DEF Block
<1>5. Message(HeadBytes, block) = (WordBytes(Len(body)) \o h) \o s
  BY <1>3 DEF Message, h, s
<1>6. (WordBytes(Len(body)) \o h) \o s = WordBytes(Len(body)) \o body
  <2>1. WordBytes(Len(body)) \in Block
    BY <1>4, WordBytesIs
  <2> DEFINE x == WordBytes(Len(body))
  <2> HIDE DEF x
  <2>2. x \in Seq(AnyByte) /\ h \in Seq(AnyByte) /\ s \in Seq(AnyByte)
    BY <1>1, <1>2, <2>1 DEF Block, x
  <2>3. (x \o h) \o s = x \o (h \o s)
    BY <2>2, ConcatAssociative
  <2> QED
    BY <2>3 DEF x
<1>7. Message(HeadBytes, block) = Sized(body)
  BY <1>5, <1>6 DEF Sized
<1>8. Bodies(Message(HeadBytes, block)) = <<body>>
  BY <1>3, <1>7, OneBody
<1>9. BlockOf(body) = block
  <2>1. Stands(body, HeadSize, Sized(block))
    BY <1>0, <1>3 DEF s
  <2> QED
    BY <1>0, <1>3, <2>1, UnsizedIs DEF BlockOf
<1> HIDE DEF body
<1> QED
  BY <1>8, <1>9

(* Sequences of sequences, one after the other.                            *)
LEMMA FlattenIs ==
  ASSUME NEW S, NEW seqs \in Seq(Seq(S))
  PROVE  FlattenSeq(seqs) \in Seq(S)
<1> DEFINE n == Len(seqs)
           Is(f) == f = [i \in 1 .. n |->
                           IF i = 1 THEN seqs[i] ELSE f[i - 1] \o seqs[i]]
           w == CHOOSE f : Is(f)
<1>1. n \in Nat /\ \A i \in 1 .. n : seqs[i] \in Seq(S)
  BY LenProperties, ElementOfSeq
<1>2. CASE n = 0
  <2>1. seqs = <<>>
    BY <1>2, EmptySeq
  <2>2. FlattenSeq(seqs) = seqs
    BY <1>2 DEF FlattenSeq
  <2>3. <<>> \in Seq(S)
    OBVIOUS
  <2> QED
    BY <2>1, <2>2, <2>3
<1>3. CASE n # 0
  <2>1. FlattenSeq(seqs) = w[n]
    BY <1>3 DEF FlattenSeq
  <2>2. \E f : Is(f)
    <3> DEFINE F == [i \in 1 .. n |-> [x \in Seq(S) |-> x \o seqs[i]]]
    <3>1. \A i \in 1 .. n : \A x \in Seq(S) : x \o seqs[i] \in Seq(S)
      BY <1>1
    <3>2. F \in [1 .. n -> [Seq(S) -> Seq(S)]]
      BY <3>1
    <3>3. <<>> \in Seq(S)
      OBVIOUS
    <3>4. \A i \in 1 .. n : \A x \in Seq(S) : F[i][x] = x \o seqs[i]
      OBVIOUS
    <3> HIDE DEF F
    <3>5. PICK h : Runs(h, n, Seq(S), <<>>, F)
      <4>1. \E f : Runs(f, n, Seq(S), <<>>, F)
        BY <1>1, <3>2, <3>3, StepsExist
      <4> QED
        BY <4>1
    <3>6. h \in [0 .. n -> Seq(S)] /\ h[0] = <<>>
      BY <3>5 DEF Runs
    <3>7. \A i \in 1 .. n : h[i] = F[i][h[i - 1]]
      BY <3>5 DEF Runs
    <3>8. \A i \in 1 .. n : h[i] = h[i - 1] \o seqs[i]
      <4> TAKE i \in 1 .. n
      <4>1. i - 1 \in 0 .. n
        BY <1>1
      <4>2. h[i - 1] \in Seq(S)
        BY <3>6, <4>1
      <4> QED
        BY <3>4, <3>7, <4>2
    <3> DEFINE g == [i \in 1 .. n |-> h[i]]
    <3>9. ASSUME NEW i \in 1 .. n
          PROVE  g[i] = IF i = 1 THEN seqs[i] ELSE g[i - 1] \o seqs[i]
      <4>1. CASE i = 1
        <5>1. h[1] = <<>> \o seqs[1]
          <6>1. 1 \in 1 .. n /\ 1 - 1 = 0
            BY <4>1
          <6> QED
            BY <3>6, <3>8, <6>1
        <5>2. <<>> \o seqs[1] = seqs[1]
          BY <1>1, <4>1, ConcatEmptySeq
        <5> QED
          BY <4>1, <5>1, <5>2
      <4>2. CASE i # 1
        <5>1. i - 1 \in 1 .. n
          BY <1>1, <4>2
        <5>2. g[i - 1] = h[i - 1] /\ g[i] = h[i]
          BY <5>1
        <5> HIDE DEF g
        <5> QED
          BY <3>8, <4>2, <5>2
      <4> QED
        BY <4>1, <4>2
    <3>10. g = [i \in 1 .. n |-> g[i]]
      OBVIOUS
    <3> HIDE DEF g
    <3>11. Is(g)
      BY <3>9, <3>10
    <3> QED
      BY <3>11
  <2>3. Is(w)
    <3> HIDE DEF Is
    <3> QED
      BY <2>2
  <2> HIDE DEF w
  <2>4. \A i \in 1 .. n : w[i] = IF i = 1 THEN seqs[i] ELSE w[i - 1] \o seqs[i]
    BY <2>3
  <2> DEFINE T == {0} \cup {i \in 1 .. n : w[i] \in Seq(S)}
  <2>5. ASSUME NEW i \in 1 .. n, i - 1 \in T
        PROVE  i \in T
    <3>1. CASE i = 1
      <4>1. w[i] = seqs[i]
        BY <2>4, <3>1
      <4> QED
        BY <1>1, <4>1
    <3>2. CASE i # 1
      <4>1. w[i - 1] \in Seq(S)
        BY <2>5, <3>2
      <4>2. w[i] = w[i - 1] \o seqs[i]
        BY <2>4, <3>2
      <4>3. w[i - 1] \o seqs[i] \in Seq(S)
        <5>1. seqs[i] \in Seq(S)
          BY <1>1
        <5> QED
          BY <4>1, <5>1, ConcatProperties
      <4> QED
        BY <4>2, <4>3
    <3> QED
      BY <3>1, <3>2
  <2>6. 0 .. n \subseteq T
    <3>1. 0 \in T
      OBVIOUS
    <3> HIDE DEF T
    <3> QED
      BY <1>1, <2>5, <3>1, UpToInduction
  <2>7. w[n] \in Seq(S)
    BY <1>1, <1>3, <2>6
  <2> QED
    BY <2>1, <2>7
<1> QED
  BY <1>2, <1>3

-----------------------------------------------------------------------------
(* The fields of a function                                                *)

(* A field, an argument and a function of the signature.                   *)
Field == [type : Type, mode : Mode]

Argument == [mode : Mode, members : Seq(Type)]

(* The fields of a function's arguments.                                   *)
LEMMA FieldsIs ==
  ASSUME NEW args \in Seq(Argument)
  PROVE  Fields(args) \in Seq(Field)
<1> DEFINE n == Len(args)
           seqs == [i \in DOMAIN args |-> Members(args[i])]
<1>1. n \in Nat /\ DOMAIN args = 1 .. n
  BY LenProperties
<1>2. ASSUME NEW i \in 1 .. n
      PROVE  Members(args[i]) \in Seq(Field)
  <2>1. args[i] \in Argument
    BY <1>1, ElementOfSeq
  <2> DEFINE m == args[i].members
             r == [k \in DOMAIN m |-> [type |-> m[k], mode |-> args[i].mode]]
  <2>2. m \in Seq(Type) /\ args[i].mode \in Mode
    BY <2>1 DEF Argument
  <2>3. Len(m) \in Nat /\ DOMAIN m = 1 .. Len(m)
        /\ \A k \in 1 .. Len(m) : m[k] \in Type
    BY <2>2, LenProperties, ElementOfSeq
  <2>4. r \in [1 .. Len(m) -> Field]
    BY <2>2, <2>3 DEF Field
  <2> HIDE DEF r
  <2>5. r \in Seq(Field)
    BY <2>3, <2>4, FunctionIsSequence
  <2> QED
    BY <2>5 DEF Members, r
<1>3. seqs \in [1 .. n -> Seq(Field)]
  BY <1>1, <1>2
<1> HIDE DEF seqs
<1>4. seqs \in Seq(Seq(Field))
  BY <1>1, <1>3, FunctionIsSequence
<1>5. FlattenSeq(seqs) \in Seq(Field)
  BY <1>4, FlattenIs
<1> QED
  BY <1>5 DEF Fields, seqs

(* A function of the signature: what it returns and what it takes.         *)
Function == [result : Seq(Type), args : Seq(Argument)]

(* The fields of its result and of its reply.                              *)
LEMMA ReplyFieldsIs ==
  ASSUME NEW s \in Function
  PROVE  /\ ResultFields(s) \in Seq(Field) /\ Fields(s.args) \in Seq(Field)
         /\ Len(ResultFields(s)) = Len(s.result)
         /\ ReplyFields(s) \in Seq(Field)
<1> DEFINE m == s.result
           r == [i \in DOMAIN m |-> [type |-> m[i], mode |-> "reference"]]
<1>1. m \in Seq(Type) /\ s.args \in Seq(Argument)
  BY DEF Function
<1>2. Len(m) \in Nat /\ DOMAIN m = 1 .. Len(m)
      /\ \A k \in 1 .. Len(m) : m[k] \in Type
  BY <1>1, LenProperties, ElementOfSeq
<1>3. r \in [1 .. Len(m) -> Field]
  BY <1>2 DEF Field, Mode
<1> HIDE DEF r
<1>4. r \in Seq(Field) /\ Len(r) = Len(m)
  BY <1>2, <1>3, FunctionIsSequence
<1>5. Fields(s.args) \in Seq(Field)
  BY <1>1, FieldsIs
<1>6. r \o Fields(s.args) \in Seq(Field)
  BY <1>4, <1>5
<1> QED
  BY <1>4, <1>5, <1>6 DEF ResultFields, ReplyFields, r

(* The types of the fields, one for each.                                  *)
LEMMA TypesIs ==
  ASSUME NEW fs \in Seq(Field)
  PROVE  /\ Types(fs) \in Seq(Type) /\ Len(Types(fs)) = Len(fs)
         /\ Len(fs) \in Nat /\ DOMAIN fs = 1 .. Len(fs)
         /\ \A i \in 1 .. Len(fs) :
              Types(fs)[i] = fs[i].type /\ fs[i].type \in Type
<1>1. Len(fs) \in Nat /\ DOMAIN fs = 1 .. Len(fs)
      /\ \A k \in 1 .. Len(fs) : fs[k] \in Field
  BY LenProperties, ElementOfSeq
<1>2. \A k \in 1 .. Len(fs) : fs[k].type \in Type
  BY <1>1 DEF Field
<1>3. Types(fs) \in [1 .. Len(fs) -> Type]
  BY <1>1, <1>2 DEF Types
<1>4. Types(fs) \in Seq(Type) /\ Len(Types(fs)) = Len(fs)
  BY <1>1, <1>3, FunctionIsSequence
<1>5. \A i \in 1 .. Len(fs) : Types(fs)[i] = fs[i].type
  BY <1>1 DEF Types
<1> QED
  BY <1>1, <1>2, <1>4, <1>5

(* Blocks that may be values of the fields.                                *)
Rows(fs) == {vs \in [1 .. Len(fs) -> Block] :
               \A i \in 1 .. Len(fs) :
                 IsFixed(fs[i].type) => Len(vs[i]) = fs[i].type.size}

(* A value is a block, of the size of its type if that is fixed.           *)
LEMMA ValueIs ==
  ASSUME NEW t \in Type, NEW v \in Value(t)
  PROVE  v \in Block /\ (IsFixed(t) => Len(v) = t.size)
<1>1. PICK c \in Letter, n \in IF IsFixed(t) THEN {t.size} ELSE Length :
        v = [i \in 1 .. n |-> Byte(c, i)]
  BY DEF Value
<1>2. t.size \in Nat
  BY DEF Type
<1>3. n \in Nat /\ (IsFixed(t) => n = t.size)
  BY <1>1, <1>2, MarshalAssumption
<1>4. v \in [1 .. n -> AnyByte]
  BY <1>1, <1>3 DEF AnyByte
<1> QED
  BY <1>3, <1>4, FunctionIsSequence DEF Block

(* The values of the fields are such blocks.                               *)
LEMMA ValuesIs ==
  ASSUME NEW fs \in Seq(Field), NEW vs \in Values(fs)
  PROVE  vs \in Rows(fs)
<1>1. DOMAIN fs = 1 .. Len(fs) /\ \A i \in 1 .. Len(fs) : fs[i].type \in Type
  BY TypesIs
<1>2. \A i \in 1 .. Len(fs) : vs[i] \in Value(fs[i].type)
  BY <1>1 DEF Values
<1>3. \A i \in 1 .. Len(fs) :
        vs[i] \in Block /\ (IsFixed(fs[i].type) => Len(vs[i]) = fs[i].type.size)
  BY <1>1, <1>2, ValueIs
<1>4. DOMAIN vs = 1 .. Len(fs) /\ vs = [i \in 1 .. Len(fs) |-> vs[i]]
  BY <1>1 DEF Values
<1>5. vs \in [1 .. Len(fs) -> Block]
  BY <1>3, <1>4
<1> QED
  BY <1>3, <1>5 DEF Rows

(* So are those every argument starts as; strings and opaques are empty.   *)
LEMMA DefaultsIs ==
  ASSUME NEW fs \in Seq(Field)
  PROVE  /\ Defaults(fs) \in Rows(fs)
         /\ \A i \in 1 .. Len(fs) :
              ~ IsFixed(fs[i].type) => Len(Defaults(fs)[i]) = 0
<1>1. DOMAIN fs = 1 .. Len(fs) /\ \A i \in 1 .. Len(fs) : fs[i].type \in Type
  BY TypesIs
<1>2. ASSUME NEW t \in Type
      PROVE  /\ Default(t) \in Block
             /\ Len(Default(t)) = IF IsFixed(t) THEN t.size ELSE 0
  <2>1. CASE IsFixed(t)
    <3>1. t.size \in Nat
      BY DEF Type
    <3>2. Default(t) \in [1 .. t.size -> AnyByte]
      BY <2>1 DEF Default, AnyByte
    <3> QED
      BY <2>1, <3>1, <3>2, FunctionIsSequence DEF Block
  <2>2. CASE ~ IsFixed(t)
    BY <2>2 DEF Default, Block
  <2> QED
    BY <2>1, <2>2
<1>3. \A i \in 1 .. Len(fs) : Defaults(fs)[i] = Default(fs[i].type)
  BY <1>1 DEF Defaults
<1>4. \A i \in 1 .. Len(fs) :
        /\ Defaults(fs)[i] \in Block
        /\ Len(Defaults(fs)[i]) = IF IsFixed(fs[i].type) THEN fs[i].type.size ELSE 0
  BY <1>1, <1>2, <1>3
<1>5. Defaults(fs) \in [1 .. Len(fs) -> Block]
  BY <1>1, <1>4 DEF Defaults
<1> QED
  BY <1>4, <1>5 DEF Rows

(* Two sequences, one behind the other.                                    *)
LEMMA ConcatAt ==
  ASSUME NEW S, NEW x \in Seq(S), NEW y \in Seq(S), NEW m, NEW n,
         m = Len(x), n = Len(y)
  PROVE  /\ x \o y \in Seq(S) /\ Len(x \o y) = m + n
         /\ DOMAIN (x \o y) = 1 .. m + n
         /\ m \in Nat /\ n \in Nat
         /\ \A i \in 1 .. m + n :
              /\ i <= m => i \in 1 .. m /\ (x \o y)[i] = x[i]
              /\ i > m => i - m \in 1 .. n /\ (x \o y)[i] = y[i - m]
<1>1. m \in Nat /\ n \in Nat
  BY LenProperties
<1>2. /\ x \o y \in Seq(S) /\ Len(x \o y) = m + n
      /\ \A i \in 1 .. m + n :
           (x \o y)[i] = IF i <= m THEN x[i] ELSE y[i - m]
  BY ConcatProperties
<1> DEFINE z == x \o y
<1> HIDE DEF z
<1>3. /\ z \in Seq(S) /\ Len(z) = m + n
      /\ \A i \in 1 .. m + n : z[i] = IF i <= m THEN x[i] ELSE y[i - m]
  BY <1>2 DEF z
<1>4. DOMAIN z = 1 .. m + n
  BY <1>3, LenProperties
<1>5. ASSUME NEW i \in 1 .. m + n, i <= m
      PROVE  i \in 1 .. m /\ z[i] = x[i]
  BY <1>1, <1>3, <1>5
<1>6. ASSUME NEW i \in 1 .. m + n, i > m
      PROVE  i - m \in 1 .. n /\ z[i] = y[i - m]
  <2>1. ~ (i <= m) /\ i - m \in 1 .. n
    BY <1>1, <1>6
  <2> QED
    BY <1>3, <2>1
<1>7. /\ z \in Seq(S) /\ Len(z) = m + n
      /\ DOMAIN z = 1 .. m + n
      /\ m \in Nat /\ n \in Nat
      /\ \A i \in 1 .. m + n :
           /\ i <= m => i \in 1 .. m /\ z[i] = x[i]
           /\ i > m => i - m \in 1 .. n /\ z[i] = y[i - m]
  BY <1>1, <1>3, <1>4, <1>5, <1>6
<1> QED
  BY <1>7 DEF z

(* A row of values is a sequence of blocks.                                *)
LEMMA RowIsSequence ==
  ASSUME NEW fs \in Seq(Field), NEW vs \in Rows(fs)
  PROVE  vs \in Seq(Block) /\ Len(vs) = Len(fs)
<1>1. Len(fs) \in Nat /\ vs \in [1 .. Len(fs) -> Block]
  BY TypesIs DEF Rows
<1> QED
  BY <1>1, FunctionIsSequence

(* The values of the fields of two rows, one behind the other.             *)
LEMMA ValuesConcat ==
  ASSUME NEW fs \in Seq(Field), NEW gs \in Seq(Field),
         NEW vs \in Values(fs), NEW ws \in Values(gs)
  PROVE  vs \o ws \in Values(fs \o gs)
<1> DEFINE m == Len(fs)
           n == Len(gs)
           hs == fs \o gs
           xs == vs \o ws
<1>1. /\ vs \in Seq(Block) /\ m = Len(vs) /\ ws \in Seq(Block) /\ n = Len(ws)
  <2>1. vs \in Rows(fs) /\ ws \in Rows(gs)
    BY ValuesIs
  <2> QED
    BY <2>1, RowIsSequence
<1> HIDE DEF m, n
<1>2. /\ DOMAIN hs = 1 .. m + n /\ m \in Nat /\ n \in Nat
      /\ \A i \in 1 .. m + n :
           /\ i <= m => i \in 1 .. m /\ hs[i] = fs[i]
           /\ i > m => i - m \in 1 .. n /\ hs[i] = gs[i - m]
  BY ConcatAt DEF m, n
<1>3. /\ xs \in Seq(Block) /\ Len(xs) = m + n
      /\ DOMAIN xs = 1 .. m + n
      /\ \A i \in 1 .. m + n :
           /\ i <= m => i \in 1 .. m /\ xs[i] = vs[i]
           /\ i > m => i - m \in 1 .. n /\ xs[i] = ws[i - m]
  BY <1>1, ConcatAt
<1>4. xs = [i \in 1 .. m + n |-> xs[i]]
  <2> HIDE DEF xs
  <2>1. xs \in [1 .. Len(xs) -> Block]
    BY <1>3, LenProperties
  <2> QED
    BY <1>3, <2>1
<1>5. DOMAIN fs = 1 .. m /\ DOMAIN gs = 1 .. n
  BY TypesIs DEF m, n
<1>6. \A i \in 1 .. m : vs[i] \in Value(fs[i].type)
  BY <1>5 DEF Values
<1>7. \A i \in 1 .. n : ws[i] \in Value(gs[i].type)
  BY <1>5 DEF Values
<1> HIDE DEF hs, xs
<1>8. ASSUME NEW i \in 1 .. m + n
      PROVE  xs[i] \in Value(hs[i].type)
  <2>1. CASE i <= m
    BY <1>2, <1>3, <1>6, <2>1
  <2>2. CASE i > m
    BY <1>2, <1>3, <1>7, <2>2
  <2> QED
    BY <1>2, <2>1, <2>2
<1>9. xs \in Values(hs)
  <2> DEFINE U == UNION {Value(hs[i].type) : i \in DOMAIN hs}
  <2>1. \A i \in 1 .. m + n : xs[i] \in U
    BY <1>2, <1>8
  <2> HIDE DEF U
  <2>2. xs \in [1 .. m + n -> U]
    BY <1>4, <2>1
  <2> USE DEF U
  <2> QED
    BY <1>2, <1>8, <2>2 DEF Values
<1> QED
  BY <1>9 DEF hs, xs

-----------------------------------------------------------------------------
(* The call                                                                *)

(* The block of a call.                                                    *)
Call(s, vs) ==
  LET fs == Fields(s.args)
  IN  ArchiveReal(NewCore, Types(fs), vs, ClientArchives(fs))

(* The server's function gets the caller's arguments.                      *)
LEMMA ArgumentsArrive ==
  ASSUME NEW s \in Function, NEW vs \in Values(Fields(s.args))
  PROVE  /\ Call(s, vs) \in Block
         /\ LET fs == Fields(s.args)
            IN  RarchiveReal(Types(fs), Defaults(fs), ServerReads(fs), Call(s, vs))
                  = [values |-> vs, at |-> Len(Call(s, vs))]
<1> DEFINE fs == Fields(s.args)
           ts == Types(fs)
           n == Len(fs)
           all == DOMAIN fs
           olds == Defaults(fs)
<1>1. fs \in Seq(Field)
  BY ReplyFieldsIs
<1> HIDE DEF fs
<1>2. /\ ts \in Seq(Type) /\ Len(ts) = n /\ n \in Nat /\ all = 1 .. n
      /\ \A i \in 1 .. n : ts[i] = fs[i].type
  BY <1>1, TypesIs
<1>3. vs \in Rows(fs)
  <2>1. vs \in Values(fs)
    BY DEF fs
  <2> QED
    BY <1>1, <2>1, ValuesIs
<1>4. olds \in Rows(fs) /\ \A i \in 1 .. n : ~ IsFixed(fs[i].type) => Len(olds[i]) = 0
  BY <1>1, DefaultsIs
<1> HIDE DEF ts, olds, all, n
<1>5. \A i \in 1 .. n : vs[i] \in Block /\ olds[i] \in Block
  BY <1>3, <1>4 DEF Rows, n
<1>6. ASSUME NEW i \in 1 .. n
      PROVE  Fits(ts[i], olds[i], vs[i])
  <2>1. CASE IsFixed(fs[i].type)
    BY <1>2, <1>3, <1>4, <2>1 DEF Fits, Rows, n
  <2>2. CASE ~ IsFixed(fs[i].type)
    <3>1. Len(olds[i]) = 0 /\ Len(vs[i]) \in Nat
      BY <1>4, <1>5, <2>2, LenProperties DEF Block
    <3> QED
      BY <1>2, <2>2, <3>1 DEF Fits
  <2> QED
    BY <2>1, <2>2
<1> DEFINE block == ArchiveReal(NewCore, ts, vs, all)
<1>7. /\ block \in Block
      /\ RarchiveReal(ts, olds, all, block)
           = [values |-> Merged(vs, olds, all, n), at |-> Len(block)]
  BY <1>2, <1>5, <1>6, RoundTrip
<1>8. Merged(vs, olds, all, n) = vs
  <2>1. Merged(vs, olds, all, n) = [i \in 1 .. n |-> vs[i]]
    BY <1>2 DEF Merged
  <2>2. vs \in [1 .. n -> Block]
    BY <1>3 DEF Rows, n
  <2> QED
    BY <2>1, <2>2
<1>9. Call(s, vs) = block
  BY DEF Call, ClientArchives, fs, ts, all
<1> HIDE DEF block
<1> QED
  BY <1>7, <1>8, <1>9 DEF ServerReads, fs, ts, all, olds

-----------------------------------------------------------------------------
(* The reply                                                               *)

KeepsLength(fs, before, after) ==
  \A i \in Copied(fs) :
    fs[i].type.kind = "string" => Len(after[i]) >= Len(before[i])

(* The block of the reply.                                                 *)
Reply(s, left) ==
  LET fs == ReplyFields(s)
  IN  ArchiveReal(NewCore, Types(fs), left, ServerArchives(fs))

(* The variables the reply is read into are blocks of the right sizes.     *)
LEMMA BeforeIs ==
  ASSUME NEW s \in Function, NEW vs \in Values(Fields(s.args))
  PROVE  /\ Before(s, vs) \in Seq(Block)
         /\ Len(Before(s, vs)) = Len(ReplyFields(s))
         /\ \A i \in 1 .. Len(ReplyFields(s)) :
              IsFixed(ReplyFields(s)[i].type) =>
                Len(Before(s, vs)[i]) = ReplyFields(s)[i].type.size
<1> DEFINE rf == ResultFields(s)
           fs == Fields(s.args)
           ds == Defaults(rf)
           hs == rf \o fs
           xs == ds \o vs
           m == Len(rf)
           n == Len(fs)
<1>1. rf \in Seq(Field) /\ fs \in Seq(Field)
  BY ReplyFieldsIs
<1>2. vs \in Values(fs)
  OBVIOUS
<1>3. ReplyFields(s) = hs /\ Before(s, vs) = xs
  BY DEF ReplyFields, Before
<1> HIDE DEF rf, fs
<1>4. ds \in Rows(rf) /\ vs \in Rows(fs)
  BY <1>1, <1>2, DefaultsIs, ValuesIs
<1> HIDE DEF ds
<1>5. ds \in Seq(Block) /\ Len(ds) = m /\ vs \in Seq(Block) /\ Len(vs) = n
  BY <1>1, <1>4, RowIsSequence
<1>6. /\ Len(hs) = m + n /\ m \in Nat /\ n \in Nat
      /\ \A i \in 1 .. m + n :
           /\ i <= m => i \in 1 .. m /\ hs[i] = rf[i]
           /\ i > m => i - m \in 1 .. n /\ hs[i] = fs[i - m]
  BY <1>1, ConcatAt
<1>7. /\ Len(xs) = m + n /\ xs \in Seq(Block)
      /\ \A i \in 1 .. m + n :
           /\ i <= m => i \in 1 .. m /\ xs[i] = ds[i]
           /\ i > m => i - m \in 1 .. n /\ xs[i] = vs[i - m]
  BY <1>5, ConcatAt
<1>8. \A i \in 1 .. m : IsFixed(rf[i].type) => Len(ds[i]) = rf[i].type.size
  BY <1>4 DEF Rows
<1>9. \A i \in 1 .. n : IsFixed(fs[i].type) => Len(vs[i]) = fs[i].type.size
  BY <1>4 DEF Rows
<1> HIDE DEF hs, xs, m, n
<1>10. ASSUME NEW i \in 1 .. m + n, IsFixed(hs[i].type)
       PROVE  Len(xs[i]) = hs[i].type.size
  <2>1. CASE i <= m
    BY <1>6, <1>7, <1>8, <1>10, <2>1
  <2>2. CASE i > m
    BY <1>6, <1>7, <1>9, <1>10, <2>2
  <2> QED
    BY <1>6, <2>1, <2>2
<1>11. Len(xs) = Len(hs)
  BY <1>6, <1>7
<1> QED
  BY <1>3, <1>6, <1>7, <1>10, <1>11

(* The caller reads what the function left, if it kept its strings.        *)
LEMMA ReplyArrives ==
  ASSUME NEW s \in Function, NEW vs \in Values(Fields(s.args)),
         NEW left \in Values(ReplyFields(s))
  PROVE  /\ Reply(s, left) \in Block
         /\ Kept(s, vs, left) =>
              LET fs == ReplyFields(s)
              IN  RarchiveReal(Types(fs), Before(s, vs), ClientReads(fs),
                               Reply(s, left))
                    = [values |-> [i \in DOMAIN fs |->
                         IF i \in Copied(fs) THEN left[i] ELSE Before(s, vs)[i]],
                       at |-> Len(Reply(s, left))]
<1> DEFINE fs == ReplyFields(s)
           ts == Types(fs)
           n == Len(fs)
           some == Copied(fs)
           olds == Before(s, vs)
           block == ArchiveReal(NewCore, ts, left, some)
<1>0. fs \in Seq(Field) /\ left \in Values(fs)
  BY ReplyFieldsIs
<1>1. /\ olds \in Seq(Block) /\ Len(olds) = n
      /\ \A i \in 1 .. n : IsFixed(fs[i].type) => Len(olds[i]) = fs[i].type.size
  BY BeforeIs
<1>2. Kept(s, vs, left) => KeepsLength(fs, olds, left)
  BY DEF Kept, KeepsLength
<1>3. Reply(s, left) = block
  BY DEF Reply, ServerArchives
<1> HIDE DEF fs, olds
<1>4. /\ ts \in Seq(Type) /\ Len(ts) = n /\ n \in Nat /\ DOMAIN fs = 1 .. n
      /\ \A i \in 1 .. n : ts[i] = fs[i].type
  BY <1>0, TypesIs
<1>5. left \in Rows(fs)
  BY <1>0, ValuesIs
<1>6. some \subseteq 1 .. n
  BY <1>4 DEF Copied
<1> HIDE DEF ts, some
<1>7. \A i \in 1 .. n : left[i] \in Block
  BY <1>5 DEF Rows
<1>8. \A i \in 1 .. n : olds[i] \in Block
  BY <1>1, ElementOfSeq
<1>9. block \in Block
  <2>1. \A i \in 1 .. Len(ts) : i \in some => Fits(ts[i], left[i], left[i])
    <3> TAKE i \in 1 .. Len(ts)
    <3>1. left[i] \in Block
      BY <1>4, <1>7
    <3>2. Len(left[i]) \in Nat
      BY <3>1, LenProperties DEF Block
    <3> QED
      BY <3>2 DEF Fits
  <2>2. \A i \in 1 .. Len(ts) : left[i] \in Block /\ left[i] \in Block
    BY <1>4, <1>7
  <2> QED
    BY <1>4, <2>1, <2>2, RoundTrip
<1>10. ASSUME KeepsLength(fs, olds, left)
       PROVE  RarchiveReal(ts, olds, some, block)
                = [values |-> Merged(left, olds, some, n), at |-> Len(block)]
  <2>1. ASSUME NEW i \in 1 .. Len(ts), i \in some
        PROVE  Fits(ts[i], olds[i], left[i])
    <3>0. i \in 1 .. n /\ ts[i] = fs[i].type
      BY <1>4
    <3>1. CASE IsFixed(fs[i].type)
      <4>1. Len(olds[i]) = fs[i].type.size
        BY <1>1, <3>0, <3>1
      <4>2. Len(left[i]) = fs[i].type.size
        BY <1>5, <3>0, <3>1 DEF Rows, n
      <4> QED
        BY <3>0, <3>1, <4>1, <4>2 DEF Fits
    <3>2. CASE ~ IsFixed(fs[i].type)
      <4>1. fs[i].type.kind = "string" => Len(left[i]) >= Len(olds[i])
        BY <1>10, <2>1 DEF KeepsLength, some
      <4>2. Len(left[i]) \in Nat /\ Len(olds[i]) \in Nat
        BY <1>7, <1>8, <3>0, LenProperties DEF Block
      <4> QED
        BY <3>0, <3>2, <4>1, <4>2 DEF Fits
    <3> QED
      BY <3>1, <3>2
  <2>2. \A i \in 1 .. Len(ts) : left[i] \in Block /\ olds[i] \in Block
    BY <1>4, <1>7, <1>8
  <2>3. \A i \in 1 .. Len(ts) : i \in some => Fits(ts[i], olds[i], left[i])
    BY <2>1
  <2>4. /\ block \in Block
        /\ RarchiveReal(ts, olds, some, block)
             = [values |-> Merged(left, olds, some, Len(ts)), at |-> Len(block)]
    BY <1>4, <2>2, <2>3, RoundTrip
  <2> HIDE DEF block
  <2> QED
    BY <1>4, <2>4
<1>11. Merged(left, olds, some, n)
         = [i \in DOMAIN fs |-> IF i \in some THEN left[i] ELSE olds[i]]
  BY <1>4 DEF Merged
<1> HIDE DEF block, n
<1>12. KeepsLength(fs, olds, left) =>
         RarchiveReal(ts, olds, some, block)
           = [values |-> [i \in DOMAIN fs |->
                            IF i \in some THEN left[i] ELSE olds[i]],
              at |-> Len(block)]
  BY <1>10, <1>11
<1> QED
  BY <1>2, <1>3, <1>9, <1>12 DEF ClientReads, fs, ts, some, olds

(* The message of a failure comes back as it was sent.                     *)
LEMMA FailureArrives ==
  ASSUME NEW what \in Block
  PROVE  LET block == ArchiveReal(NewCore, What, <<what>>, {1})
         IN  /\ block \in Block
             /\ RarchiveReal(What, <<<<>>>>, {1}, block).values[1] = what
<1> DEFINE block == ArchiveReal(NewCore, What, <<what>>, {1})
           vs == <<what>>
           olds == <<<<>>>>
<1>1. What \in Seq(Type) /\ Len(What) = 1 /\ What[1].kind = "string"
  BY DEF What, Type, Kind
<1>2. <<>> \in Block
  BY DEF Block
<1>3. \A i \in 1 .. Len(What) : vs[i] \in Block /\ olds[i] \in Block
  BY <1>1, <1>2
<1>4. \A i \in 1 .. Len(What) : i \in {1} => Fits(What[i], olds[i], vs[i])
  <2>1. Len(what) \in Nat
    BY LenProperties DEF Block
  <2>2. Fits(What[1], <<>>, what)
    BY <1>1, <2>1 DEF Fits, IsFixed
  <2> QED
    BY <2>2
<1>5. /\ block \in Block
      /\ RarchiveReal(What, olds, {1}, block)
           = [values |-> Merged(vs, olds, {1}, Len(What)), at |-> Len(block)]
  BY <1>1, <1>3, <1>4, RoundTrip
<1>6. Merged(vs, olds, {1}, Len(What))[1] = what
  BY <1>1 DEF Merged
<1> HIDE DEF block
<1>7. RarchiveReal(What, olds, {1}, block).values[1] = what
  BY <1>5, <1>6
<1> QED
  BY <1>5, <1>7 DEF block

-----------------------------------------------------------------------------
(* The inductive invariant                                                 *)

(* The call is one of a function of the signature, with values of its own  *)
(* types.                                                                  *)
CallIsTyped == sig \in Signature /\ caller \in Values(Fields(sig.args))

(* Until it has served a call, the server has nothing.                     *)
NotServed == phase \in {"calling", "sent"} => server = Idle

(* The datagram under way holds the caller's arguments.                    *)
CallSent == phase = "sent" => wire = Message(HeadBytes, Call(sig, caller))

(* A call that was served was served with them.                            *)
CallServed ==
  phase = "served" =>
    server.seen = caller /\ server.used = Len(Call(sig, caller))

(* The reply that is under way, or was read, is that of what was left.     *)
ReplySent ==
  (phase \in {"served", "returned"} /\ server.stat = "success") =>
    /\ server.left \in Values(ReplyFields(sig))
    /\ wire = Message(HeadBytes, Reply(sig, server.left))

(* The failure that is under way is the one the function had.              *)
FailureSent ==
  (phase = "served" /\ server.stat = "cpp exception") =>
    /\ server.what \in Value(What[1]) \cup {Unknown}
    /\ wire = Message(HeadBytes,
                      ArchiveReal(NewCore, What, <<server.what>>, {1}))

(* What the caller has is what reading the reply gives.                    *)
ResultRead ==
  phase = "returned" =>
    /\ server.stat = "success"
    /\ LET fs == ReplyFields(sig)
           read == RarchiveReal(Types(fs), Before(sig, caller), ClientReads(fs),
                                BlockOf(Bodies(wire)[1]))
       IN  got.values = read.values /\ got.at = read.at

(* The inductive invariant.                                                *)
IInv ==
  /\ CallIsTyped
  /\ NotServed
  /\ CallSent
  /\ CallServed
  /\ ReplySent
  /\ FailureSent
  /\ ResultRead
  /\ CallerSeesFailure

(* The function of the call is a function.                                 *)
LEMMA SignatureIs ==
  ASSUME CallIsTyped
  PROVE  sig \in Function
<1>1. sig \in [result : Seq(Type), args : Seq([mode : Mode, members : Seq(Type)])]
  BY MarshalAssumption DEF CallIsTyped
<1> QED
  BY <1>1 DEF Function, Argument

(* The message of an unknown failure is a block.                           *)
LEMMA UnknownIs == Unknown \in Block
<1>1. Zero \in AnyByte
  BY DEF AnyByte
<1>2. \A z \in AnyByte : <<z, z, z>> \in Seq(AnyByte)
  OBVIOUS
<1> QED
  BY <1>1, <1>2 DEF Unknown, Block

(* A failure that is told is archived as its message.                      *)
LEMMA FailureIs ==
  ASSUME NEW what, Failure(what).stat = "cpp exception"
  PROVE  Failure(what).block = ArchiveReal(NewCore, What, <<what>>, {1})
BY DEF Failure

(* A failure never looks like a success.                                   *)
LEMMA FailureIsNoSuccess ==
  ASSUME NEW what
  PROVE  Failure(what).stat \in {"cpp exception", "c exception"}
BY DEF Failure

(* A success is archived as the reply, and what is refused as a failure.   *)
LEMMA SuccessIs ==
  ASSUME NEW left
  PROVE  /\ Success(left).stat = "success" =>
              Success(left).block = Reply(sig, left)
         /\ Success(left).stat = "cpp exception" =>
              Success(left).block = ArchiveReal(NewCore, What, <<Unknown>>, {1})
<1> DEFINE fs == ReplyFields(sig)
<1>1. CASE Refused(Types(fs), left, ServerArchives(fs))
  <2>1. Success(left) = Failure(Unknown)
    BY <1>1 DEF Success
  <2> QED
    BY <2>1, FailureIs, FailureIsNoSuccess
<1>2. CASE ~ Refused(Types(fs), left, ServerArchives(fs))
  BY <1>2 DEF Success, Reply
<1> QED
  BY <1>1, <1>2

(* What a datagram holds of which the block is known.                      *)
LEMMA OneBlock ==
  ASSUME NEW block \in Block, wire = Message(HeadBytes, block),
         NEW i \in DOMAIN Bodies(wire)
  PROVE  i = 1 /\ BlockOf(Bodies(wire)[i]) = block
<1>1. DOMAIN Bodies(wire) = {1} /\ BlockOf(Bodies(wire)[1]) = block
  BY MessageArrives
<1> QED
  BY <1>1

(* The server reads the caller's arguments.                                *)
LEMMA ServerReadsCall ==
  ASSUME IInv, phase = "sent", NEW i \in DOMAIN Bodies(wire)
  PROVE  Arguments(BlockOf(Bodies(wire)[i]))
           = [values |-> caller, at |-> Len(Call(sig, caller))]
<1>1. sig \in Function /\ caller \in Values(Fields(sig.args))
  BY SignatureIs DEF IInv, CallIsTyped
<1>2. /\ Call(sig, caller) \in Block
      /\ LET fs == Fields(sig.args)
         IN  RarchiveReal(Types(fs), Defaults(fs), ServerReads(fs),
                          Call(sig, caller))
               = [values |-> caller, at |-> Len(Call(sig, caller))]
  BY <1>1, ArgumentsArrive
<1>3. wire = Message(HeadBytes, Call(sig, caller))
  BY DEF IInv, CallSent
<1>4. BlockOf(Bodies(wire)[i]) = Call(sig, caller)
  BY <1>2, <1>3, OneBlock
<1> QED
  BY <1>2, <1>4 DEF Arguments

-----------------------------------------------------------------------------
(* Every step keeps it                                                     *)

(* It holds at first.                                                      *)
LEMMA InitHolds == Init => IInv
<1> SUFFICES ASSUME Init PROVE IInv
  OBVIOUS
<1> QED
  BY DEF Init, IInv, CallIsTyped, NotServed, CallSent, CallServed, ReplySent,
         FailureSent, ResultRead, CallerSeesFailure

(* A call that is too long was never served.                               *)
LEMMA PushThrowsKeeps ==
  ASSUME IInv, PushThrows
  PROVE  IInv'
<1>1. /\ phase = "calling" /\ phase' = "raised"
      /\ UNCHANGED <<sig, caller, wire, server, got>>
  BY DEF PushThrows
<1>2. server' = Idle /\ Idle.stat = "none"
  BY <1>1 DEF IInv, NotServed, Idle
<1>3. CallIsTyped'
  BY <1>1 DEF IInv, CallIsTyped
<1> QED
  BY <1>1, <1>2, <1>3 DEF IInv, NotServed, CallSent, CallServed, ReplySent,
     FailureSent, ResultRead, CallerSeesFailure

(* A call is sent with its arguments.                                      *)
LEMMA PushKeeps ==
  ASSUME IInv, Push
  PROVE  IInv'
<1>1. /\ phase = "calling" /\ phase' = "sent"
      /\ wire' = Message(HeadBytes, Call(sig, caller))
      /\ UNCHANGED <<sig, caller, server, got>>
  BY DEF Push, Call
<1>2. CallIsTyped' /\ NotServed'
  BY <1>1 DEF IInv, CallIsTyped, NotServed
<1>3. CallSent'
  BY <1>1 DEF CallSent
<1> QED
  BY <1>1, <1>2, <1>3 DEF IInv, CallServed, ReplySent,
     FailureSent, ResultRead, CallerSeesFailure

(* The function has got the arguments, and its reply is under way.         *)
LEMMA ServeKeeps ==
  ASSUME IInv, NEW i \in DOMAIN Bodies(wire), Serve(Bodies(wire)[i])
  PROVE  IInv'
<1> DEFINE fs == Fields(sig.args)
           rf == ResultFields(sig)
           args == Arguments(BlockOf(Bodies(wire)[i]))
<1>1. phase = "sent"
  BY DEF Serve
<1>2. args = [values |-> caller, at |-> Len(Call(sig, caller))]
  BY <1>1, ServerReadsCall
<1>3. PICK result \in Values(rf), after \in Leaves(fs, args.values) :
        Answer(args, result \o after, Unknown, Success(result \o after))
  BY DEF Serve
<1>4. PICK left : left = result \o after
  OBVIOUS
<1> HIDE DEF args
<1>5. /\ server' = [seen |-> caller, used |-> Len(Call(sig, caller)),
                    left |-> left, what |-> Unknown, stat |-> Success(left).stat]
      /\ wire' = Message(HeadBytes, Success(left).block)
      /\ phase' = "served"
      /\ UNCHANGED <<sig, caller, got>>
  BY <1>2, <1>3, <1>4 DEF Answer
<1>6. sig \in Function /\ caller \in Values(fs)
  BY SignatureIs DEF IInv, CallIsTyped
<1>7. after \in Values(fs)
  BY <1>2, <1>3 DEF Leaves
<1>8. rf \in Seq(Field) /\ fs \in Seq(Field) /\ ReplyFields(sig) = rf \o fs
  BY <1>6, ReplyFieldsIs DEF ReplyFields
<1>9. left \in Values(ReplyFields(sig))
  BY <1>3, <1>4, <1>7, <1>8, ValuesConcat
<1>11. CallIsTyped'
  BY <1>5 DEF IInv, CallIsTyped
<1>12. NotServed' /\ CallSent' /\ ResultRead' /\ CallerSeesFailure'
  BY <1>5 DEF NotServed, CallSent, ResultRead, CallerSeesFailure
<1>13. CallServed'
  <2>1. server'.seen = caller' /\ server'.used = Len(Call(sig', caller'))
    BY <1>5
  <2> QED
    BY <2>1 DEF CallServed
<1>14. ReplySent'
  <2> SUFFICES ASSUME Success(left).stat = "success"
               PROVE  ReplySent'
    BY <1>5 DEF ReplySent
  <2>1. Success(left).block = Reply(sig, left)
    BY SuccessIs
  <2>2. server'.left = left /\ sig' = sig /\ caller' = caller
    BY <1>5
  <2>3. wire' = Message(HeadBytes, Reply(sig', server'.left))
    BY <1>5, <2>1, <2>2
  <2>4. server'.left \in Values(ReplyFields(sig'))
    BY <1>9, <2>2
  <2> QED
    BY <2>3, <2>4 DEF ReplySent
<1>15. FailureSent'
  <2> SUFFICES ASSUME Success(left).stat = "cpp exception"
               PROVE  FailureSent'
    BY <1>5 DEF FailureSent
  <2>1. Success(left).block = ArchiveReal(NewCore, What, <<Unknown>>, {1})
    BY SuccessIs
  <2>2. server'.what = Unknown
    BY <1>5
  <2> QED
    BY <1>5, <2>1, <2>2 DEF FailureSent
<1> QED
  BY <1>11, <1>12, <1>13, <1>14, <1>15 DEF IInv

(* The function has got the arguments, and its message is under way.       *)
LEMMA ServeThrowsKeeps ==
  ASSUME IInv, NEW i \in DOMAIN Bodies(wire), ServeThrows(Bodies(wire)[i])
  PROVE  IInv'
<1> DEFINE args == Arguments(BlockOf(Bodies(wire)[i]))
<1>1. phase = "sent"
  BY DEF ServeThrows
<1>2. args = [values |-> caller, at |-> Len(Call(sig, caller))]
  BY <1>1, ServerReadsCall
<1>3. PICK what \in Value(What[1]) : Answer(args, <<>>, what, Failure(what))
  BY DEF ServeThrows
<1> HIDE DEF args
<1>4. /\ server' = [seen |-> caller, used |-> Len(Call(sig, caller)),
                    left |-> <<>>, what |-> what, stat |-> Failure(what).stat]
      /\ wire' = Message(HeadBytes, Failure(what).block)
      /\ phase' = "served"
      /\ UNCHANGED <<sig, caller, got>>
  BY <1>2, <1>3 DEF Answer
<1>5. server'.stat # "success"
  BY <1>4, FailureIsNoSuccess
<1>6. CallIsTyped'
  BY <1>4 DEF IInv, CallIsTyped
<1>7. NotServed' /\ CallSent' /\ ResultRead' /\ CallerSeesFailure'
  BY <1>4 DEF NotServed, CallSent, ResultRead, CallerSeesFailure
<1>8. CallServed'
  <2>1. server'.seen = caller' /\ server'.used = Len(Call(sig', caller'))
    BY <1>4
  <2> QED
    BY <2>1 DEF CallServed
<1>9. ReplySent'
  BY <1>5 DEF ReplySent
<1>10. FailureSent'
  <2> SUFFICES ASSUME Failure(what).stat = "cpp exception"
               PROVE  FailureSent'
    BY <1>4 DEF FailureSent
  <2>1. Failure(what).block = ArchiveReal(NewCore, What, <<what>>, {1})
    BY FailureIs
  <2>2. server'.what = what
    BY <1>4
  <2> QED
    BY <1>3, <1>4, <2>1, <2>2 DEF FailureSent
<1> QED
  BY <1>6, <1>7, <1>8, <1>9, <1>10 DEF IInv

(* The caller reads the reply that was sent.                               *)
LEMMA ResultKeeps ==
  ASSUME IInv, NEW i \in DOMAIN Bodies(wire), Result(Bodies(wire)[i])
  PROVE  IInv'
<1> DEFINE fs == ReplyFields(sig)
           Read1(body) == RarchiveReal(Types(fs), Before(sig, caller),
                                       ClientReads(fs), BlockOf(body))
<1>1. /\ phase = "served" /\ server.stat = "success" /\ phase' = "returned"
      /\ UNCHANGED <<sig, caller, wire, server>>
  BY DEF Result
<1>2. /\ got'.values = Read1(Bodies(wire)[i]).values
      /\ got'.at = Read1(Bodies(wire)[i]).at
  BY DEF Result, Before
<1>3. sig \in Function /\ caller \in Values(Fields(sig.args))
  BY SignatureIs DEF IInv, CallIsTyped
<1>4. /\ server.left \in Values(ReplyFields(sig))
      /\ wire = Message(HeadBytes, Reply(sig, server.left))
  BY <1>1 DEF IInv, ReplySent
<1>5. Reply(sig, server.left) \in Block
  BY <1>3, <1>4, ReplyArrives
<1>6. i = 1
  BY <1>4, <1>5, OneBlock
<1>7. ResultRead'
  <2> DEFINE r == Read1(Bodies(wire)[1])
  <2>1. got'.values = r.values /\ got'.at = r.at
    BY <1>2, <1>6
  <2> QED
    BY <1>1, <2>1 DEF ResultRead
<1>8. CallIsTyped'
  BY <1>1 DEF IInv, CallIsTyped
<1>9. ReplySent'
  BY <1>1 DEF IInv, ReplySent
<1>10. /\ NotServed' /\ CallSent' /\ CallServed' /\ FailureSent'
       /\ CallerSeesFailure'
  BY <1>1 DEF NotServed, CallSent, CallServed, FailureSent, CallerSeesFailure
<1> QED
  BY <1>7, <1>8, <1>9, <1>10 DEF IInv

(* The caller reads the message that was sent.                             *)
LEMMA RaiseKeeps ==
  ASSUME IInv, NEW i \in DOMAIN Bodies(wire), Raise(Bodies(wire)[i])
  PROVE  IInv'
<1>1. /\ phase = "served" /\ server.stat # "success" /\ phase' = "raised"
      /\ UNCHANGED <<sig, caller, wire, server>>
  BY DEF Raise
<1>2. CallIsTyped'
  BY <1>1 DEF IInv, CallIsTyped
<1>3. CallerSeesFailure'
  <2> SUFFICES ASSUME server.stat = "cpp exception"
               PROVE  got'.what = server.what
    BY <1>1 DEF CallerSeesFailure
  <2>1. /\ server.what \in Value(What[1]) \cup {Unknown}
        /\ wire = Message(HeadBytes,
                          ArchiveReal(NewCore, What, <<server.what>>, {1}))
    BY <1>1 DEF IInv, FailureSent
  <2>2. server.what \in Block
    <3>1. What[1] \in Type
      BY DEF What, Type, Kind
    <3> QED
      BY <2>1, <3>1, UnknownIs, ValueIs
  <2> DEFINE block == ArchiveReal(NewCore, What, <<server.what>>, {1})
  <2>3. /\ block \in Block
        /\ RarchiveReal(What, <<<<>>>>, {1}, block).values[1] = server.what
    BY <2>2, FailureArrives
  <2>4. BlockOf(Bodies(wire)[i]) = block
    BY <2>1, <2>3, OneBlock
  <2> HIDE DEF block
  <2>5. got'.what
          = RarchiveReal(What, <<<<>>>>, {1}, BlockOf(Bodies(wire)[i])).values[1]
    BY DEF Raise
  <2> QED
    BY <2>3, <2>4, <2>5
<1>4. /\ NotServed' /\ CallSent' /\ CallServed' /\ ReplySent' /\ FailureSent'
      /\ ResultRead'
  BY <1>1 DEF NotServed, CallSent, CallServed, ReplySent, FailureSent, ResultRead
<1> QED
  BY <1>2, <1>3, <1>4 DEF IInv

(* Nothing happens.                                                        *)
LEMMA StutterKeeps ==
  ASSUME IInv, UNCHANGED vars
  PROVE  IInv'
<1>1. UNCHANGED <<phase, sig, caller, wire, server, got>>
  BY DEF vars
<1>2. CallIsTyped' /\ NotServed' /\ CallSent' /\ CallServed'
  BY <1>1 DEF IInv, CallIsTyped, NotServed, CallSent, CallServed
<1>3. ReplySent' /\ FailureSent'
  BY <1>1 DEF IInv, ReplySent, FailureSent
<1>4. ResultRead' /\ CallerSeesFailure'
  BY <1>1 DEF IInv, ResultRead, CallerSeesFailure
<1> QED
  BY <1>2, <1>3, <1>4 DEF IInv

(* The invariant holds of every call of every function of the signature.   *)
THEOREM MarshalInvariant == Spec => []IInv
<1>1. Init => IInv
  BY InitHolds
<1>2. IInv /\ [Next]_vars => IInv'
  <2> SUFFICES ASSUME IInv, [Next]_vars
               PROVE  IInv'
    OBVIOUS
  <2>1. CASE PushThrows
    BY <2>1, PushThrowsKeeps
  <2>2. CASE Push
    BY <2>2, PushKeeps
  <2>3. CASE ProcessMsg
    <3>1. PICK i \in DOMAIN Bodies(wire) :
            \/ Serve(Bodies(wire)[i]) \/ ServeThrows(Bodies(wire)[i])
            \/ Result(Bodies(wire)[i]) \/ Raise(Bodies(wire)[i])
      BY <2>3 DEF ProcessMsg
    <3>2. CASE Serve(Bodies(wire)[i])
      BY <3>2, ServeKeeps
    <3>3. CASE ServeThrows(Bodies(wire)[i])
      BY <3>3, ServeThrowsKeeps
    <3>4. CASE Result(Bodies(wire)[i])
      BY <3>4, ResultKeeps
    <3>5. CASE Raise(Bodies(wire)[i])
      BY <3>5, RaiseKeeps
    <3> QED
      BY <3>1, <3>2, <3>3, <3>4, <3>5
  <2>4. CASE UNCHANGED vars
    BY <2>4, StutterKeeps
  <2> QED
    BY <2>1, <2>2, <2>3, <2>4 DEF Next
<1> QED
  BY <1>1, <1>2, PTL DEF Spec

-----------------------------------------------------------------------------
(* What follows                                                            *)

(* imouto_client_stub::push and imouto_server_stub::invoke: whatever the   *)
(* function takes, and whichever way it takes it, it runs on the arguments *)
(* of the call, and reading them takes just the bytes that were written.   *)
THEOREM ArgumentsReachTheFunction == Spec => []ServerSeesArguments
<1>1. IInv => ServerSeesArguments
  BY DEF IInv, CallServed, ServerSeesArguments, Call
<1> QED
  BY <1>1, MarshalInvariant, PTL

(* rpc_exception and _make_exception: what a function throws, if it can be *)
(* sent at all, is what the caller is told.                                *)
THEOREM FailuresReachTheCaller == Spec => []CallerSeesFailure
<1>1. IInv => CallerSeesFailure
  BY DEF IInv
<1> QED
  BY <1>1, MarshalInvariant, PTL

(* It follows from the invariant: the reply is read by the filter it was   *)
(* written by.                                                             *)
LEMMA InvariantGivesResults ==
  IInv => CallerSeesResults
<1> SUFFICES ASSUME IInv, Kept(sig, caller, server.left), phase = "returned"
             PROVE  CallerSeesResults
  BY DEF CallerSeesResults
<1> DEFINE fs == ReplyFields(sig)
           block == Reply(sig, server.left)
           read == RarchiveReal(Types(fs), Before(sig, caller), ClientReads(fs),
                                BlockOf(Bodies(wire)[1]))
<1>1. server.stat = "success" /\ got.values = read.values /\ got.at = read.at
  BY DEF IInv, ResultRead
<1>2. server.left \in Values(fs) /\ wire = Message(HeadBytes, block)
  BY <1>1 DEF IInv, ReplySent
<1>3. sig \in Function /\ caller \in Values(Fields(sig.args))
  BY SignatureIs DEF IInv, CallIsTyped
<1>4. /\ block \in Block
      /\ RarchiveReal(Types(fs), Before(sig, caller), ClientReads(fs), block)
           = [values |-> [i \in DOMAIN fs |->
                IF i \in Copied(fs) THEN server.left[i] ELSE Before(sig, caller)[i]],
              at |-> Len(block)]
  BY <1>2, <1>3, ReplyArrives
<1>5. BlockOf(Bodies(wire)[1]) = block
  BY <1>2, <1>4, MessageArrives
<1> HIDE DEF block
<1>6. /\ got.values = [i \in DOMAIN fs |->
           IF i \in Copied(fs) THEN server.left[i] ELSE Before(sig, caller)[i]]
      /\ got.at = Len(BlockOf(Bodies(wire)[1]))
  BY <1>1, <1>4, <1>5
<1> QED
  BY <1>6 DEF CallerSeesResults, Before

(* imouto_client_stub::result, for any function: a call that kept its      *)
(* strings gives the caller its results and leaves him his other arguments. *)
THEOREM ResultsReachTheCaller == Spec => []CallerSeesResults
BY InvariantGivesResults, MarshalInvariant, PTL
=============================================================================
