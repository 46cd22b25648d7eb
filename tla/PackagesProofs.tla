--------------------------- MODULE PackagesProofs ---------------------------
(***************************************************************************)
(* For every size of a word, of packages and of the reserve, and any       *)
(* number of blocks: the buffer never ends before what was written, the    *)
(* slots keep leading to the blocks, and the analysis finds what was       *)
(* pushed.                                                                 *)
(*                                                                         *)
(* Both are read cell by cell: growing keeps the cells in use, writing     *)
(* goes behind them, and counting a package changes only the first word.   *)
(* So every block stands where it was put, the packages lie edge to edge   *)
(* behind the header, and the analysis walks from one edge to the next.    *)
(***************************************************************************)
EXTENDS Packages, TLAPS, SequenceTheorems

Cell == {"word", "block", "junk", "changed"} \X Nat \X Nat

MemoryOK(m) ==
  /\ m \in [cells : Seq(Cell), size : Nat, allocated : Nat]
  /\ Inside(m)

(* A word and a block, cell by cell.                                       *)
WordStands(cells, i, n) == \A j \in 1 .. Word : cells[i + j] = <<"word", n, j>>
BlockStands(cells, p, k, len) == \A j \in 1 .. len : cells[p + j] = <<"block", k, j>>

Grown(m, new, m2) ==
  /\ MemoryOK(m2)
  /\ m2.size = m.size + Len(new)
  /\ \A i \in 1 .. m.size : m2.cells[i] = m.cells[i]
  /\ \A i \in 1 .. Len(new) : m2.cells[m.size + i] = new[i]

(* A function on 1 .. n is a sequence of n elements.                       *)
LEMMA FunctionIsSequence ==
  ASSUME NEW S, NEW n \in Nat, NEW f \in [1 .. n -> S]
  PROVE  f \in Seq(S) /\ Len(f) = n
<1>1. f \in Seq(S)
  BY SeqDef
<1>2. Len(f) \in Nat /\ DOMAIN f = 1 .. Len(f)
  BY <1>1, LenProperties
<1>3. DOMAIN f = 1 .. n
  OBVIOUS
<1>4. Len(f) = n
  BY <1>2, <1>3
<1> QED
  BY <1>1, <1>4

(* What a word, a block and free memory are made of.                       *)
LEMMA WordCellsIs ==
  ASSUME NEW n \in Nat
  PROVE  /\ WordCells(n) \in Seq(Cell) /\ Len(WordCells(n)) = Word
         /\ \A i \in 1 .. Word : WordCells(n)[i] = <<"word", n, i>>
<1>1. WordCells(n) \in [1 .. Word -> Cell]
  BY WordAssumption DEF WordCells, Cell
<1>2. \A i \in 1 .. Word : WordCells(n)[i] = <<"word", n, i>>
  BY DEF WordCells
<1> QED
  BY <1>1, <1>2, FunctionIsSequence, WordAssumption

LEMMA BlockCellsIs ==
  ASSUME NEW k \in Nat, NEW len \in Nat
  PROVE  /\ BlockCells(k, len) \in Seq(Cell) /\ Len(BlockCells(k, len)) = len
         /\ \A i \in 1 .. len : BlockCells(k, len)[i] = <<"block", k, i>>
<1>1. BlockCells(k, len) \in [1 .. len -> Cell]
  BY DEF BlockCells, Cell
<1>2. \A i \in 1 .. len : BlockCells(k, len)[i] = <<"block", k, i>>
  BY DEF BlockCells
<1> QED
  BY <1>1, <1>2, FunctionIsSequence

LEMMA AllocateIs ==
  ASSUME NEW n \in Nat
  PROVE  Allocate(n) \in Seq(Cell) /\ Len(Allocate(n)) = n
<1>1. Allocate(n) \in [1 .. n -> Cell]
  BY DEF Allocate, Junk, Cell
<1> QED
  BY <1>1, FunctionIsSequence

(* Overwrite puts the new cells behind "from" and leaves the others.       *)
LEMMA OverwriteIs ==
  ASSUME NEW cells \in Seq(Cell), NEW new \in Seq(Cell), NEW from \in Nat
  PROVE  LET o == Overwrite(cells, from, new)
         IN  /\ o \in Seq(Cell)
             /\ Len(o) = IF from + Len(new) > Len(cells) THEN from + Len(new)
                                                         ELSE Len(cells)
             /\ \A j \in 1 .. Len(new) : o[from + j] = new[j]
             /\ \A i \in 1 .. Len(cells) :
                  i \notin from + 1 .. from + Len(new) => o[i] = cells[i]
<1> DEFINE n == IF from + Len(new) > Len(cells) THEN from + Len(new)
                                                ELSE Len(cells)
           e(i) == IF i \in from + 1 .. from + Len(new) THEN new[i - from]
                   ELSE IF i \in DOMAIN cells THEN cells[i] ELSE Junk
           o == [i \in 1 .. n |-> e(i)]
<1>1. /\ Len(cells) \in Nat /\ DOMAIN cells = 1 .. Len(cells)
      /\ \A i \in 1 .. Len(cells) : cells[i] \in Cell
  BY LenProperties, ElementOfSeq
<1>2. Len(new) \in Nat /\ \A i \in 1 .. Len(new) : new[i] \in Cell
  BY LenProperties, ElementOfSeq
<1>3. Overwrite(cells, from, new) = o
  BY DEF Overwrite
<1>4. n \in Nat /\ from + Len(new) <= n /\ Len(cells) <= n
  BY <1>1, <1>2
<1>5. \A i \in 1 .. n : e(i) \in Cell
  <2> SUFFICES ASSUME NEW i \in 1 .. n
               PROVE  e(i) \in Cell
    OBVIOUS
  <2>1. CASE i \in from + 1 .. from + Len(new)
    <3>1. i - from \in 1 .. Len(new)
      BY <2>1, <1>2
    <3> QED
      BY <2>1, <3>1, <1>2
  <2>2. CASE i \notin from + 1 .. from + Len(new)
    BY <2>2, <1>1 DEF Junk, Cell
  <2> QED
    BY <2>1, <2>2
<1>6. o \in [1 .. n -> Cell]
  BY <1>5
<1>7. o \in Seq(Cell) /\ Len(o) = n
  BY <1>4, <1>6, FunctionIsSequence
<1>8. \A j \in 1 .. Len(new) : o[from + j] = new[j]
  <2> SUFFICES ASSUME NEW j \in 1 .. Len(new)
               PROVE  o[from + j] = new[j]
    OBVIOUS
  <2>1. from + j \in 1 .. n /\ from + j \in from + 1 .. from + Len(new)
        /\ from + j - from = j
    BY <1>2, <1>4
  <2> QED
    BY <2>1
<1>9. \A i \in 1 .. Len(cells) :
        i \notin from + 1 .. from + Len(new) => o[i] = cells[i]
  BY <1>1, <1>4
<1> QED
  BY <1>3, <1>7, <1>8, <1>9

(* Cells without the ones at the end.                                      *)
LEMMA ContentIs ==
  ASSUME NEW m, MemoryOK(m)
  PROVE  /\ Content(m) \in Seq(Cell) /\ Len(Content(m)) = m.size
         /\ \A i \in 1 .. m.size : Content(m)[i] = m.cells[i]
<1>1. /\ m.cells \in Seq(Cell) /\ m.size \in Nat /\ m.size <= Len(m.cells)
      /\ Len(m.cells) \in Nat
  BY LenProperties DEF MemoryOK, Inside
<1>2. \A i \in 1 .. m.size : m.cells[i] \in Cell
  BY <1>1, ElementOfSeq
<1>3. /\ SubSeq(m.cells, 1, m.size) \in Seq(Cell)
      /\ Len(SubSeq(m.cells, 1, m.size))
           = IF 1 <= m.size THEN m.size - 1 + 1 ELSE 0
      /\ \A i \in 1 .. m.size - 1 + 1 :
           SubSeq(m.cells, 1, m.size)[i] = m.cells[1 + i - 1]
  BY <1>1, <1>2, SubSeqProperties
<1> QED
  BY <1>1, <1>3 DEF Content

(* Growing: what is in use is copied to a larger buffer.                   *)
LEMMA ExternIs ==
  ASSUME NEW m, MemoryOK(m), NEW pre \in Nat, NEW ex \in Nat,
         m.size <= 2 * pre + ex
  PROVE  LET m2 == Extern(m, pre, ex)
         IN  /\ MemoryOK(m2) /\ m2.size = m.size
             /\ Len(m2.cells) = 2 * pre + ex
             /\ \A i \in 1 .. m.size : m2.cells[i] = m.cells[i]
<1> DEFINE n == 2 * pre + ex
           o == Overwrite(Allocate(n), 0, Content(m))
           m2 == Extern(m, pre, ex)
<1>1. n \in Nat
  OBVIOUS
<1>2. Allocate(n) \in Seq(Cell) /\ Len(Allocate(n)) = n
  BY <1>1, AllocateIs
<1>3. /\ m \in [cells : Seq(Cell), size : Nat, allocated : Nat]
      /\ m.size \in Nat
  BY DEF MemoryOK
<1>4. /\ Content(m) \in Seq(Cell) /\ Len(Content(m)) = m.size
      /\ \A i \in 1 .. m.size : Content(m)[i] = m.cells[i]
  BY ContentIs
<1>5. /\ o \in Seq(Cell) /\ Len(o) = n
      /\ \A j \in 1 .. m.size : o[0 + j] = Content(m)[j]
  BY <1>1, <1>2, <1>3, <1>4, OverwriteIs
<1>6. m2 = [m EXCEPT !.cells = o, !.allocated = n]
  BY DEF Extern
<1> HIDE DEF n, o
<1>7. /\ m2 \in [cells : Seq(Cell), size : Nat, allocated : Nat]
      /\ m2.cells = o /\ m2.size = m.size /\ m2.allocated = n
  BY <1>1, <1>3, <1>5, <1>6
<1>8. MemoryOK(m2)
  BY <1>5, <1>7 DEF MemoryOK, Inside, n
<1>9. \A i \in 1 .. m.size : m2.cells[i] = m.cells[i]
  BY <1>3, <1>4, <1>5, <1>7
<1> QED
  BY <1>5, <1>7, <1>8, <1>9 DEF n

(* What push and alloc do when there is room.                              *)
LEMMA WriteIs ==
  ASSUME NEW m, NEW room, MemoryOK(m), MemoryOK(room), NEW new \in Seq(Cell),
         room.size = m.size,
         \A i \in 1 .. m.size : room.cells[i] = m.cells[i],
         m.size + Len(new) <= Len(room.cells)
  PROVE  Grown(m, new, [room EXCEPT !.cells = Overwrite(room.cells, m.size, new),
                                    !.size = room.size + Len(new)])
<1> DEFINE o == Overwrite(room.cells, m.size, new)
           m2 == [room EXCEPT !.cells = o, !.size = room.size + Len(new)]
<1>1. /\ room \in [cells : Seq(Cell), size : Nat, allocated : Nat]
      /\ m.size \in Nat /\ room.cells \in Seq(Cell) /\ room.size \in Nat
      /\ Len(room.cells) = room.allocated
  BY DEF MemoryOK, Inside
<1>2. Len(new) \in Nat /\ Len(room.cells) \in Nat
  BY <1>1, LenProperties
<1>3. /\ o \in Seq(Cell)
      /\ Len(o) = IF m.size + Len(new) > Len(room.cells) THEN m.size + Len(new)
                                                         ELSE Len(room.cells)
      /\ \A j \in 1 .. Len(new) : o[m.size + j] = new[j]
      /\ \A i \in 1 .. Len(room.cells) :
           i \notin m.size + 1 .. m.size + Len(new) => o[i] = room.cells[i]
  BY <1>1, OverwriteIs
<1>4. Len(o) = Len(room.cells)
  BY <1>1, <1>2, <1>3
<1>5. m.size + Len(new) \in Nat /\ o \in Seq(Cell)
      /\ room.size + Len(new) = m.size + Len(new)
  BY <1>1, <1>2, <1>3
<1> HIDE DEF o
<1>6. /\ m2 \in [cells : Seq(Cell), size : Nat, allocated : Nat]
      /\ m2.cells = o /\ m2.size = m.size + Len(new)
      /\ m2.allocated = room.allocated
  BY <1>1, <1>5
<1> HIDE DEF m2
<1>7. MemoryOK(m2)
  BY <1>1, <1>2, <1>4, <1>6 DEF MemoryOK, Inside
<1>8. \A i \in 1 .. m.size : m2.cells[i] = m.cells[i]
  BY <1>1, <1>2, <1>3, <1>6
<1>9. \A i \in 1 .. Len(new) : m2.cells[m.size + i] = new[i]
  BY <1>3, <1>6
<1> QED
  BY <1>6, <1>7, <1>8, <1>9 DEF Grown, m2, o

(* push and alloc put the new cells behind those in use.                   *)
LEMMA PushMemoryGrows ==
  ASSUME NEW m, MemoryOK(m), NEW new \in Seq(Cell)
  PROVE  Grown(m, new, PushMemory(m, new))
<1> DEFINE room == IF Rest(m) < Len(new) THEN Extern(m, Capacity(m), Len(new))
                                         ELSE m
<1>1. /\ m.size \in Nat /\ Len(m.cells) \in Nat /\ Len(new) \in Nat
      /\ m.size <= Len(m.cells)
  BY LenProperties DEF MemoryOK, Inside
<1>2. /\ MemoryOK(room) /\ room.size = m.size
      /\ \A i \in 1 .. m.size : room.cells[i] = m.cells[i]
      /\ m.size + Len(new) <= Len(room.cells)
  <2>1. CASE Rest(m) < Len(new)
    <3>1. Capacity(m) \in Nat /\ m.size <= 2 * Capacity(m) + Len(new)
          /\ m.size + Len(new) <= 2 * Capacity(m) + Len(new)
      BY <1>1 DEF Capacity
    <3> HIDE DEF Capacity
    <3>2. LET m2 == Extern(m, Capacity(m), Len(new))
          IN  /\ MemoryOK(m2) /\ m2.size = m.size
              /\ Len(m2.cells) = 2 * Capacity(m) + Len(new)
              /\ \A i \in 1 .. m.size : m2.cells[i] = m.cells[i]
      BY <1>1, <3>1, ExternIs
    <3> QED
      BY <2>1, <3>1, <3>2
  <2>2. CASE ~ (Rest(m) < Len(new))
    BY <1>1, <2>2 DEF Rest, Capacity
  <2> QED
    BY <2>1, <2>2
<1> DEFINE m2 == [room EXCEPT !.cells = Overwrite(room.cells, m.size, new),
                              !.size = room.size + Len(new)]
<1>3. PushMemory(m, new) = m2
  BY DEF PushMemory
<1>4. Grown(m, new, m2)
  <2> HIDE DEF room
  <2> QED
    BY <1>2, WriteIs
<1> QED
  BY <1>3, <1>4

(* try_extern keeps what is in use and makes room.                         *)
LEMMA TryExternIs ==
  ASSUME NEW m, MemoryOK(m), NEW ex \in Nat
  PROVE  LET room == TryExtern(m, ex)
         IN  /\ MemoryOK(room) /\ room.size = m.size
             /\ \A i \in 1 .. m.size : room.cells[i] = m.cells[i]
             /\ m.size + ex <= Len(room.cells)
<1>1. /\ m.size \in Nat /\ Len(m.cells) \in Nat /\ m.size <= Len(m.cells)
  BY LenProperties DEF MemoryOK, Inside
<1>2. CASE Capacity(m) < m.size + ex
  <2>1. m.size <= 2 * m.size + ex /\ m.size + ex <= 2 * m.size + ex
    BY <1>1
  <2>2. LET m2 == Extern(m, m.size, ex)
        IN  /\ MemoryOK(m2) /\ m2.size = m.size
            /\ Len(m2.cells) = 2 * m.size + ex
            /\ \A i \in 1 .. m.size : m2.cells[i] = m.cells[i]
    BY <1>1, <2>1, ExternIs
  <2>3. TryExtern(m, ex) = Extern(m, m.size, ex)
    BY <1>2 DEF TryExtern
  <2> QED
    BY <2>1, <2>2, <2>3
<1>3. CASE ~ (Capacity(m) < m.size + ex)
  <2>1. TryExtern(m, ex) = m
    BY <1>3 DEF TryExtern
  <2>2. m.size + ex <= Len(m.cells)
    BY <1>1, <1>3 DEF Capacity
  <2> QED
    BY <2>1, <2>2
<1> QED
  BY <1>2, <1>3

LEMMA AllocToCopyGrows ==
  ASSUME NEW m, MemoryOK(m), NEW new \in Seq(Cell)
  PROVE  Grown(m, new, AllocToCopy(m, new))
<1> DEFINE room == TryExtern(m, Len(new))
<1>1. Len(new) \in Nat
  BY LenProperties
<1>2. /\ MemoryOK(room) /\ room.size = m.size
      /\ \A i \in 1 .. m.size : room.cells[i] = m.cells[i]
      /\ m.size + Len(new) <= Len(room.cells)
  BY <1>1, TryExternIs
<1> DEFINE m2 == [room EXCEPT !.cells = Overwrite(room.cells, m.size, new),
                              !.size = room.size + Len(new)]
<1>3. AllocToCopy(m, new) = m2
  BY DEF AllocToCopy
<1>4. Grown(m, new, m2)
  <2> HIDE DEF room
  <2> QED
    BY <1>2, WriteIs
<1> QED
  BY <1>3, <1>4

(* fill and clean_data change how many bytes are in use.                   *)
LEMMA FillMemoryIs ==
  ASSUME NEW m, MemoryOK(m), NEW n \in Nat
  PROVE  /\ MemoryOK(FillMemory(m, n))
         /\ FillMemory(m, n).size = m.size + n
<1> DEFINE room == TryExtern(m, n)
<1>1. /\ MemoryOK(room) /\ room.size = m.size
      /\ m.size + n <= Len(room.cells)
  BY TryExternIs
<1>2. FillMemory(m, n) = [room EXCEPT !.size = @ + n]
  BY DEF FillMemory
<1> HIDE DEF room
<1> QED
  BY <1>1, <1>2 DEF MemoryOK, Inside

LEMMA CleanDataIs ==
  ASSUME NEW m, MemoryOK(m)
  PROVE  MemoryOK(CleanData(m)) /\ CleanData(m).size = 0
<1>1. /\ m \in [cells : Seq(Cell), size : Nat, allocated : Nat]
      /\ Len(m.cells) = m.allocated /\ m.allocated \in Nat
  BY DEF MemoryOK, Inside
<1>2. Allocate(Len(m.cells)) \in Seq(Cell)
      /\ Len(Allocate(Len(m.cells))) = m.allocated
  BY <1>1, AllocateIs
<1> DEFINE free == Allocate(Len(m.cells))
           m2 == [m EXCEPT !.size = 0, !.cells = free]
<1>3. CleanData(m) = m2
  BY DEF CleanData
<1> HIDE DEF free
<1>4. /\ m2 \in [cells : Seq(Cell), size : Nat, allocated : Nat]
      /\ m2.cells = free /\ m2.size = 0 /\ m2.allocated = m.allocated
  BY <1>1, <1>2 DEF free
<1> QED
  BY <1>1, <1>2, <1>3, <1>4 DEF MemoryOK, Inside, free

LEMMA NewMemoryIs ==
  ASSUME NEW reserve \in Nat
  PROVE  MemoryOK(NewMemory(reserve)) /\ NewMemory(reserve).size = 0
BY AllocateIs DEF NewMemory, MemoryOK, Inside

-----------------------------------------------------------------------------

(* A piece of the cells is what its cells are.                             *)
LEMMA PieceIs ==
  ASSUME NEW cells \in Seq(Cell), NEW i \in Nat, NEW new \in Seq(Cell),
         i + Len(new) <= Len(cells)
  PROVE  (SubSeq(cells, i + 1, i + Len(new)) = new)
           <=> (\A j \in 1 .. Len(new) : cells[i + j] = new[j])
<1> DEFINE n == Len(new)
           s == SubSeq(cells, i + 1, i + n)
<1>1. n \in Nat /\ Len(cells) \in Nat
  BY LenProperties
<1>2. \A j \in i + 1 .. i + n : cells[j] \in Cell
  BY <1>1, ElementOfSeq
<1>3. /\ s \in Seq(Cell)
      /\ Len(s) = IF i + 1 <= i + n THEN i + n - (i + 1) + 1 ELSE 0
      /\ \A j \in 1 .. i + n - (i + 1) + 1 : s[j] = cells[i + 1 + j - 1]
  <2>1. i + 1 \in Int /\ i + n \in Int
    BY <1>1
  <2> QED
    BY <1>2, <2>1, SubSeqProperties
<1> HIDE DEF s
<1>4. Len(s) = n
  BY <1>1, <1>3
<1>5. \A j \in 1 .. n : s[j] = cells[i + j]
  BY <1>1, <1>3
<1>6. ASSUME s = new PROVE \A j \in 1 .. n : cells[i + j] = new[j]
  BY <1>5, <1>6
<1>7. ASSUME \A j \in 1 .. n : cells[i + j] = new[j] PROVE s = new
  <2>1. \A j \in 1 .. Len(s) : s[j] = new[j]
    BY <1>4, <1>5, <1>7
  <2> QED
    BY <1>3, <1>4, <2>1, SeqEqual
<1> QED
  BY <1>6, <1>7 DEF s

(* A word is read where its cells stand, and what is read is a number.     *)
LEMMA HasWordIs ==
  ASSUME NEW cells \in Seq(Cell), NEW i \in Nat, NEW n \in Nat,
         i + Word <= Len(cells)
  PROVE  HasWord(cells, i, n) <=> WordStands(cells, i, n)
<1>1. /\ WordCells(n) \in Seq(Cell) /\ Len(WordCells(n)) = Word
      /\ \A j \in 1 .. Word : WordCells(n)[j] = <<"word", n, j>>
  BY WordCellsIs
<1>2. (SubSeq(cells, i + 1, i + Word) = WordCells(n))
        <=> (\A j \in 1 .. Word : cells[i + j] = WordCells(n)[j])
  BY <1>1, PieceIs
<1> QED
  BY <1>1, <1>2 DEF HasWord, WordStands

LEMMA WordAtIs ==
  ASSUME NEW cells \in Seq(Cell), NEW i \in Nat, NEW n \in Nat,
         i + Word <= Len(cells), WordStands(cells, i, n)
  PROVE  WordAt(cells, i) = n
<1>1. cells[i + 1] = <<"word", n, 1>>
  BY WordAssumption DEF WordStands
<1>2. cells[i + 1][2] = n
  BY <1>1
<1>3. HasWord(cells, i, n)
  BY HasWordIs
<1> QED
  BY <1>2, <1>3 DEF WordAt

LEMMA WordAtIsNat ==
  ASSUME NEW cells \in Seq(Cell), NEW i \in Nat, i + 1 <= Len(cells)
  PROVE  WordAt(cells, i) \in Nat
<1>1. cells[i + 1] \in Cell
  BY ElementOfSeq, LenProperties
<1>2. cells[i + 1][2] \in Nat
  BY <1>1 DEF Cell
<1> QED
  BY <1>2 DEF WordAt

(* The three words of the header, cell by cell.                            *)
LEMMA HeaderIs ==
  ASSUME NEW t \in Nat, NEW size \in Nat
  PROVE  /\ Header(0, t, size) \in Seq(Cell)
         /\ Len(Header(0, t, size)) = 3 * Word
         /\ \A j \in 1 .. Word :
              /\ Header(0, t, size)[j] = <<"word", 0, j>>
              /\ Header(0, t, size)[Word + j] = <<"word", t, j>>
              /\ Header(0, t, size)[2 * Word + j] = <<"word", size, j>>
<1> DEFINE w0 == WordCells(0)
           w1 == WordCells(t)
           w2 == WordCells(size)
           v == w0 \o w1
           h == v \o w2
<1>1. /\ w0 \in Seq(Cell) /\ Len(w0) = Word
      /\ \A i \in 1 .. Word : w0[i] = <<"word", 0, i>>
  BY WordCellsIs
<1>2. /\ w1 \in Seq(Cell) /\ Len(w1) = Word
      /\ \A i \in 1 .. Word : w1[i] = <<"word", t, i>>
  BY WordCellsIs
<1>3. /\ w2 \in Seq(Cell) /\ Len(w2) = Word
      /\ \A i \in 1 .. Word : w2[i] = <<"word", size, i>>
  BY WordCellsIs
<1> HIDE DEF w0, w1, w2
<1>4. /\ v \in Seq(Cell) /\ Len(v) = Word + Word
      /\ \A i \in 1 .. Word + Word :
           v[i] = IF i <= Word THEN w0[i] ELSE w1[i - Word]
  <2>1. /\ w0 \o w1 \in Seq(Cell) /\ Len(w0 \o w1) = Len(w0) + Len(w1)
        /\ \A i \in 1 .. Len(w0) + Len(w1) :
             (w0 \o w1)[i] = IF i <= Len(w0) THEN w0[i] ELSE w1[i - Len(w0)]
    BY <1>1, <1>2, ConcatProperties
  <2> QED
    BY <1>1, <1>2, <2>1
<1> HIDE DEF v
<1>5. /\ h \in Seq(Cell) /\ Len(h) = Word + Word + Word
      /\ \A i \in 1 .. Word + Word + Word :
           h[i] = IF i <= Word + Word THEN v[i] ELSE w2[i - (Word + Word)]
  <2>0. v \in Seq(Cell) /\ w2 \in Seq(Cell)
    BY <1>3, <1>4
  <2>1. /\ v \o w2 \in Seq(Cell) /\ Len(v \o w2) = Len(v) + Len(w2)
        /\ \A i \in 1 .. Len(v) + Len(w2) :
             (v \o w2)[i] = IF i <= Len(v) THEN v[i] ELSE w2[i - Len(v)]
    BY <2>0, ConcatProperties
  <2> QED
    BY <1>3, <1>4, <2>1
<1> HIDE DEF h
<1>6. ASSUME NEW j \in 1 .. Word
      PROVE  /\ h[j] = <<"word", 0, j>>
             /\ h[Word + j] = <<"word", t, j>>
             /\ h[2 * Word + j] = <<"word", size, j>>
  <2>1. h[j] = w0[j]
    BY <1>4, <1>5, WordAssumption
  <2>2. h[Word + j] = w1[j]
    <3>1. h[Word + j] = v[Word + j]
      BY <1>5, WordAssumption
    <3>2. v[Word + j] = w1[Word + j - Word]
      BY <1>4, WordAssumption
    <3> QED
      BY <3>1, <3>2, WordAssumption
  <2>3. h[2 * Word + j] = w2[j]
    <3>1. h[2 * Word + j] = w2[2 * Word + j - (Word + Word)]
      BY <1>5, WordAssumption
    <3>2. 2 * Word + j - (Word + Word) = j
      BY WordAssumption
    <3> QED
      BY <3>1, <3>2
  <2> QED
    BY <1>1, <1>2, <1>3, <2>1, <2>2, <2>3
<1>7. Header(0, t, size) = h
  BY DEF Header, h, v, w0, w1, w2
<1>8. Word + Word + Word = 3 * Word
  BY WordAssumption
<1> QED
  BY <1>5, <1>6, <1>7, <1>8

(* The three words in front of what is not dynamic.                        *)
HeaderStands(m, count, t, size) ==
  /\ 3 * Word <= m.size
  /\ WordStands(m.cells, 0, count)
  /\ WordStands(m.cells, Word, t)
  /\ WordStands(m.cells, 2 * Word, size)

(* _init leaves the header of an empty object, or nothing for a dynamic    *)
(* one.                                                                    *)
LEMMA InitMemoryIs ==
  ASSUME NEW m, MemoryOK(m), m.size = 0,
         NEW t \in PackageType, NEW size \in Nat
  PROVE  LET m2 == InitMemory(m, t, size)
         IN  /\ MemoryOK(m2)
             /\ t = Dynamic => m2.size = 0
             /\ t # Dynamic => m2.size = 3 * Word
             /\ t # Dynamic => HeaderStands(m2, 0, t, size)
<1> DEFINE m2 == InitMemory(m, t, size)
           h == Header(0, t, size)
<1>1. CASE t = Dynamic
  BY <1>1 DEF InitMemory
<1>2. CASE t # Dynamic
  <2>1. t \in Nat
    BY DEF PackageType, Concrete, Dynamic, DynamicAnalysis
  <2>2. /\ h \in Seq(Cell) /\ Len(h) = 3 * Word
        /\ \A j \in 1 .. Word :
              /\ h[j] = <<"word", 0, j>>
              /\ h[Word + j] = <<"word", t, j>>
              /\ h[2 * Word + j] = <<"word", size, j>>
    BY <2>1, HeaderIs
  <2>3. m2 = PushMemory(m, h)
    BY <1>2 DEF InitMemory
  <2> HIDE DEF h, m2
  <2>4. Grown(m, h, m2)
    BY <2>2, <2>3, PushMemoryGrows
  <2>5. MemoryOK(m2) /\ m2.size = 3 * Word
    BY <2>2, <2>4, WordAssumption DEF Grown
  <2>6. \A i \in 1 .. 3 * Word : m2.cells[0 + i] = h[i]
    BY <2>2, <2>4 DEF Grown
  <2>7. \A i \in 1 .. 3 * Word : m2.cells[i] = h[i]
    BY <2>6, WordAssumption
  <2>8. \A j \in 1 .. Word : j \in 1 .. 3 * Word /\ Word + j \in 1 .. 3 * Word
                             /\ 2 * Word + j \in 1 .. 3 * Word /\ 0 + j = j
    BY WordAssumption
  <2>9. HeaderStands(m2, 0, t, size)
    <3>1. ASSUME NEW j \in 1 .. Word
          PROVE  /\ m2.cells[0 + j] = <<"word", 0, j>>
                 /\ m2.cells[Word + j] = <<"word", t, j>>
                 /\ m2.cells[2 * Word + j] = <<"word", size, j>>
      BY <2>2, <2>7, <2>8
    <3>2. 3 * Word <= m2.size
      BY <2>5, WordAssumption
    <3> QED
      BY <3>1, <3>2 DEF HeaderStands, WordStands
  <2> QED
    BY <1>2, <2>5, <2>9 DEF m2
<1> QED
  BY <1>1, <1>2

(* Counting a package changes the first word and nothing else.             *)
LEMMA CountPackageIs ==
  ASSUME NEW m, MemoryOK(m), Word <= m.size, NEW n \in Nat
  PROVE  LET m2 == CountPackage(m, n)
         IN  /\ MemoryOK(m2) /\ m2.size = m.size
             /\ \A i \in Word + 1 .. Len(m.cells) : m2.cells[i] = m.cells[i]
             /\ WordStands(m.cells, 0, n) => WordStands(m2.cells, 0, n + 1)
<1> DEFINE new == IF HasWord(m.cells, 0, n) THEN WordCells(n + 1) ELSE <<Changed>>
           o == Overwrite(m.cells, 0, new)
           m2 == [m EXCEPT !.cells = o]
<1>1. /\ m \in [cells : Seq(Cell), size : Nat, allocated : Nat]
      /\ m.cells \in Seq(Cell) /\ m.size \in Nat /\ Len(m.cells) = m.allocated
      /\ Len(m.cells) \in Nat /\ m.size <= Len(m.cells)
  BY LenProperties DEF MemoryOK, Inside
<1>2. /\ WordCells(n + 1) \in Seq(Cell) /\ Len(WordCells(n + 1)) = Word
      /\ \A i \in 1 .. Word : WordCells(n + 1)[i] = <<"word", n + 1, i>>
  BY WordCellsIs
<1>3. new \in Seq(Cell) /\ Len(new) \in 1 .. Word
  <2>1. CASE HasWord(m.cells, 0, n)
    BY <1>2, <2>1, WordAssumption
  <2>2. CASE ~ HasWord(m.cells, 0, n)
    <3>1. Changed \in Cell
      BY DEF Changed, Cell
    <3>2. <<Changed>> \in Seq(Cell) /\ Len(<<Changed>>) = 1
      BY <3>1
    <3> QED
      BY <2>2, <3>2, WordAssumption
  <2> QED
    BY <2>1, <2>2
<1>4. CountPackage(m, n) = m2
  BY DEF CountPackage
<1>5. ASSUME WordStands(m.cells, 0, n)
      PROVE  new = WordCells(n + 1)
  <2>1. 0 + Word <= Len(m.cells)
    BY <1>1, WordAssumption
  <2>2. HasWord(m.cells, 0, n)
    BY <1>1, <1>5, <2>1, HasWordIs
  <2> QED
    BY <2>2
<1> HIDE DEF new
<1>6. /\ o \in Seq(Cell)
      /\ Len(o) = IF 0 + Len(new) > Len(m.cells) THEN 0 + Len(new)
                                                 ELSE Len(m.cells)
      /\ \A j \in 1 .. Len(new) : o[0 + j] = new[j]
      /\ \A i \in 1 .. Len(m.cells) :
           i \notin 0 + 1 .. 0 + Len(new) => o[i] = m.cells[i]
  BY <1>1, <1>3, OverwriteIs
<1> HIDE DEF o
<1>7. Len(o) = Len(m.cells)
  BY <1>1, <1>3, <1>6, WordAssumption
<1>8. \A i \in Word + 1 .. Len(m.cells) : o[i] = m.cells[i]
  BY <1>1, <1>3, <1>6, WordAssumption
<1>9. m2.cells = o /\ m2.size = m.size /\ m2.allocated = m.allocated
      /\ m2 \in [cells : Seq(Cell), size : Nat, allocated : Nat]
  BY <1>1, <1>6
<1> HIDE DEF m2
<1>10. MemoryOK(m2)
  BY <1>1, <1>7, <1>9 DEF MemoryOK, Inside
<1>11. ASSUME WordStands(m.cells, 0, n)
       PROVE  WordStands(m2.cells, 0, n + 1)
  BY <1>2, <1>5, <1>6, <1>9, <1>11 DEF WordStands
<1> QED
  BY <1>4, <1>8, <1>9, <1>10, <1>11

-----------------------------------------------------------------------------

Prefix(t) == IF t = DynamicAnalysis THEN Word ELSE 0

(* What push_back writes for a block: the length first where that is       *)
(* written.                                                                *)
LEMMA PackedIs ==
  ASSUME NEW t \in PackageType, NEW k \in Nat, NEW len \in Nat
  PROVE  LET cells == Packed(t, BlockCells(k, len))
         IN  /\ cells \in Seq(Cell) /\ Len(cells) = Prefix(t) + len
             /\ \A i \in 1 .. len : cells[Prefix(t) + i] = <<"block", k, i>>
             /\ t = DynamicAnalysis =>
                  \A j \in 1 .. Word : cells[j] = <<"word", len, j>>
<1> DEFINE b == BlockCells(k, len)
           w == WordCells(len)
           c == w \o b
<1>1. /\ b \in Seq(Cell) /\ Len(b) = len
      /\ \A i \in 1 .. len : b[i] = <<"block", k, i>>
  BY BlockCellsIs
<1>2. /\ w \in Seq(Cell) /\ Len(w) = Word
      /\ \A i \in 1 .. Word : w[i] = <<"word", len, i>>
  BY WordCellsIs
<1>3. Packed(t, b) = IF t = DynamicAnalysis THEN WordCells(Len(b)) \o b ELSE b
  BY DEF Packed
<1>4. CASE t = DynamicAnalysis
  <2>1. Packed(t, b) = c
    BY <1>1, <1>3, <1>4
  <2> HIDE DEF b, w
  <2>2. /\ w \o b \in Seq(Cell) /\ Len(w \o b) = Len(w) + Len(b)
        /\ \A i \in 1 .. Len(w) + Len(b) :
             (w \o b)[i] = IF i <= Len(w) THEN w[i] ELSE b[i - Len(w)]
    BY <1>1, <1>2, ConcatProperties
  <2>3. /\ c \in Seq(Cell) /\ Len(c) = Word + len
        /\ \A i \in 1 .. Word + len :
             c[i] = IF i <= Word THEN w[i] ELSE b[i - Word]
    BY <1>1, <1>2, <2>2
  <2> HIDE DEF c
  <2>4. ASSUME NEW i \in 1 .. len
        PROVE  c[Word + i] = <<"block", k, i>>
    <3>1. c[Word + i] = b[Word + i - Word]
      BY <2>3, WordAssumption
    <3>2. Word + i - Word = i
      BY WordAssumption
    <3> QED
      BY <1>1, <3>1, <3>2
  <2>5. ASSUME NEW j \in 1 .. Word
        PROVE  c[j] = <<"word", len, j>>
    BY <1>2, <2>3, WordAssumption
  <2>6. Prefix(t) = Word
    BY <1>4 DEF Prefix
  <2> QED
    BY <2>1, <2>3, <2>4, <2>5, <2>6 DEF b
<1>5. CASE t # DynamicAnalysis
  <2>1. Packed(t, b) = b /\ Prefix(t) = 0
    BY <1>3, <1>5 DEF Prefix
  <2> HIDE DEF b
  <2>2. \A i \in 1 .. len : 0 + i = i
    OBVIOUS
  <2> QED
    BY <1>1, <1>5, <2>1, <2>2 DEF b
<1> QED
  BY <1>4, <1>5

(* push_back: the block, with its length in front where that is written,   *)
(* goes behind what is there, of which the counter alone changes.          *)
LEMMA PushedMemoryIs ==
  ASSUME NEW m, MemoryOK(m), Word <= m.size,
         NEW t \in PackageType, NEW n \in Nat, NEW len \in Nat
  PROVE  LET m2 == CountPackage(AllocToCopy(m, Packed(t, BlockCells(n + 1, len))), n)
         IN  /\ MemoryOK(m2)
             /\ m2.size = m.size + Prefix(t) + len
             /\ \A i \in Word + 1 .. m.size : m2.cells[i] = m.cells[i]
             /\ BlockStands(m2.cells, m.size + Prefix(t), n + 1, len)
             /\ t = DynamicAnalysis => WordStands(m2.cells, m.size, len)
             /\ WordStands(m.cells, 0, n) => WordStands(m2.cells, 0, n + 1)
<1> DEFINE cells == Packed(t, BlockCells(n + 1, len))
           m1 == AllocToCopy(m, cells)
           m2 == CountPackage(m1, n)
<1>1. /\ cells \in Seq(Cell) /\ Len(cells) = Prefix(t) + len
      /\ \A i \in 1 .. len : cells[Prefix(t) + i] = <<"block", n + 1, i>>
      /\ t = DynamicAnalysis =>
           \A j \in 1 .. Word : cells[j] = <<"word", len, j>>
  <2>1. n + 1 \in Nat
    OBVIOUS
  <2> QED
    BY <2>1, PackedIs
<1> HIDE DEF cells
<1>2. Grown(m, cells, m1)
  BY <1>1, AllocToCopyGrows
<1> HIDE DEF m1
<1>3. m.size \in Nat /\ Prefix(t) \in Nat /\ Prefix(t) <= Word
      /\ (t = DynamicAnalysis => Prefix(t) = Word)
  BY WordAssumption DEF MemoryOK, Prefix
<1>4. /\ MemoryOK(m1) /\ m1.size = m.size + (Prefix(t) + len)
      /\ \A i \in 1 .. m.size : m1.cells[i] = m.cells[i]
      /\ \A i \in 1 .. Prefix(t) + len : m1.cells[m.size + i] = cells[i]
  BY <1>1, <1>2 DEF Grown
<1>5. /\ MemoryOK(m2) /\ m2.size = m1.size
      /\ \A i \in Word + 1 .. Len(m1.cells) : m2.cells[i] = m1.cells[i]
      /\ WordStands(m1.cells, 0, n) => WordStands(m2.cells, 0, n + 1)
  <2>1. Word <= m1.size
    BY <1>3, <1>4, WordAssumption
  <2> QED
    BY <1>4, <2>1, CountPackageIs
<1> HIDE DEF m2
<1>6. m1.size <= Len(m1.cells) /\ Len(m1.cells) \in Nat
  BY <1>4, LenProperties DEF MemoryOK, Inside
<1>7. \A i \in Word + 1 .. m1.size : m2.cells[i] = m1.cells[i]
  BY <1>3, <1>4, <1>5, <1>6, WordAssumption
<1>8. \A i \in Word + 1 .. m.size : m2.cells[i] = m.cells[i]
  BY <1>3, <1>4, <1>7, WordAssumption
<1>9. \A i \in 1 .. Prefix(t) + len : m2.cells[m.size + i] = cells[i]
  BY <1>3, <1>4, <1>7, WordAssumption
<1>10. BlockStands(m2.cells, m.size + Prefix(t), n + 1, len)
  <2> SUFFICES ASSUME NEW i \in 1 .. len
               PROVE  m2.cells[m.size + Prefix(t) + i] = <<"block", n + 1, i>>
    BY DEF BlockStands
  <2>1. Prefix(t) + i \in 1 .. Prefix(t) + len
        /\ m.size + Prefix(t) + i = m.size + (Prefix(t) + i)
    BY <1>3
  <2> QED
    BY <1>1, <1>9, <2>1
<1>11. t = DynamicAnalysis => WordStands(m2.cells, m.size, len)
  <2> SUFFICES ASSUME t = DynamicAnalysis, NEW j \in 1 .. Word
               PROVE  m2.cells[m.size + j] = <<"word", len, j>>
    BY DEF WordStands
  <2>1. j \in 1 .. Prefix(t) + len
    BY <1>3, WordAssumption
  <2> QED
    BY <1>1, <1>9, <2>1
<1>12. WordStands(m.cells, 0, n) => WordStands(m2.cells, 0, n + 1)
  <2> SUFFICES ASSUME WordStands(m.cells, 0, n)
               PROVE  WordStands(m1.cells, 0, n)
    BY <1>5
  <2>1. \A j \in 1 .. Word : 0 + j \in 1 .. m.size
    BY <1>3, WordAssumption
  <2> QED
    BY <1>4, <2>1 DEF WordStands
<1> QED
  BY <1>3, <1>4, <1>5, <1>8, <1>10, <1>11, <1>12 DEF m2, m1, cells

-----------------------------------------------------------------------------

(* Where the k-th package ends and the next begins.                        *)
Edge(k) == IF k = 0 THEN 3 * Word ELSE at[k] + pushed[k]

TypeOK ==
  /\ phase \in {"filling", "analysing", "done", "threw"}
  /\ type \in PackageType
  /\ memory \in [cells : Seq(Cell), size : Nat, allocated : Nat]
  /\ pushed \in Seq(Nat) /\ at \in Seq(Nat) /\ Len(at) = Len(pushed)
  /\ filled \in BOOLEAN
  /\ info \in [type : Nat, avg_size : Nat]
  /\ start \in Nat
  /\ found \in Seq(Nat \X Nat)

HeaderInv ==
  type # Dynamic =>
    \E size \in PackageSize : HeaderStands(memory, Len(pushed), type, size)

FillInv ==
  type = Dynamic => IF filled THEN Word <= memory.size ELSE Len(pushed) = 0

BlockInv(k) ==
  /\ Word <= at[k]
  /\ at[k] + pushed[k] <= memory.size
  /\ BlockStands(memory.cells, at[k], k, pushed[k])

LengthInv(k) ==
  type = DynamicAnalysis =>
    /\ Word <= at[k] - Word
    /\ WordStands(memory.cells, at[k] - Word, pushed[k])

BlocksInv == \A k \in 1 .. Len(pushed) : BlockInv(k) /\ LengthInv(k)

OrderInv(k) ==
  /\ at[k] = Edge(k - 1) + Prefix(type)
  /\ \A j \in 0 .. k - 1 : Edge(j) + Prefix(type) <= at[k]

LayoutInv ==
  type # Dynamic =>
    /\ memory.size = Edge(Len(pushed))
    /\ \A k \in 1 .. Len(pushed) : OrderInv(k)

PackInv == TypeOK /\ Inside(memory) /\ HeaderInv /\ FillInv /\ BlocksInv /\ LayoutInv

FoundSoFar ==
  /\ phase # "threw"
  /\ Len(found) <= Len(pushed)
  /\ start = Edge(Len(found))
  /\ \A k \in 1 .. Len(found) : found[k] = <<at[k], pushed[k]>>
  /\ phase = "done" => Len(found) = Len(pushed)

AnalysisInv ==
  phase # "filling" =>
    /\ type # Dynamic /\ info.type = type
    /\ HeaderStands(memory, Len(pushed), type, info.avg_size)
    /\ info.avg_size \in PackageSize
    /\ (info.type = DynamicAnalysis \/ AllAsDeclared) => FoundSoFar

IInv == PackInv /\ AnalysisInv

(* The types, of one variable at a time.                                   *)
LEMMA MemoryIsOK ==
  ASSUME TypeOK, Inside(memory)
  PROVE  /\ MemoryOK(memory) /\ memory.cells \in Seq(Cell) /\ memory.size \in Nat
         /\ memory.size <= Len(memory.cells) /\ Len(memory.cells) \in Nat
BY LenProperties DEF TypeOK, MemoryOK, Inside

LEMMA PushedIs ==
  ASSUME TypeOK
  PROVE  /\ Len(pushed) \in Nat /\ DOMAIN pushed = 1 .. Len(pushed)
         /\ DOMAIN at = 1 .. Len(pushed)
         /\ \A k \in 1 .. Len(pushed) : at[k] \in Nat /\ pushed[k] \in Nat
BY LenProperties, ElementOfSeq DEF TypeOK

LEMMA FoundIs ==
  ASSUME TypeOK
  PROVE  Len(found) \in Nat /\ DOMAIN found = 1 .. Len(found)
BY LenProperties DEF TypeOK

LEMMA EdgeIsNat ==
  ASSUME TypeOK, NEW k \in 0 .. Len(pushed)
  PROVE  Edge(k) \in Nat
BY PushedIs, WordAssumption DEF Edge

(* What a new or cleared object has, and that it is all there is to keep.  *)
Fresh ==
  /\ type \in PackageType /\ pushed = <<>> /\ at = <<>> /\ filled = FALSE
  /\ MemoryOK(memory)
  /\ type = Dynamic => memory.size = 0
  /\ type # Dynamic =>
       /\ memory.size = 3 * Word
       /\ \E size \in PackageSize : HeaderStands(memory, 0, type, size)

Packs == Inside(memory) /\ HeaderInv /\ FillInv /\ BlocksInv /\ LayoutInv

LEMMA FreshPacks == Fresh => Packs
<1> SUFFICES ASSUME Fresh PROVE Packs
  OBVIOUS
<1> USE DEF Fresh
<1>1. Len(pushed) = 0 /\ 1 .. Len(pushed) = {}
  OBVIOUS
<1>2. HeaderInv
  BY <1>1 DEF HeaderInv
<1>3. FillInv
  BY <1>1 DEF FillInv
<1>4. BlocksInv
  BY <1>1 DEF BlocksInv
<1>5. LayoutInv
  BY <1>1 DEF LayoutInv, Edge
<1> QED
  BY <1>2, <1>3, <1>4, <1>5 DEF MemoryOK, Packs

(* The constructor.                                                        *)
LEMMA InitInv == Init => IInv
<1> SUFFICES ASSUME Init PROVE IInv
  OBVIOUS
<1>1. PICK reserve \in Reserve, size \in PackageSize :
        memory = InitMemory(NewMemory(reserve), type, size)
  BY DEF Init
<1>2. reserve \in Nat /\ size \in Nat /\ type \in PackageType
  BY PackagesAssumption DEF Init
<1>3. MemoryOK(NewMemory(reserve)) /\ NewMemory(reserve).size = 0
  BY <1>2, NewMemoryIs
<1>4. /\ MemoryOK(memory)
      /\ type = Dynamic => memory.size = 0
      /\ type # Dynamic => memory.size = 3 * Word
      /\ type # Dynamic => HeaderStands(memory, 0, type, size)
  BY <1>1, <1>2, <1>3, InitMemoryIs
<1>5. Fresh
  BY <1>1, <1>2, <1>4 DEF Init, Fresh
<1>6. TypeOK
  <2>1. /\ pushed \in Seq(Nat) /\ at \in Seq(Nat) /\ Len(at) = Len(pushed)
        /\ found \in Seq(Nat \X Nat)
    BY DEF Init
  <2>2. info \in [type : Nat, avg_size : Nat]
    BY DEF Init, Concrete
  <2>3. phase = "filling" /\ filled \in BOOLEAN /\ start \in Nat
    BY DEF Init
  <2> QED
    BY <1>2, <1>4, <2>1, <2>2, <2>3 DEF TypeOK, MemoryOK
<1>7. AnalysisInv
  BY DEF Init, AnalysisInv
<1> QED
  BY <1>5, <1>6, <1>7, FreshPacks DEF IInv, PackInv, Packs

(* fill() comes first, so there is no block to move.                       *)
LEMMA FillKeepsInv ==
  ASSUME IInv, NEW n \in Nat, Fill(n)
  PROVE  IInv'
<1>1. TypeOK /\ Inside(memory) /\ FillInv /\ Len(pushed) = 0
  BY DEF IInv, PackInv, Fill, FillInv
<1>2. MemoryOK(memory')
      /\ memory'.size = memory.size + n /\ memory.size \in Nat
  BY <1>1, MemoryIsOK, FillMemoryIs DEF Fill
<1>3. TypeOK'
  BY <1>1, <1>2 DEF TypeOK, Fill, MemoryOK, analysisVars
<1>4. Inside(memory')
  BY <1>2 DEF MemoryOK
<1>5. HeaderInv'
  BY DEF HeaderInv, Fill
<1>6. FillInv'
  BY <1>2, WordAssumption DEF FillInv, Fill
<1>7. BlocksInv'
  BY <1>1 DEF BlocksInv, Fill
<1>8. LayoutInv'
  BY DEF LayoutInv, Fill
<1>9. AnalysisInv'
  BY DEF AnalysisInv, Fill
<1> QED
  BY <1>3, <1>4, <1>5, <1>6, <1>7, <1>8, <1>9 DEF IInv, PackInv

(* clear() writes the header anew, with the size read from the old one.    *)
LEMMA ClearKeepsInv ==
  ASSUME IInv, Clear
  PROVE  IInv'
<1> DEFINE size == IF type = Dynamic THEN 0 ELSE WordAt(memory.cells, 2 * Word)
<1>1. TypeOK /\ Inside(memory) /\ HeaderInv /\ type \in PackageType
  BY DEF IInv, PackInv, TypeOK
<1>2. MemoryOK(memory) /\ memory.cells \in Seq(Cell)
      /\ memory.size <= Len(memory.cells)
      /\ memory.size \in Nat /\ Len(memory.cells) \in Nat
  BY <1>1, MemoryIsOK
<1>3. size \in Nat /\ (type # Dynamic => size \in PackageSize)
  <2>1. CASE type = Dynamic
    BY <2>1
  <2>2. CASE type # Dynamic
    <3>1. PICK s \in PackageSize :
            HeaderStands(memory, Len(pushed), type, s)
      BY <1>1, <2>2 DEF HeaderInv
    <3>2. s \in Nat /\ 2 * Word \in Nat /\ 2 * Word + Word <= Len(memory.cells)
      BY <1>2, <3>1, PackagesAssumption, WordAssumption DEF HeaderStands
    <3>3. WordAt(memory.cells, 2 * Word) = s
      BY <1>2, <3>1, <3>2, WordAtIs DEF HeaderStands
    <3> QED
      BY <2>2, <3>2, <3>3
  <2> QED
    BY <2>1, <2>2
<1>4. memory' = InitMemory(CleanData(memory), type, size)
  BY DEF Clear, Cleared
<1> HIDE DEF size
<1>5. MemoryOK(CleanData(memory)) /\ CleanData(memory).size = 0
  BY <1>2, CleanDataIs
<1>6. /\ MemoryOK(memory')
      /\ type = Dynamic => memory'.size = 0
      /\ type # Dynamic => memory'.size = 3 * Word
      /\ type # Dynamic => HeaderStands(memory', 0, type, size)
  BY <1>1, <1>3, <1>4, <1>5, InitMemoryIs
<1>7. /\ phase' = "filling" /\ type' = type /\ pushed' = <<>> /\ at' = <<>>
      /\ filled' = FALSE /\ UNCHANGED <<info, start, found>>
  BY DEF Clear, analysisVars
<1>8. Packs'
  <2>1. Fresh'
    BY <1>1, <1>3, <1>6, <1>7 DEF Fresh
  <2> QED
    BY <2>1, FreshPacks, PTL
<1>9. TypeOK'
  <2>1. /\ pushed' \in Seq(Nat) /\ at' \in Seq(Nat) /\ Len(at') = Len(pushed')
    BY <1>7
  <2>2. memory' \in [cells : Seq(Cell), size : Nat, allocated : Nat]
    BY <1>6 DEF MemoryOK
  <2> QED
    BY <1>1, <1>7, <2>1, <2>2 DEF TypeOK
<1>10. AnalysisInv'
  BY <1>7 DEF AnalysisInv
<1> QED
  BY <1>8, <1>9, <1>10 DEF IInv, PackInv, Packs

(* push_back, as one sees it from outside.                                 *)
Pushes(len) ==
  /\ phase' = phase /\ type' = type /\ filled' = filled
  /\ pushed' \in Seq(Nat) /\ at' \in Seq(Nat)
  /\ Len(pushed') = Len(pushed) + 1 /\ Len(at') = Len(pushed) + 1
  /\ \A k \in 1 .. Len(pushed) : pushed'[k] = pushed[k] /\ at'[k] = at[k]
  /\ pushed'[Len(pushed) + 1] = len
  /\ at'[Len(pushed) + 1] = memory.size + Prefix(type)
  /\ MemoryOK(memory')
  /\ memory'.size = memory.size + Prefix(type) + len
  /\ \A i \in Word + 1 .. memory.size : memory'.cells[i] = memory.cells[i]
  /\ BlockStands(memory'.cells, memory.size + Prefix(type), Len(pushed) + 1, len)
  /\ type = DynamicAnalysis => WordStands(memory'.cells, memory.size, len)
  /\ WordStands(memory.cells, 0, Len(pushed)) =>
       WordStands(memory'.cells, 0, Len(pushed) + 1)

(* There is a first word, so counting never makes the cells longer.        *)
LEMMA RoomForCounter ==
  ASSUME PackInv, type = Dynamic => filled
  PROVE  Word <= memory.size /\ memory.size \in Nat
<1>1. memory.size \in Nat
  BY MemoryIsOK DEF PackInv
<1>2. CASE type = Dynamic
  BY <1>1, <1>2 DEF PackInv, FillInv
<1>3. CASE type # Dynamic
  <2>1. 3 * Word <= memory.size
    BY <1>3 DEF PackInv, HeaderInv, HeaderStands
  <2> QED
    BY <1>1, <2>1, WordAssumption
<1> QED
  BY <1>1, <1>2, <1>3

LEMMA PushBackPushes ==
  ASSUME PackInv, NEW len \in Nat, PushBack(len)
  PROVE  Pushes(len)
<1>1. TypeOK /\ Inside(memory) /\ type \in PackageType
  BY DEF PackInv, TypeOK
<1>2. MemoryOK(memory) /\ Word <= memory.size /\ memory.size \in Nat
  BY <1>1, MemoryIsOK, RoomForCounter DEF PushBack
<1>3. Len(pushed) \in Nat
  BY <1>1, PushedIs
<1>4. /\ pushed \in Seq(Nat) /\ at \in Seq(Nat) /\ Len(at) = Len(pushed)
      /\ memory.size + Prefix(type) \in Nat
  BY <1>1, <1>2, WordAssumption DEF TypeOK, Prefix
<1>5. memory' = CountPackage(AllocToCopy(memory,
                  Packed(type, BlockCells(Len(pushed) + 1, len))), Len(pushed))
  BY DEF PushBack
<1>6. /\ pushed' = Append(pushed, len)
      /\ at' = Append(at, memory.size + Prefix(type))
      /\ phase' = phase /\ type' = type /\ filled' = filled
  BY DEF PushBack, DataStart, Prefix
<1>7. LET m2 == CountPackage(AllocToCopy(memory,
                  Packed(type, BlockCells(Len(pushed) + 1, len))), Len(pushed))
      IN  /\ MemoryOK(m2)
          /\ m2.size = memory.size + Prefix(type) + len
          /\ \A i \in Word + 1 .. memory.size : m2.cells[i] = memory.cells[i]
          /\ BlockStands(m2.cells, memory.size + Prefix(type), Len(pushed) + 1, len)
          /\ type = DynamicAnalysis => WordStands(m2.cells, memory.size, len)
          /\ WordStands(memory.cells, 0, Len(pushed)) =>
               WordStands(m2.cells, 0, Len(pushed) + 1)
  BY <1>1, <1>2, <1>3, PushedMemoryIs
<1>8. /\ pushed' \in Seq(Nat) /\ Len(pushed') = Len(pushed) + 1
      /\ \A k \in 1 .. Len(pushed) : pushed'[k] = pushed[k]
      /\ pushed'[Len(pushed) + 1] = len
  BY <1>4, <1>6, AppendProperties
<1>9. /\ at' \in Seq(Nat) /\ Len(at') = Len(pushed) + 1
      /\ \A k \in 1 .. Len(pushed) : at'[k] = at[k]
      /\ at'[Len(pushed) + 1] = memory.size + Prefix(type)
  BY <1>4, <1>6, AppendProperties
<1> QED
  BY <1>5, <1>6, <1>7, <1>8, <1>9 DEF Pushes

(* The header, but for its counter, is in front of where it writes.        *)
LEMMA PushKeepsHeader ==
  ASSUME PackInv, NEW len \in Nat, Pushes(len)
  PROVE  HeaderInv'
<1> SUFFICES ASSUME type # Dynamic
             PROVE  \E size \in PackageSize :
                      HeaderStands(memory, Len(pushed), type, size)'
  BY DEF HeaderInv, Pushes
<1>1. PICK size \in PackageSize : HeaderStands(memory, Len(pushed), type, size)
  BY DEF PackInv, HeaderInv
<1>2. memory.size \in Nat /\ 3 * Word <= memory.size /\ Prefix(type) \in Nat
  BY <1>1, MemoryIsOK, WordAssumption DEF PackInv, HeaderStands, Prefix
<1>3. 3 * Word <= memory'.size
  BY <1>2, WordAssumption DEF Pushes
<1>4. \A j \in 1 .. Word : Word + j \in Word + 1 .. memory.size
                           /\ 2 * Word + j \in Word + 1 .. memory.size
  BY <1>2, WordAssumption
<1>5. WordStands(memory'.cells, Word, type)
  BY <1>1, <1>4 DEF Pushes, WordStands, HeaderStands
<1>6. WordStands(memory'.cells, 2 * Word, size)
  BY <1>1, <1>4 DEF Pushes, WordStands, HeaderStands
<1>7. WordStands(memory'.cells, 0, Len(pushed) + 1)
  BY <1>1 DEF Pushes, HeaderStands
<1>8. HeaderStands(memory', Len(pushed'), type', size)
  BY <1>3, <1>5, <1>6, <1>7 DEF HeaderStands, Pushes
<1> QED
  BY <1>8

(* The blocks pushed before stay, and the new one stands.                  *)
LEMMA PushKeepsBlocks ==
  ASSUME PackInv, NEW len \in Nat, Pushes(len), type = Dynamic => filled
  PROVE  BlocksInv'
<1>0. PICK n : n = Len(pushed)
  OBVIOUS
<1>1. TypeOK /\ BlocksInv /\ n \in Nat
      /\ \A k \in 1 .. n : at[k] \in Nat /\ pushed[k] \in Nat
  BY <1>0, PushedIs DEF PackInv
<1>2. Word <= memory.size /\ memory.size \in Nat
  BY RoomForCounter
<1>3. Prefix(type) \in Nat /\ (type = DynamicAnalysis => Prefix(type) = Word)
  BY WordAssumption DEF Prefix
<1>4. /\ memory'.size = memory.size + Prefix(type) + len /\ Len(pushed') = n + 1
      /\ type' = type
      /\ \A i \in Word + 1 .. memory.size : memory'.cells[i] = memory.cells[i]
  BY <1>0 DEF Pushes
<1>5. ASSUME NEW k \in 1 .. n
      PROVE  BlockInv(k)' /\ LengthInv(k)'
  <2>1. /\ at'[k] = at[k] /\ pushed'[k] = pushed[k]
        /\ at[k] \in Nat /\ pushed[k] \in Nat
        /\ Word <= at[k] /\ at[k] + pushed[k] <= memory.size
        /\ BlockStands(memory.cells, at[k], k, pushed[k])
    BY <1>0, <1>1 DEF Pushes, BlocksInv, BlockInv
  <2>2. at[k] + pushed[k] <= memory'.size
    BY <1>2, <1>3, <1>4, <2>1
  <2>3. \A i \in 1 .. pushed[k] : at[k] + i \in Word + 1 .. memory.size
    BY <1>2, <2>1, WordAssumption
  <2>4. BlockStands(memory'.cells, at[k], k, pushed[k])
    BY <1>4, <2>1, <2>3 DEF BlockStands
  <2>5. BlockInv(k)'
    BY <2>1, <2>2, <2>4 DEF BlockInv
  <2>6. CASE type = DynamicAnalysis
    <3>1. /\ Word <= at[k] - Word
          /\ WordStands(memory.cells, at[k] - Word, pushed[k])
      BY <1>0, <1>1, <2>6 DEF BlocksInv, LengthInv
    <3>2. \A j \in 1 .. Word : at[k] - Word + j \in Word + 1 .. memory.size
      BY <1>2, <2>1, <3>1, WordAssumption
    <3>3. WordStands(memory'.cells, at[k] - Word, pushed[k])
      BY <1>4, <3>1, <3>2 DEF WordStands
    <3> QED
      BY <2>1, <2>5, <3>1, <3>3 DEF LengthInv
  <2>7. CASE type # DynamicAnalysis
    BY <1>4, <2>5, <2>7 DEF LengthInv
  <2> QED
    BY <2>6, <2>7
<1>6. BlockInv(n + 1)' /\ LengthInv(n + 1)'
  <2>1. /\ at'[n + 1] = memory.size + Prefix(type) /\ pushed'[n + 1] = len
        /\ BlockStands(memory'.cells, memory.size + Prefix(type), n + 1, len)
    BY <1>0 DEF Pushes
  <2>2. BlockInv(n + 1)'
    BY <1>2, <1>3, <1>4, <2>1, WordAssumption DEF BlockInv
  <2>3. CASE type = DynamicAnalysis
    <3>1. WordStands(memory'.cells, memory.size, len)
      BY <2>3 DEF Pushes
    <3>2. at'[n + 1] - Word = memory.size
      BY <1>2, <1>3, <2>1, <2>3, WordAssumption
    <3> QED
      BY <1>2, <2>1, <2>2, <3>1, <3>2 DEF LengthInv
  <2>4. CASE type # DynamicAnalysis
    BY <1>4, <2>2, <2>4 DEF LengthInv
  <2> QED
    BY <2>3, <2>4
<1>7. \A k \in 1 .. n + 1 : k \in 1 .. n \/ k = n + 1
  BY <1>1
<1>8. \A k \in 1 .. n + 1 : (BlockInv(k) /\ LengthInv(k))'
  <2> SUFFICES ASSUME NEW k \in 1 .. n + 1
               PROVE  BlockInv(k)' /\ LengthInv(k)'
    OBVIOUS
  <2> QED
    BY <1>5, <1>6, <1>7
<1> QED
  BY <1>4, <1>8 DEF BlocksInv

(* The new block begins at the last edge and makes the next one.           *)
LEMMA PushKeepsLayout ==
  ASSUME PackInv, NEW len \in Nat, Pushes(len)
  PROVE  LayoutInv'
<1>0. PICK n : n = Len(pushed)
  OBVIOUS
<1> SUFFICES ASSUME type # Dynamic
             PROVE  /\ memory'.size = Edge(n + 1)'
                    /\ \A k \in 1 .. n + 1 : OrderInv(k)'
  BY <1>0 DEF LayoutInv, Pushes
<1>1. TypeOK /\ n \in Nat /\ memory.size \in Nat
      /\ \A k \in 1 .. n : at[k] \in Nat /\ pushed[k] \in Nat
  BY <1>0, PushedIs, MemoryIsOK DEF PackInv
<1>2. Prefix(type) \in Nat /\ Prefix(type') = Prefix(type)
  BY WordAssumption DEF Prefix, Pushes
<1>3. memory.size = Edge(n) /\ \A k \in 1 .. n : OrderInv(k)
  BY <1>0 DEF PackInv, LayoutInv
<1>4. \A j \in 0 .. n : Edge(j) \in Nat
  BY <1>0, <1>1, EdgeIsNat
<1>5. \A j \in 0 .. n : Edge(j)' = Edge(j)
  BY <1>0, <1>1 DEF Edge, Pushes
<1>6. /\ at'[n + 1] = memory.size + Prefix(type) /\ pushed'[n + 1] = len
      /\ memory'.size = memory.size + Prefix(type) + len
  BY <1>0 DEF Pushes
<1>7. memory'.size = Edge(n + 1)'
  BY <1>1, <1>6 DEF Edge
<1>8. ASSUME NEW k \in 1 .. n
      PROVE  OrderInv(k)'
  <2>1. at'[k] = at[k]
    BY <1>0 DEF Pushes
  <2>2. k - 1 \in 0 .. n /\ \A j \in 0 .. k - 1 : j \in 0 .. n
    BY <1>1
  <2>3. /\ at[k] = Edge(k - 1) + Prefix(type)
        /\ \A j \in 0 .. k - 1 : Edge(j) + Prefix(type) <= at[k]
    BY <1>3 DEF OrderInv
  <2> QED
    BY <1>2, <1>5, <2>1, <2>2, <2>3 DEF OrderInv
<1>9. \A j \in 0 .. n : Edge(j) <= Edge(n)
  <2> SUFFICES ASSUME NEW j \in 0 .. n, j # n
               PROVE  Edge(j) <= Edge(n)
    BY <1>1, <1>4
  <2>1. n \in 1 .. n /\ j \in 0 .. n - 1 /\ n # 0
    BY <1>1
  <2>2. Edge(j) + Prefix(type) <= at[n]
    BY <1>3, <2>1 DEF OrderInv
  <2>3. Edge(n) = at[n] + pushed[n] /\ at[n] \in Nat /\ pushed[n] \in Nat
    BY <1>1, <2>1 DEF Edge
  <2> QED
    BY <1>2, <1>4, <2>2, <2>3
<1>10. ASSUME NEW k, k = n + 1
       PROVE  OrderInv(k)'
  <2>1. k - 1 = n
    BY <1>1, <1>10
  <2>2. at'[k] = Edge(k - 1)' + Prefix(type')
    BY <1>1, <1>2, <1>3, <1>5, <1>6, <1>10, <2>1
  <2>3. \A j \in 0 .. k - 1 : Edge(j)' + Prefix(type') <= at'[k]
    BY <1>1, <1>2, <1>3, <1>4, <1>5, <1>6, <1>9, <1>10, <2>1
  <2> QED
    BY <2>2, <2>3 DEF OrderInv
<1>11. \A k \in 1 .. n + 1 : k \in 1 .. n \/ k = n + 1
  BY <1>1
<1> QED
  BY <1>7, <1>8, <1>10, <1>11

(* push_back as a whole.                                                   *)
LEMMA PushBackKeepsInv ==
  ASSUME IInv, NEW len \in Nat, PushBack(len)
  PROVE  IInv'
<1>1. PackInv /\ Pushes(len) /\ (type = Dynamic => filled)
  BY PushBackPushes DEF IInv, PushBack
<1>2. HeaderInv' /\ BlocksInv' /\ LayoutInv'
  BY <1>1, PushKeepsHeader, PushKeepsBlocks, PushKeepsLayout
<1>3. Inside(memory')
  BY <1>1 DEF Pushes, MemoryOK
<1>4. FillInv'
  <2>1. Word <= memory.size /\ memory.size \in Nat /\ Prefix(type) \in Nat
    BY <1>1, RoomForCounter, WordAssumption DEF Prefix
  <2> QED
    BY <1>1, <2>1, WordAssumption DEF FillInv, Pushes
<1>5. TypeOK'
  <2>1. UNCHANGED <<info, start, found>>
    BY DEF PushBack, analysisVars
  <2> QED
    BY <1>1, <2>1 DEF PackInv, TypeOK, Pushes, MemoryOK
<1>6. AnalysisInv'
  BY DEF AnalysisInv, PushBack
<1> QED
  BY <1>2, <1>3, <1>4, <1>5, <1>6 DEF IInv, PackInv

-----------------------------------------------------------------------------

(* The analysis changes nothing of what it analyses.                       *)
LEMMA PackInvFrame == PackInv /\ UNCHANGED packVars
                      /\ phase' \in {"filling", "analysing", "done", "threw"}
                      /\ info' \in [type : Nat, avg_size : Nat]
                      /\ start' \in Nat /\ found' \in Seq(Nat \X Nat) => PackInv'
<1> SUFFICES ASSUME PackInv, UNCHANGED packVars,
                    phase' \in {"filling", "analysing", "done", "threw"},
                    info' \in [type : Nat, avg_size : Nat],
                    start' \in Nat, found' \in Seq(Nat \X Nat)
             PROVE  PackInv'
  OBVIOUS
<1>1. UNCHANGED <<type, memory, pushed, at, filled>>
  BY DEF packVars
<1>2. TypeOK'
  BY <1>1 DEF PackInv, TypeOK
<1>3. HeaderInv' /\ FillInv'
  BY <1>1 DEF PackInv, HeaderInv, FillInv
<1>4. BlocksInv'
  BY <1>1 DEF PackInv, BlocksInv, BlockInv, LengthInv
<1>5. LayoutInv'
  BY <1>1 DEF PackInv, LayoutInv, OrderInv, Edge
<1> QED
  BY <1>1, <1>2, <1>3, <1>4, <1>5 DEF PackInv

(* The constructor of the analysis reads the type and the size as written. *)
LEMMA AnalyseKeepsInv ==
  ASSUME IInv, Analyse
  PROVE  IInv'
<1>1. PackInv /\ TypeOK /\ type # Dynamic /\ type \in PackageType /\ type \in Nat
  BY DEF IInv, PackInv, TypeOK, Analyse, PackageType, Concrete, Dynamic,
         DynamicAnalysis
<1>2. PICK size \in PackageSize : HeaderStands(memory, Len(pushed), type, size)
  BY <1>1 DEF PackInv, HeaderInv
<1>3. memory.cells \in Seq(Cell) /\ 3 * Word <= Len(memory.cells)
      /\ Len(memory.cells) \in Nat /\ size \in Nat
  BY <1>1, <1>2, MemoryIsOK, WordAssumption, PackagesAssumption
     DEF PackInv, HeaderStands
<1>4. WordAt(memory.cells, Word) = type
  <2>1. Word + Word <= Len(memory.cells) /\ Word \in Nat
    BY <1>3, WordAssumption
  <2> QED
    BY <1>1, <1>2, <1>3, <2>1, WordAtIs DEF HeaderStands
<1>5. WordAt(memory.cells, 2 * Word) = size
  <2>1. 2 * Word + Word <= Len(memory.cells) /\ 2 * Word \in Nat
    BY <1>3, WordAssumption
  <2> QED
    BY <1>2, <1>3, <2>1, WordAtIs DEF HeaderStands
<1>6. /\ phase' = "analysing" /\ start' = 3 * Word /\ found' = <<>>
      /\ info' = [type |-> type, avg_size |-> size]
      /\ UNCHANGED packVars
  BY <1>4, <1>5 DEF Analyse
<1>7. PackInv'
  <2>1. start' \in Nat /\ found' \in Seq(Nat \X Nat)
    BY <1>6, WordAssumption
  <2>2. info' \in [type : Nat, avg_size : Nat]
    BY <1>1, <1>3, <1>6
  <2> QED
    BY <1>1, <1>6, <2>1, <2>2, PackInvFrame
<1>8. UNCHANGED <<type, memory, pushed, at>>
  BY <1>6 DEF packVars
<1>9. FoundSoFar'
  <2>1. Len(found') = 0 /\ 1 .. Len(found') = {}
    BY <1>6
  <2>2. Len(pushed) \in Nat
    BY <1>1, PushedIs
  <2>3. start' = Edge(Len(found))'
    BY <1>6, <2>1 DEF Edge
  <2> QED
    BY <1>6, <1>8, <2>1, <2>2, <2>3 DEF FoundSoFar
<1>10. info'.type = type /\ info'.avg_size = size
  BY <1>6
<1>11. AnalysisInv'
  BY <1>1, <1>2, <1>8, <1>9, <1>10 DEF AnalysisInv
<1> QED
  BY <1>7, <1>11 DEF IInv

(* What the analysis reads as the size of the next block.                  *)
LEMMA NextBlockIs ==
  ASSUME IInv, phase # "filling", FoundSoFar,
         info.type = DynamicAnalysis \/ AllAsDeclared,
         Len(found) < Len(pushed)
  PROVE  /\ start + LengthPrefix = at[Len(found) + 1]
         /\ BlockSize = pushed[Len(found) + 1]
<1> DEFINE k == Len(found) + 1
<1>1. PackInv /\ TypeOK /\ AnalysisInv /\ type # Dynamic /\ info.type = type
  BY DEF IInv, PackInv, AnalysisInv
<1>2. Len(found) \in Nat /\ Len(pushed) \in Nat
  BY <1>1, PushedIs, FoundIs
<1>3. k \in 1 .. Len(pushed) /\ k - 1 = Len(found)
  BY <1>2
<1>4. DOMAIN pushed = 1 .. Len(pushed) /\ at[k] \in Nat /\ pushed[k] \in Nat
  BY <1>1, <1>3, PushedIs
<1>5. start \in Nat /\ start = Edge(Len(found))
  BY <1>1 DEF TypeOK, FoundSoFar
<1>6. LengthPrefix = Prefix(type)
  BY <1>1 DEF LengthPrefix, Prefix
<1>7. at[k] = start + Prefix(type)
  BY <1>1, <1>3, <1>5 DEF PackInv, LayoutInv, OrderInv
<1>8. BlockSize = pushed[k]
  <2>1. CASE type = DynamicAnalysis
    <3>1. at[k] - Word = start
      BY <1>4, <1>5, <1>7, <2>1, WordAssumption DEF Prefix
    <3>2. WordStands(memory.cells, start, pushed[k])
      BY <1>1, <1>3, <2>1, <3>1 DEF PackInv, BlocksInv, LengthInv
    <3>3. at[k] + pushed[k] <= memory.size
      BY <1>1, <1>3 DEF PackInv, BlocksInv, BlockInv
    <3>4. /\ memory.cells \in Seq(Cell) /\ memory.size \in Nat
          /\ memory.size <= Len(memory.cells) /\ Len(memory.cells) \in Nat
      BY <1>1, MemoryIsOK DEF PackInv
    <3>5. start + Word <= Len(memory.cells)
      <4>1. start + Word = at[k] /\ at[k] <= memory.size
        BY <1>4, <1>5, <3>1, <3>3, <3>4, WordAssumption
      <4> QED
        BY <1>4, <3>4, <4>1
    <3>6. WordAt(memory.cells, start) = pushed[k]
      BY <1>4, <1>5, <3>2, <3>4, <3>5, WordAtIs
    <3> QED
      BY <1>1, <2>1, <3>6 DEF BlockSize
  <2>2. CASE type # DynamicAnalysis
    <3>1. AllAsDeclared
      BY <1>1, <2>2
    <3> QED
      BY <1>1, <1>3, <1>4, <2>2, <3>1 DEF BlockSize, AllAsDeclared
  <2> QED
    BY <2>1, <2>2
<1> QED
  BY <1>6, <1>7, <1>8

(* The end of what was pushed is reached with the last block only.         *)
LEMMA OnlyTheLastEnds ==
  ASSUME IInv, phase # "filling", FoundSoFar,
         info.type = DynamicAnalysis \/ AllAsDeclared
  PROVE  IF Len(found) = Len(pushed) THEN start = memory.size
                                     ELSE start < memory.size
<1> DEFINE n == Len(pushed)
<1>1. /\ PackInv /\ TypeOK /\ AnalysisInv /\ type # Dynamic /\ info.type = type
      /\ info.avg_size \in PackageSize
  BY DEF IInv, PackInv, AnalysisInv
<1>2. Len(found) \in Nat /\ n \in Nat /\ Len(found) <= n
  BY <1>1, PushedIs, FoundIs DEF FoundSoFar
<1>3. memory.size = Edge(n) /\ start = Edge(Len(found))
  BY <1>1 DEF PackInv, LayoutInv, FoundSoFar
<1>4. CASE Len(found) = n
  BY <1>3, <1>4
<1>5. CASE Len(found) # n
  <2>1. n \in 1 .. n /\ Len(found) \in 0 .. n - 1 /\ n # 0
        /\ Len(found) \in 0 .. n
    BY <1>2, <1>5
  <2>2. at[n] \in Nat /\ pushed[n] \in Nat /\ DOMAIN pushed = 1 .. n
    BY <1>1, <2>1, PushedIs
  <2>3. Edge(Len(found)) + Prefix(type) <= at[n]
    BY <1>1, <2>1 DEF PackInv, LayoutInv, OrderInv
  <2>4. Edge(n) = at[n] + pushed[n] /\ Edge(Len(found)) \in Nat
    BY <1>1, <2>1, EdgeIsNat DEF Edge
  <2>5. Prefix(type) + pushed[n] > 0 /\ Prefix(type) \in Nat
    <3>1. CASE type = DynamicAnalysis
      BY <2>2, <3>1, WordAssumption DEF Prefix
    <3>2. CASE type # DynamicAnalysis
      <4>1. pushed[n] = info.avg_size /\ info.avg_size \in Nat \ {0}
        BY <1>1, <2>1, <2>2, <3>2, PackagesAssumption DEF AllAsDeclared
      <4> QED
        BY <3>2, <4>1 DEF Prefix
    <3> QED
      BY <3>1, <3>2
  <2> QED
    BY <1>3, <1>5, <2>2, <2>3, <2>4, <2>5
<1> QED
  BY <1>4, <1>5

(* _generic finds the next block.                                          *)
LEMMA GenericKeepsInv ==
  ASSUME IInv, Generic
  PROVE  IInv'
<1>1. PackInv /\ TypeOK /\ AnalysisInv /\ phase = "analysing"
  BY DEF IInv, PackInv, Generic
<1>2. /\ type # Dynamic /\ info.type = type /\ info.avg_size \in PackageSize
      /\ HeaderStands(memory, Len(pushed), type, info.avg_size)
  BY <1>1 DEF AnalysisInv
<1>3. LengthPrefix \in Nat /\ start \in Nat
  BY <1>1, WordAssumption DEF LengthPrefix, TypeOK
<1>4. BlockSize \in Nat
  <2>1. CASE info.type = DynamicAnalysis
    <3>1. memory.cells \in Seq(Cell) /\ start + 1 <= Len(memory.cells)
      BY <1>1, <1>3, MemoryIsOK DEF PackInv, Generic
    <3> QED
      BY <1>3, <2>1, <3>1, WordAtIsNat DEF BlockSize
  <2>2. CASE info.type # DynamicAnalysis
    BY <1>1, <2>2 DEF BlockSize, TypeOK
  <2> QED
    BY <2>1, <2>2
<1> DEFINE p == start + LengthPrefix
           b == BlockSize
<1>5. p \in Nat /\ b \in Nat /\ <<p, b>> \in Nat \X Nat /\ found \in Seq(Nat \X Nat)
  BY <1>1, <1>3, <1>4 DEF TypeOK
<1>6. /\ found' = Append(found, <<p, b>>) /\ start' = p + b
      /\ phase' = phase /\ info' = info /\ UNCHANGED packVars
  BY DEF Generic
<1> HIDE DEF p, b
<1>7. /\ found' \in Seq(Nat \X Nat) /\ Len(found') = Len(found) + 1
      /\ \A k \in 1 .. Len(found) : found'[k] = found[k]
      /\ found'[Len(found) + 1] = <<p, b>>
  BY <1>5, <1>6, AppendProperties
<1>8. PackInv'
  <2>1. start' \in Nat /\ info' \in [type : Nat, avg_size : Nat]
    BY <1>1, <1>5, <1>6 DEF TypeOK
  <2> QED
    BY <1>1, <1>6, <1>7, <2>1, PackInvFrame
<1>9. UNCHANGED <<type, memory, pushed, at>>
  BY <1>6 DEF packVars
<1>10. ASSUME info.type = DynamicAnalysis \/ AllAsDeclared
       PROVE  FoundSoFar'
  <2>1. FoundSoFar
    BY <1>1, <1>10 DEF AnalysisInv
  <2>2. Len(found) \in Nat /\ Len(pushed) \in Nat /\ Len(found) <= Len(pushed)
    BY <1>1, <2>1, PushedIs, FoundIs DEF FoundSoFar
  <2>3. start < memory.size /\ memory.size \in Nat
    BY <1>1, MemoryIsOK DEF PackInv, Generic
  <2>4. Len(found) < Len(pushed)
    BY <1>1, <1>3, <1>10, <2>1, <2>2, <2>3, OnlyTheLastEnds
  <2>5. p = at[Len(found) + 1] /\ b = pushed[Len(found) + 1]
    BY <1>1, <1>10, <2>1, <2>4, NextBlockIs DEF p, b
  <2>6. Len(found') <= Len(pushed')
    BY <1>7, <1>9, <2>2, <2>4
  <2>7. start' = Edge(Len(found))'
    <3>1. Len(found) + 1 # 0
      BY <2>2
    <3>2. Edge(Len(found))' = at'[Len(found')] + pushed'[Len(found')]
      BY <1>7, <3>1 DEF Edge
    <3> QED
      BY <1>6, <1>7, <1>9, <2>5, <3>2
  <2>8. ASSUME NEW k \in 1 .. Len(found')
        PROVE  found'[k] = <<at'[k], pushed'[k]>>
    <3>1. k \in 1 .. Len(found) \/ k = Len(found) + 1
      BY <1>7, <2>2
    <3>2. CASE k \in 1 .. Len(found)
      BY <1>7, <1>9, <2>1, <3>2 DEF FoundSoFar
    <3>3. CASE k = Len(found) + 1
      BY <1>7, <1>9, <2>5, <3>3
    <3> QED
      BY <3>1, <3>2, <3>3
  <2> QED
    BY <1>1, <1>6, <2>6, <2>7, <2>8 DEF FoundSoFar
<1>11. AllAsDeclared' => AllAsDeclared
  BY <1>6, <1>9 DEF AllAsDeclared
<1>12. AnalysisInv'
  BY <1>2, <1>6, <1>9, <1>10, <1>11 DEF AnalysisInv
<1> QED
  BY <1>8, <1>12 DEF IInv

(* generic_all ends at the last edge, so it does not throw.                *)
LEMMA GenericEndsKeepsInv ==
  ASSUME IInv, GenericEnds
  PROVE  IInv'
<1>1. PackInv /\ TypeOK /\ AnalysisInv /\ phase = "analysing"
      /\ start >= memory.size
  BY DEF IInv, PackInv, GenericEnds
<1>2. /\ type # Dynamic /\ info.type = type /\ info.avg_size \in PackageSize
      /\ HeaderStands(memory, Len(pushed), type, info.avg_size)
  BY <1>1 DEF AnalysisInv
<1>3. /\ phase' = IF start = memory.size THEN "done" ELSE "threw"
      /\ UNCHANGED packVars /\ info' = info /\ start' = start /\ found' = found
  BY DEF GenericEnds, analysisVars
<1>4. PackInv'
  <2>1. /\ phase' \in {"filling", "analysing", "done", "threw"}
        /\ info' \in [type : Nat, avg_size : Nat]
        /\ start' \in Nat /\ found' \in Seq(Nat \X Nat)
    BY <1>1, <1>3 DEF TypeOK
  <2> QED
    BY <1>1, <1>3, <2>1, PackInvFrame
<1>5. UNCHANGED <<type, memory, pushed, at>>
  BY <1>3 DEF packVars
<1>6. ASSUME info.type = DynamicAnalysis \/ AllAsDeclared
      PROVE  FoundSoFar'
  <2>1. FoundSoFar
    BY <1>1, <1>6 DEF AnalysisInv
  <2>2. start \in Nat /\ memory.size \in Nat
    BY <1>1, MemoryIsOK DEF PackInv, TypeOK
  <2>3. Len(found) = Len(pushed) /\ start = memory.size
    BY <1>1, <1>6, <2>1, <2>2, OnlyTheLastEnds
  <2>4. phase' = "done"
    BY <1>3, <2>3
  <2>5. Edge(Len(found))' = Edge(Len(found))
    BY <1>3, <1>5 DEF Edge
  <2> QED
    BY <1>3, <1>5, <2>1, <2>3, <2>4, <2>5 DEF FoundSoFar
<1>7. AllAsDeclared' => AllAsDeclared
  BY <1>3, <1>5 DEF AllAsDeclared
<1>8. AnalysisInv'
  BY <1>2, <1>3, <1>5, <1>6, <1>7 DEF AnalysisInv
<1> QED
  BY <1>4, <1>8 DEF IInv

(* The invariant speaks of these variables only.                           *)
LEMMA StutterKeepsInv ==
  ASSUME IInv, UNCHANGED vars
  PROVE  IInv'
<1>1. UNCHANGED <<phase, type, memory, pushed, at, filled, info, start, found>>
  BY DEF vars, packVars, analysisVars
<1>2. PackInv'
  <2>1. TypeOK /\ PackInv
    BY DEF IInv, PackInv
  <2> QED
    BY <1>1, <2>1, PackInvFrame DEF TypeOK, packVars
<1>3. AnalysisInv'
  BY <1>1 DEF IInv, AnalysisInv, AllAsDeclared, FoundSoFar, Edge
<1> QED
  BY <1>2, <1>3 DEF IInv

(* Every step keeps the invariant.                                         *)
LEMMA NextKeepsInv == IInv /\ [Next]_vars => IInv'
<1> SUFFICES ASSUME IInv, [Next]_vars PROVE IInv'
  OBVIOUS
<1>1. ASSUME NEW n \in Length, Fill(n) PROVE IInv'
  BY <1>1, FillKeepsInv, PackagesAssumption
<1>2. ASSUME NEW n \in Length, PushBack(n) PROVE IInv'
  BY <1>2, PushBackKeepsInv, PackagesAssumption
<1>3. CASE Clear
  BY <1>3, ClearKeepsInv
<1>4. CASE Analyse
  BY <1>4, AnalyseKeepsInv
<1>5. CASE Generic
  BY <1>5, GenericKeepsInv
<1>6. CASE GenericEnds
  BY <1>6, GenericEndsKeepsInv
<1>7. CASE UNCHANGED vars
  BY <1>7, StutterKeepsInv
<1> QED
  BY <1>1, <1>2, <1>3, <1>4, <1>5, <1>6, <1>7 DEF Next

(* The invariant: types, room, the header, the blocks and their edges, and *)
(* how far the analysis has come.                                          *)
THEOREM PackagesInvariant == Spec => []IInv
<1>1. Init => IInv
  BY InitInv
<1>2. IInv /\ [Next]_vars => IInv'
  BY NextKeepsInv
<1> QED
  BY <1>1, <1>2, PTL DEF Spec

(* Nothing is written or counted behind what was allocated, whatever is    *)
(* pushed, filled or cleared (dynamic_memory_block.hpp, lines 143 to 187). *)
THEOREM BufferStaysInside == Spec => []InsideBuffer
<1>1. IInv => InsideBuffer
  BY DEF IInv, PackInv, InsideBuffer
<1> QED
  BY <1>1, PackagesInvariant, PTL

(* The cells of a block are the bytes at its slot.                         *)
LEMMA BlocksAreWhereTheyWerePushed == IInv => SlotsStay
<1> SUFFICES ASSUME IInv, NEW k \in DOMAIN pushed
             PROVE  SubSeq(memory.cells, at[k] + 1, at[k] + pushed[k])
                      = BlockCells(k, pushed[k])
  BY DEF SlotsStay
<1>1. TypeOK /\ Inside(memory) /\ BlocksInv
  BY DEF IInv, PackInv
<1>2. k \in 1 .. Len(pushed) /\ k \in Nat /\ at[k] \in Nat /\ pushed[k] \in Nat
  BY <1>1, PushedIs
<1>3. at[k] + pushed[k] <= memory.size
      /\ BlockStands(memory.cells, at[k], k, pushed[k])
  BY <1>1, <1>2 DEF BlocksInv, BlockInv
<1> DEFINE new == BlockCells(k, pushed[k])
<1>4. /\ new \in Seq(Cell) /\ Len(new) = pushed[k]
      /\ \A i \in 1 .. pushed[k] : new[i] = <<"block", k, i>>
  BY <1>2, BlockCellsIs
<1>5. memory.cells \in Seq(Cell) /\ at[k] + pushed[k] <= Len(memory.cells)
  BY <1>1, <1>2, <1>3, MemoryIsOK
<1> HIDE DEF new
<1>6. (SubSeq(memory.cells, at[k] + 1, at[k] + Len(new)) = new)
        <=> (\A i \in 1 .. Len(new) : memory.cells[at[k] + i] = new[i])
  BY <1>2, <1>4, <1>5, PieceIs
<1> QED
  BY <1>3, <1>4, <1>6 DEF BlockStands, new

(* Every slot push_back has returned leads to its block, however the       *)
(* buffer grew since (archive_packages.cpp, lines 184 to 208).             *)
THEOREM SlotsStayValid == Spec => []SlotsStay
BY BlocksAreWhereTheyWerePushed, PackagesInvariant, PTL

(* At the end as many blocks were found as were pushed.                    *)
LEMMA FoundIsPushed == IInv => AnalysisGivesBack
<1> SUFFICES ASSUME IInv, phase \in {"done", "threw"},
                    info.type = DynamicAnalysis \/ AllAsDeclared
             PROVE  /\ phase = "done"
                    /\ found = [k \in DOMAIN pushed |-> <<at[k], pushed[k]>>]
  BY DEF AnalysisGivesBack
<1>1. TypeOK /\ FoundSoFar
  BY DEF IInv, PackInv, AnalysisInv
<1>2. phase = "done" /\ Len(found) = Len(pushed)
  BY <1>1 DEF FoundSoFar
<1>3. /\ DOMAIN pushed = 1 .. Len(pushed) /\ DOMAIN found = 1 .. Len(pushed)
      /\ \A k \in 1 .. Len(pushed) : found[k] = <<at[k], pushed[k]>>
  BY <1>1, <1>2, PushedIs, FoundIs DEF FoundSoFar
<1>4. found = [k \in DOMAIN found |-> found[k]]
  BY <1>1, LenProperties DEF TypeOK
<1> QED
  BY <1>2, <1>3, <1>4

(* The analysis ends, without throwing, with the blocks that were pushed   *)
(* (archive_packages.cpp, lines 246 to 277).                               *)
THEOREM AnalysisIsRight == Spec => []AnalysisGivesBack
BY FoundIsPushed, PackagesInvariant, PTL

(* The first word of what is not dynamic counts the blocks, and the second *)
(* is the type (archive_packages.cpp, lines 184 to 208).                   *)
HeaderCounts ==
  type # Dynamic => /\ HasWord(memory.cells, 0, Len(pushed))
                    /\ HasWord(memory.cells, Word, type)

(* The counter and the type are in the header whenever someone looks: the  *)
(* slot counted up after each block is still the one _init wrote.          *)
THEOREM HeaderIsRight == Spec => []HeaderCounts
<1>1. ASSUME IInv, type # Dynamic
      PROVE  /\ HasWord(memory.cells, 0, Len(pushed))
             /\ HasWord(memory.cells, Word, type)
  <2>1. PackInv /\ TypeOK /\ type \in Nat
    BY <1>1 DEF IInv, PackInv, TypeOK, PackageType, Concrete, Dynamic,
                DynamicAnalysis
  <2>2. /\ 3 * Word <= memory.size
        /\ WordStands(memory.cells, 0, Len(pushed))
        /\ WordStands(memory.cells, Word, type)
    BY <1>1, <2>1 DEF PackInv, HeaderInv, HeaderStands
  <2>3. /\ memory.cells \in Seq(Cell) /\ Len(memory.cells) \in Nat
        /\ 0 + Word <= Len(memory.cells) /\ Word + Word <= Len(memory.cells)
        /\ Word \in Nat /\ Len(pushed) \in Nat
    BY <2>1, <2>2, MemoryIsOK, PushedIs, WordAssumption DEF PackInv
  <2> QED
    BY <2>1, <2>2, <2>3, HasWordIs
<1>2. IInv => HeaderCounts
  BY <1>1 DEF HeaderCounts
<1> QED
  BY <1>2, PackagesInvariant, PTL
=============================================================================
