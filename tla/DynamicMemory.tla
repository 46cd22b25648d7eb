--------------------------- MODULE DynamicMemory ---------------------------
(***************************************************************************)
(* dynamic_memory_block: a buffer that grows when something is pushed.     *)
(* The bytes are cells that remember what was written there, so that what  *)
(* growing and copying do to them can be seen.                             *)
(***************************************************************************)
EXTENDS Integers, Sequences

CONSTANT Word   \* sizeof(size_t)

ASSUME WordAssumption == Word \in Nat \ {0}

(* What a byte can hold: part of a word, of a block, or what was there.    *)
WordCells(n) == [i \in 1 .. Word |-> <<"word", n, i>>]
BlockCells(k, len) == [i \in 1 .. len |-> <<"block", k, i>>]
Junk == <<"junk", 0, 0>>
Changed == <<"changed", 0, 0>>

(* A buffer is its allocated cells, _memory, and how many are in use.      *)
Allocate(n) == [i \in 1 .. n |-> Junk]

Capacity(m) == Len(m.cells)
Rest(m) == Capacity(m) - m.size

(* The bytes in use, what memory() gives away.                             *)
Content(m) == SubSeq(m.cells, 1, m.size)

(* Writing past the end makes the cells longer than what was allocated.    *)
Overwrite(cells, at, new) ==
  [i \in 1 .. (IF at + Len(new) > Len(cells) THEN at + Len(new) ELSE Len(cells)) |->
     IF i \in at + 1 .. at + Len(new) THEN new[i - at]
     ELSE IF i \in DOMAIN cells THEN cells[i] ELSE Junk]

(* Mutant: the new buffer is used without what was in the old one.         *)
ExternForgets(m, pre, ex) ==
  [m EXCEPT !.cells = Allocate(2 * pre + ex), !.allocated = 2 * pre + ex]

(* The reserve is twice what the caller says there is, and what is needed. *)
Extern(m, pre, ex) ==
  [m EXCEPT !.cells = Overwrite(Allocate(2 * pre + ex), 0, Content(m)),
            !.allocated = 2 * pre + ex]

NewMemory(reserve) ==
  [cells |-> Allocate(reserve), size |-> 0, allocated |-> reserve]

(* Mutant: room for one byte less.                                         *)
TryExternShort(m, ex) ==
  IF Capacity(m) + 1 < m.size + ex THEN Extern(m, m.size, ex) ELSE m

TryExtern(m, ex) ==
  IF Capacity(m) < m.size + ex THEN Extern(m, m.size, ex) ELSE m

PushMemory(m, new) ==
  LET room == IF Rest(m) < Len(new) THEN Extern(m, Capacity(m), Len(new)) ELSE m
  IN  [room EXCEPT !.cells = Overwrite(@, m.size, new),
                   !.size = @ + Len(new)]

AllocToCopy(m, new) ==
  LET room == TryExtern(m, Len(new))
  IN  [room EXCEPT !.cells = Overwrite(@, m.size, new),
                   !.size = @ + Len(new)]

(* The bytes are taken as they are, although the comment wants zeros.      *)
FillMemory(m, n) == [TryExtern(m, n) EXCEPT !.size = @ + n]

(* What was there is still there, but nobody looks at it any more.         *)
CleanData(m) == [m EXCEPT !.size = 0, !.cells = Allocate(Len(@))]

(* Everything was written where something is allocated.                    *)
Inside(m) == Len(m.cells) = m.allocated /\ m.size <= m.allocated
=============================================================================
