------------------------------ MODULE Packages ------------------------------
(***************************************************************************)
(* archive_packages, which lines blocks up in one buffer, and              *)
(* packages_analysis, which finds them again.  All but dynamic packages    *)
(* start with three words: the number of packages, the type and the size   *)
(* of a package.  udt uses a dynamic one for the head of a slice: room for *)
(* the header of trans_core, then its own ident, then the data behind it.  *)
(***************************************************************************)
EXTENDS DynamicMemory

CONSTANTS
  PackageSize, \* package_size of a concrete object
  Reserve,     \* the reserve of the buffer
  Length,      \* bound: lengths of what is pushed or filled
  MaxBlocks    \* bound: blocks pushed

ASSUME PackagesAssumption ==
  /\ PackageSize \subseteq Nat \ {0}
  /\ Reserve \subseteq Nat
  /\ Length \subseteq Nat
  /\ MaxBlocks \in Nat

Concrete == 0
Dynamic == 1
DynamicAnalysis == 2
PackageType == {Concrete, Dynamic, DynamicAnalysis}

VARIABLES
  phase,   \* "filling", then "analysing" its memory, then "done" or "threw"
  type,    \* type(): _type, or the second word
  memory,  \* _memory
  pushed,  \* [1 .. n -> Nat] the lengths of the blocks pushed
  at,      \* the slots push_back returned
  filled,  \* a dynamic object has its room for trans_core's header
  info,    \* packages_analysis::_info
  start,   \* packages_analysis::_start
  found    \* the slots and sizes of packages_analysis::_impl

packVars == <<type, memory, pushed, at, filled>>
analysisVars == <<info, start, found>>
vars == <<phase, packVars, analysisVars>>

Header(count, t, size) == WordCells(count) \o WordCells(t) \o WordCells(size)

(* _init: nothing is written for a dynamic one.                            *)
InitMemory(m, t, size) ==
  IF t = Dynamic THEN m ELSE PushMemory(m, Header(0, t, size))

HasWord(cells, i, n) == SubSeq(cells, i + 1, i + Word) = WordCells(n)

(* A word of the header or the length before a block; cells that were not  *)
(* written as one word count as zero.                                      *)
WordAt(cells, i) ==
  LET n == cells[i + 1][2] IN IF HasWord(cells, i, n) THEN n ELSE 0

Init ==
  /\ phase = "filling"
  /\ type \in PackageType
  /\ \E reserve \in Reserve, size \in PackageSize :
       memory = InitMemory(NewMemory(reserve), type, size)
  /\ pushed = <<>>
  /\ at = <<>>
  /\ filled = FALSE
  /\ info = [type |-> Concrete, avg_size |-> 0]
  /\ start = 0
  /\ found = <<>>

(* fill(): udt makes room for trans_core before it pushes.                 *)
Fill(n) ==
  /\ phase = "filling"
  /\ type = Dynamic
  /\ ~ filled
  /\ n >= Word
  /\ memory' = FillMemory(memory, n)
  /\ filled' = TRUE
  /\ UNCHANGED <<phase, type, pushed, at, analysisVars>>

(* A dynamic_analysis object writes the length before the block.           *)
Packed(t, cells) ==
  IF t = DynamicAnalysis THEN WordCells(Len(cells)) \o cells ELSE cells

(* ++_slot(_slot_of_size), also where the first word is not the counter.   *)
CountPackage(m, n) ==
  [m EXCEPT !.cells = Overwrite(@, 0, IF HasWord(@, 0, n) THEN WordCells(n + 1)
                                                          ELSE <<Changed>>)]

(* archive_in_here returns where the data starts, behind the length.       *)
DataStart(t, size) == size + (IF t = DynamicAnalysis THEN Word ELSE 0)

PushBack(len) ==
  /\ phase = "filling"
  /\ Len(pushed) < MaxBlocks
  /\ type = Dynamic => filled
  /\ LET n == Len(pushed)
         cells == Packed(type, BlockCells(n + 1, len))
     IN  memory' = CountPackage(AllocToCopy(memory, cells), n)
  /\ pushed' = Append(pushed, len)
  /\ at' = Append(at, DataStart(type, memory.size))
  /\ UNCHANGED <<phase, type, filled, analysisVars>>

(* Mutant: the new header goes behind the old packages.                    *)
ClearedNot(m) == m

Cleared(m) == CleanData(m)

Clear ==
  /\ phase = "filling"
  /\ pushed # <<>>
  /\ memory' = InitMemory(Cleared(memory), type,
                 IF type = Dynamic THEN 0 ELSE WordAt(memory.cells, 2 * Word))
  /\ pushed' = <<>>
  /\ at' = <<>>
  /\ filled' = FALSE
  /\ UNCHANGED <<phase, type, analysisVars>>

(* The constructor of packages_analysis reads the three words, which only  *)
(* packages that are not dynamic have.                                     *)
Analyse ==
  /\ phase = "filling"
  /\ type # Dynamic
  /\ phase' = "analysing"
  /\ info' = [type |-> WordAt(memory.cells, Word),
              avg_size |-> WordAt(memory.cells, 2 * Word)]
  /\ start' = 3 * Word
  /\ found' = <<>>
  /\ UNCHANGED packVars

LengthPrefix == IF info.type = DynamicAnalysis THEN Word ELSE 0

BlockSize ==
  IF info.type = DynamicAnalysis THEN WordAt(memory.cells, start)
                                 ELSE info.avg_size

(* _generic, with generic_all as the loop that ends when nothing was found.*)
Generic ==
  /\ phase = "analysing"
  /\ start < memory.size
  /\ found' = Append(found, <<start + LengthPrefix, BlockSize>>)
  /\ start' = start + LengthPrefix + BlockSize
  /\ UNCHANGED <<phase, packVars, info>>

GenericEnds ==
  /\ phase = "analysing"
  /\ start >= memory.size
  /\ phase' = IF start = memory.size THEN "done" ELSE "threw"
  /\ UNCHANGED <<packVars, analysisVars>>

Next ==
  \/ \E n \in Length : Fill(n) \/ PushBack(n)
  \/ Clear
  \/ Analyse \/ Generic \/ GenericEnds

Spec == Init /\ [][Next]_vars

-----------------------------------------------------------------------------
(* Properties                                                              *)

(* However it grows, nothing is written or counted behind what was         *)
(* allocated: the buffer of a datagram and of a head end where they end    *)
(* (dynamic_memory_block.hpp, lines 50 to 56 and 143 to 187).              *)
InsideBuffer == Inside(memory)

(* The slot push_back returned still leads to the block after all the      *)
(* growing and counting since (lines 59 to 62, 184 to 208): the proxies    *)
(* and udt's head depend on it.                                            *)
SlotsStay ==
  \A k \in DOMAIN pushed :
    SubSeq(memory.cells, at[k] + 1, at[k] + pushed[k]) = BlockCells(k, pushed[k])

AllAsDeclared == \A k \in DOMAIN pushed : pushed[k] = info.avg_size

(* The analysis ends, without throwing, with what was pushed, block by     *)
(* block; a concrete object promises it for blocks of the size it was made *)
(* for (archive_packages.cpp, lines 146 to 159 and 246 to 277).            *)
AnalysisGivesBack ==
  (phase \in {"done", "threw"}
     /\ (info.type = DynamicAnalysis \/ AllAsDeclared)) =>
        /\ phase = "done"
        /\ found = [k \in DOMAIN pushed |-> <<at[k], pushed[k]>>]
=============================================================================
