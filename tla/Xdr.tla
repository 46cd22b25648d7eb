-------------------------------- MODULE Xdr --------------------------------
(***************************************************************************)
(* How one value becomes bytes and how serialize<> lines values up in a    *)
(* block: archived_size first measures every value into a table of sizes,  *)
(* archive_to then writes each value at the sum of the sizes before it,    *)
(* and rarchive walks by what each read says it used.  Bytes are not       *)
(* reordered: to_xdr_order has no caller, both ends are of one kind.       *)
(***************************************************************************)
EXTENDS Integers, Sequences

CONSTANT MaxLength \* XDR_MAXINUM_FIXED_LENGTH_OPAQUE_DATA_LENGTH

ASSUME XdrAssumption == MaxLength \in Nat

(* sizeof(size_t) and XDR_MININUM_ALIGN of the 32-bit build.               *)
Word == 4

Align(n) == ((n + Word - 1) \div Word) * Word

(* A type: a plain object of "size" bytes, one wrapped by xdr_type, a      *)
(* string, or an opaque block.  A value is the sequence of its bytes.      *)
Kind == {"plain", "wrapped", "string", "opaque"}
Type == [kind : Kind, size : Nat]
Byte(c, i) == <<"byte", c, i>>
Zero == <<"zero">>
Garbage == <<"garbage">> \* behind an object, or never written
WordBytes(n) == [i \in 1 .. Word |-> <<"word", n>>]

(* What rarchive leaves of a string it has run beyond the end of.          *)
Broken == <<<<"broken">>>>

Bytes(block, at, n) ==
  [i \in 1 .. n |-> IF at + i <= Len(block) THEN block[at + i] ELSE Garbage]

WordAt(block, at) ==
  LET bytes == Bytes(block, at, Word)
  IN  IF bytes[1][1] = "word" /\ bytes = WordBytes(bytes[1][2]) THEN bytes[1][2] ELSE 0

-----------------------------------------------------------------------------
(* One value                                                               *)

(* is_fixed_length_data                                                    *)
IsFixed(t) == t.kind \in {"plain", "wrapped"}

(* An object less than four bytes is stored as a long, a longer one with   *)
(* the bytes that are missing in "zero".                                   *)
Padded(v) == v \o [i \in 1 .. Align(Len(v)) - Len(v) |-> Zero]

Object(t, v) == IF t.kind = "wrapped" THEN Padded(v) ELSE v

(* archived_size of the object itself: sizeof, or size() of a string.      *)
RawSize(t, v) == Len(Object(t, v))

(* ex_length: a value of variable length has its length in front.          *)
ExLength(t) == IF IsFixed(t) THEN 0 ELSE Word

(* archived_size throws std::invalid_argument.  The lower limit of 255 for *)
(* xdr_string is never looked up: what is archived is a const xdr_string.  *)
TooLong(t, v) == Align(RawSize(t, v)) > MaxLength

(* Mutant: the measure forgets what the reader skips.                      *)
ArchivedSizeExact(t, v) == RawSize(t, v) + ExLength(t)

ArchivedSize(t, v) == Align(RawSize(t, v)) + ExLength(t)

(* archive_to_with_size: the padding of a variable length is not written,  *)
(* that of a plain object is what lies behind the object.                  *)
Image(t, v) ==
  IF IsFixed(t) THEN Object(t, v) ELSE WordBytes(RawSize(t, v)) \o v

(* A string with room enough is overwritten and then appended to: where it *)
(* was longer than what comes, the copy runs from a begin behind its end.  *)
IntoString(old, got) == IF Len(old) > Len(got) THEN Broken ELSE got

(* An opaque block is replaced by a new one.                               *)
IntoOpaque(old, got) == got

ReadFixed(t, old, block, at) ==
  [value |-> Bytes(block, at, Len(old)), used |-> Align(RawSize(t, old))]

ReadVariable(t, old, block, at) ==
  LET n == WordAt(block, at)
      got == Bytes(block, at + Word, n)
  IN  [value |-> IF t.kind = "string" THEN IntoString(old, got)
                                      ELSE IntoOpaque(old, got),
       used |-> Word + Align(n)]

(* rarchive_with_size.                                                     *)
Read(t, old, block, at) ==
  IF IsFixed(t) THEN ReadFixed(t, old, block, at)
                ELSE ReadVariable(t, old, block, at)

-----------------------------------------------------------------------------
(* serialize<>: values of the types ts, of which the filter lets those of  *)
(* "passing" through.                                                      *)

(* What _sizes has room for; archived_size_real does not look.             *)
SizeOfArgument == 20

NewCore == [sizes |-> <<>>, index |-> 0]

(* ser_archived_size: a value that is filtered out takes no bytes.         *)
FilteredSize(t, v, passes) == IF passes THEN ArchivedSize(t, v) ELSE 0

(* archived_size_real: one entry of _sizes for each value.                 *)
Measure(core, ts, vs, passing) ==
  [core EXCEPT !.sizes =
     @ \o [i \in DOMAIN ts |-> FilteredSize(ts[i], vs[i], i \in passing)]]

Refused(ts, vs, passing) == \E i \in passing : TooLong(ts[i], vs[i])

(* ser_archive_to_with_size into the bytes up to the next value.           *)
Written(t, v, passes, size) ==
  LET image == IF passes THEN Image(t, v) ELSE <<>>
  IN  [b \in 1 .. size |-> IF b <= Len(image) THEN image[b] ELSE Garbage]

(* archive_to_real: by the entries of _sizes from _index on; upTo[i] is    *)
(* what is written after i values.                                         *)
ArchivedUpTo(core, ts, vs, passing) ==
  LET upTo[i \in 0 .. Len(ts)] ==
        IF i = 0 THEN <<>>
        ELSE upTo[i - 1] \o Written(ts[i], vs[i], i \in passing,
                                    core.sizes[core.index + i])
  IN  upTo

ArchiveTo(core, ts, vs, passing) == ArchivedUpTo(core, ts, vs, passing)[Len(ts)]

(* archive_real: measure, allocate, write.                                 *)
ArchiveReal(core, ts, vs, passing) ==
  ArchiveTo(Measure(core, ts, vs, passing), ts, vs, passing)

(* rarchive_real: a value that is filtered out keeps what it is.           *)
ReadStep(acc, t, old, passes, block) ==
  IF passes
  THEN LET r == Read(t, old, block, acc.at)
       IN  [values |-> Append(acc.values, r.value), at |-> acc.at + r.used]
  ELSE [acc EXCEPT !.values = Append(@, old)]

ReadUpTo(ts, olds, passing, block) ==
  LET upTo[i \in 0 .. Len(ts)] ==
        IF i = 0 THEN [values |-> <<>>, at |-> 0]
        ELSE ReadStep(upTo[i - 1], ts[i], olds[i], i \in passing, block)
  IN  upTo

RarchiveReal(ts, olds, passing, block) == ReadUpTo(ts, olds, passing, block)[Len(ts)]
=============================================================================
