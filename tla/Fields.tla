------------------------------- MODULE Fields -------------------------------
(***************************************************************************)
(* Bundles of header fields (src/lib/jxl/fields): the integer coders, and   *)
(* the visitors that size, write and read a bundle.                         *)
(*                                                                          *)
(* A bundle is described by a layout: a sequence of fields, each with a     *)
(* coder, a default, the name of the field that must be nonzero for it to   *)
(* be present ("" if it always is) and the extension it came with (0 if it  *)
(* was there from the start).  A writer knows the whole layout, a reader    *)
(* may be older and know fewer extensions.  U64 has groups of First, Group  *)
(* and one bits instead of 12, 8 and 4; F16 has a sign, three bits of       *)
(* exponent and two of mantissa, and its values are integers, in units of   *)
(* which the smallest F16 is four.                                          *)
(***************************************************************************)
EXTENDS Integers, SequencesExt

CONSTANTS Layouts,        \* the layouts of bundles to write
          ValuesOf(_),    \* the values of a layout's fields to try
          MaxCut          \* how many bits of a stream may be missing

VARIABLES layout, known,  \* the writer's layout; extensions the reader knows
          values,         \* what the writer was given
          stream, sizes,  \* what it wrote, and what CanEncode had announced
          cut,            \* bits missing at the end of the stream
          result          \* what the reader returned

vars == <<layout, known, values, stream, sizes, cut, result>>

None == [status |-> "none"]
ToBits(v, n) == [i \in 1 .. n |-> (v \div (2 ^ (i - 1))) % 2]

-----------------------------------------------------------------------------
(* U64Coder.                                                                *)
First == 3
Group == 2
VarintEnd == First + (2 * Group)  \* where the last, one-bit group begins
Small == 2                        \* values with selector 1 (16 in the code)
Middle == Small + 4               \* values with selector 2 (272)

Groups(value) ==
  LET groups[v \in 0 .. 31, shift \in First .. VarintEnd] ==
        CASE v > 0 /\ shift < VarintEnd ->
               <<1>> \o ToBits(v % 4, Group) \o groups[v \div 4, shift + Group]
          [] v > 0 /\ shift = VarintEnd -> <<1>> \o ToBits(v % 2, 1)
          [] v = 0 -> <<0>>
  IN  groups[value, First]

U64Bits(v) ==
  CASE v = 0 -> ToBits(0, 2)
    [] v \in 1 .. Small -> ToBits(1, 2) \o ToBits(v - 1, 1)
    [] v \in Small + 1 .. Middle -> ToBits(2, 2) \o ToBits(v - 1 - Small, 2)
    [] v > Middle -> ToBits(3, 2) \o ToBits(v % 8, First) \o Groups(v \div 8)

(* CanEncode repeats the case distinction, with sizes.                      *)
U64Size(v) ==
  LET groups[w \in 0 .. 31, shift \in First .. VarintEnd] ==
        CASE w > 0 /\ shift < VarintEnd ->
               1 + Group + groups[w \div 4, shift + Group]
          [] w > 0 /\ shift = VarintEnd -> 2
          [] w = 0 -> 1
  IN  CASE v = 0 -> 2
        [] v \in 1 .. Small -> 2 + 1
        [] v \in Small + 1 .. Middle -> 2 + 2
        [] v > Middle -> 2 + First + groups[v \div 8, First]

(* U32Coder: the cheapest of four distributions, <<value>> a direct one and *)
(* <<bits, offset>> an offset with extra bits.                              *)
IsDirect(d) == Len(d) = 1
Covers(d, v) == IF IsDirect(d) THEN d[1] = v
                ELSE v >= d[2] /\ v < d[2] + (2 ^ d[1])
Cost(d) == IF IsDirect(d) THEN 0 ELSE d[1]
Feasible(enc, v) == {s \in 1 .. 4 : Covers(enc[s], v)}
ChooseSelector(enc, v) ==
  CHOOSE s \in Feasible(enc, v) :
    \A t \in Feasible(enc, v) :
      \/ Cost(enc[s]) < Cost(enc[t])
      \/ Cost(enc[s]) = Cost(enc[t]) /\ s <= t

U32Bits(enc, v) ==
  LET s == ChooseSelector(enc, v)
  IN  ToBits(s - 1, 2)
        \o IF IsDirect(enc[s]) THEN <<>> ELSE ToBits(v - enc[s][2], enc[s][1])

(* F16Coder, on n with its highest bit at 2^k; what F16 has no bits for is  *)
(* cut off.                                                                 *)
Magnitude(v) == IF v < 0 THEN -v ELSE v
HighestBit(n) == CHOOSE k \in 0 .. 16 : n >= 2 ^ k /\ n < 2 ^ (k + 1)
Subnormal(n) == n < 16
F16Mantissa(n) == IF Subnormal(n) THEN n \div 4
                  ELSE (n \div (2 ^ (HighestBit(n) - 2))) - 4
F16Exponent(n) == IF Subnormal(n) THEN 0 ELSE HighestBit(n) - 3
F16Bits(v) ==
  IF Magnitude(v) < 4 THEN ToBits(0, 6)   \* tiny numbers lose their sign
  ELSE ToBits(F16Mantissa(Magnitude(v)), 2) \o ToBits(F16Exponent(Magnitude(v)), 3)
         \o <<IF v < 0 THEN 1 ELSE 0>>
LargestF16 == 7 * (2 ^ 7)

Encoded(coder, v) ==
  CASE coder.kind = "bits" -> ToBits(v, coder.n)
    [] coder.kind = "f16" -> F16Bits(v)
    [] coder.kind = "u32" -> U32Bits(coder.enc, v)
    [] coder.kind = "u64" -> U64Bits(v)

EncodedBits(coder, v) ==
  CASE coder.kind = "bits" -> coder.n
    [] coder.kind = "f16" -> 6
    [] coder.kind = "u32" -> 2 + Cost(coder.enc[ChooseSelector(coder.enc, v)])
    [] coder.kind = "u64" -> U64Size(v)

CanEncodeValue(coder, v) ==
  CASE coder.kind = "bits" -> v < 2 ^ coder.n
    [] coder.kind = "f16" -> Magnitude(v) <= LargestF16
    [] coder.kind = "u32" -> Feasible(coder.enc, v) # {}
    [] coder.kind = "u64" -> TRUE

(* Bundle::MaxBits takes every field to be present, all_default to be false *)
(* and the longest code for each; it has nothing for extensions.            *)
MaxEncodedBits(coder) ==
  CASE coder.kind = "bits" -> coder.n
    [] coder.kind = "f16" -> 6
    [] coder.kind = "u32" -> 2 + Max({Cost(coder.enc[i]) : i \in 1 .. 4})
    [] coder.kind = "u64" -> 2 + First + (2 * (Group + 1)) + (1 + 1)
MaxBits(lay) == FoldSeq(LAMBDA f, sum : sum + MaxEncodedBits(f.coder), 1, lay)

-----------------------------------------------------------------------------
(* Reading a position and a stream that may be shorter than what is asked   *)
(* for: missing bits are zero, and the position runs past the end.          *)
ReadBits(s, pos, n) ==
  LET bit(i) == IF i <= Len(s) THEN s[i] ELSE 0
      sum[i \in 0 .. n] == IF i = 0 THEN 0
                           ELSE sum[i - 1] + (bit(pos + i) * (2 ^ (i - 1)))
  IN  sum[n]

Got(v, pos) == [v |-> v, pos |-> pos]

ReadU64(s, pos) ==
  LET p == pos + 2
      groups[shift \in First .. VarintEnd, at \in 0 .. p + 16] ==
        CASE ReadBits(s, at, 1) = 0 -> Got(0, at + 1)
          [] ReadBits(s, at, 1) = 1 /\ shift = VarintEnd ->
               Got(ReadBits(s, at + 1, 1) * (2 ^ shift), at + 2)
          [] ReadBits(s, at, 1) = 1 /\ shift < VarintEnd ->
               LET rest == groups[shift + Group, at + 1 + Group]
               IN  Got(rest.v + (ReadBits(s, at + 1, Group) * (2 ^ shift)),
                       rest.pos)
  IN  CASE ReadBits(s, pos, 2) = 0 -> Got(0, p)
        [] ReadBits(s, pos, 2) = 1 -> Got(1 + ReadBits(s, p, 1), p + 1)
        [] ReadBits(s, pos, 2) = 2 -> Got(1 + Small + ReadBits(s, p, 2), p + 2)
        [] ReadBits(s, pos, 2) = 3 ->
             LET tail == groups[First, p + First]
             IN  Got(ReadBits(s, p, First) + tail.v, tail.pos)

ReadU32(enc, s, pos) ==
  LET d == enc[ReadBits(s, pos, 2) + 1]
  IN  IF IsDirect(d) THEN Got(d[1], pos + 2)
      ELSE Got(ReadBits(s, pos + 2, d[1]) + d[2], pos + 2 + d[1])

ReadF16(sign, exponent, mantissa) ==
  (IF sign = 1 THEN -1 ELSE 1)
    * (IF exponent = 0 THEN 4 * mantissa ELSE (4 + mantissa) * (2 ^ (exponent + 1)))

Decoded(coder, s, pos) ==
  CASE coder.kind = "bits" -> Got(ReadBits(s, pos, coder.n), pos + coder.n)
    [] coder.kind = "f16" ->
         Got(ReadF16(ReadBits(s, pos + 5, 1), ReadBits(s, pos + 2, 3),
                     ReadBits(s, pos, 2)), pos + 6)
    [] coder.kind = "u32" -> ReadU32(coder.enc, s, pos)
    [] coder.kind = "u64" -> ReadU64(s, pos)

-----------------------------------------------------------------------------
Names(lay) == {lay[i].name : i \in DOMAIN lay}
Defaults(lay) == [n \in Names(lay) |->
                    (CHOOSE f \in ToSet(lay) : f.name = n).default]

HasBit(extensions, k) == (extensions \div (2 ^ (k - 1))) % 2 = 1

(* Visitor::Conditional, for the values seen so far.                        *)
Present(f, vals, extensions) ==
  /\ f.cond # "" => vals[f.cond] # 0
  /\ f.ext # 0 => HasBit(extensions, f.ext)

(* Bundle::AllDefault: absent fields are not looked at.  An F16 field that  *)
(* is as near to its default as 1E-6 counts as the default: that takes in   *)
(* the smallest F16 numbers around zero, here two of them, and none of the  *)
(* neighbours of a large default.                                           *)
Tolerance == 10
IsDefault(f, v) == IF f.coder.kind = "f16" THEN Magnitude(v - f.default) < Tolerance
                                           ELSE v = f.default
AllDefault(lay, vals, extensions) ==
  /\ extensions = 0
  /\ \A f \in ToSet(lay) : Present(f, vals, extensions) => IsDefault(f, vals[f.name])

Base(lay) == SelectSeq(lay, LAMBDA f : f.ext = 0)
Extension(lay) == SelectSeq(lay, LAMBDA f : f.ext # 0)

(* CanEncodeVisitor: total_bits and extension_bits.                         *)
SizeOf(fields, vals, extensions) ==
  FoldSeq(LAMBDA f, sum : IF Present(f, vals, extensions)
                          THEN sum + EncodedBits(f.coder, vals[f.name])
                          ELSE sum, 0, fields)

NumExtensions(extensions) == Cardinality({k \in 1 .. 8 : HasBit(extensions, k)})

CanEncode(lay, vals, extensions) ==
  LET base == 1 + SizeOf(Base(lay), vals, extensions) + U64Size(extensions)
      ext == SizeOf(Extension(lay), vals, extensions)
  IN  IF AllDefault(lay, vals, extensions) THEN [total |-> 1, ext |-> 0]
      ELSE [ext |-> ext,
            total |-> IF extensions = 0 THEN base
                      ELSE base + ext + U64Size(ext)
                             + (2 * (NumExtensions(extensions) - 1))]

(* WriteVisitor: all bits of extensions are ascribed to the first one.      *)
BitsOf(fields, vals, extensions) ==
  FoldLeft(LAMBDA s, f : IF Present(f, vals, extensions)
                         THEN s \o Encoded(f.coder, vals[f.name]) ELSE s,
           <<>>, fields)

ExtensionSizes(extensions, ext) ==
  U64Bits(ext) \o FlattenSeq([k \in 1 .. NumExtensions(extensions) - 1 |->
                                U64Bits(0)])

Written(lay, vals, extensions, ext) ==
  IF AllDefault(lay, vals, extensions) THEN <<1>>
  ELSE <<0>> \o BitsOf(Base(lay), vals, extensions) \o U64Bits(extensions)
         \o IF extensions = 0 THEN <<>>
            ELSE ExtensionSizes(extensions, ext)
                   \o BitsOf(Extension(lay), vals, extensions)

-----------------------------------------------------------------------------
(* ReadVisitor.  Its state: the values read, the position, whether it has   *)
(* stopped because the input ended.                                         *)
Reading(vals, pos, s) == [vals |-> vals, pos |-> pos, enough |-> pos <= Len(s)]

ReadField(s, f, r, extensions) ==
  IF ~r.enough \/ ~Present(f, r.vals, extensions) THEN r
  ELSE LET got == Decoded(f.coder, s, r.pos)
       IN  Reading([r.vals EXCEPT ![f.name] = got.v], got.pos, s)

ReadFields(s, fields, r, extensions) ==
  FoldLeft(LAMBDA acc, f : ReadField(s, f, acc, extensions), r, fields)

(* BeginExtensions: one size for each extension, known or not.              *)
ReadSizes(s, extensions, pos) ==
  LET sizesUpTo[k \in 0 .. 8] ==
        IF k = 0 THEN Got(0, pos)
        ELSE IF ~HasBit(extensions, k) THEN sizesUpTo[k - 1]
        ELSE LET got == ReadU64(s, sizesUpTo[k - 1].pos)
             IN  Got(sizesUpTo[k - 1].v + got.v, got.pos)
  IN  sizesUpTo[8]

Ended(status, r) == [status |-> status, vals |-> r.vals, pos |-> r.pos]

(* EndExtensions: skip what this reader does not know.                      *)
\* The unknown extensions are not skipped.
EndExtensions_M(s, r, end) == Ended(IF r.enough THEN "ok" ELSE "short", r)
EndExtensions(s, r, end) ==
  CASE ~r.enough -> Ended("short", r)
    [] r.enough /\ r.pos > end -> Ended("over", r)
    [] r.enough /\ r.pos <= end ->
         Ended(IF end <= Len(s) THEN "ok" ELSE "short", [r EXCEPT !.pos = end])

ReadBundle(s, lay) ==
  LET first == ReadBits(s, 0, 1)
      base == ReadFields(s, Base(lay), Reading(Defaults(lay), 1, s), 0)
      exts == ReadU64(s, base.pos)
      total == ReadSizes(s, exts.v, exts.pos)
      begun == Reading(base.vals, total.pos, s)
  IN  CASE Len(s) = 0 -> Ended("short", Reading(Defaults(lay), 1, s))
        [] Len(s) > 0 /\ first = 1 -> Ended("ok", Reading(Defaults(lay), 1, s))
        [] Len(s) > 0 /\ first = 0 /\ (~base.enough \/ ~begun.enough) ->
             Ended("short", base)
        [] Len(s) > 0 /\ first = 0 /\ base.enough /\ begun.enough ->
             IF exts.v = 0 THEN Ended("ok", begun)
             ELSE EndExtensions(s, ReadFields(s, Extension(lay), begun, exts.v),
                                total.pos + total.v)

KnownTo(lay, k) == SelectSeq(lay, LAMBDA f : f.ext <= k)

-----------------------------------------------------------------------------
Init ==
  /\ layout \in Layouts
  /\ values \in ValuesOf(layout)
  /\ known \in {0} \cup {layout[i].ext : i \in DOMAIN layout}
  /\ stream = <<>> /\ sizes = None /\ cut = 0
  /\ result = None

(* Bundle::Write: sizes first, and nothing is written if some value does    *)
(* not fit its field.                                                       *)
Encodable ==
  \A f \in ToSet(layout) :
    Present(f, values.fields, values.extensions)
      => CanEncodeValue(f.coder, values.fields[f.name])

Write ==
  /\ sizes = None
  /\ \/ /\ ~Encodable
        /\ sizes' = [total |-> 0, ext |-> 0]
        /\ result' = [status |-> "refused"]
        /\ UNCHANGED stream
     \/ /\ Encodable
        /\ sizes' = CanEncode(layout, values.fields, values.extensions)
        /\ stream' = Written(layout, values.fields, values.extensions, sizes'.ext)
        /\ UNCHANGED result
  /\ UNCHANGED <<layout, known, values, cut>>

(* The stream arrives truncated.                                            *)
Truncate(n) ==
  /\ sizes # None /\ result = None
  /\ cut = 0 /\ n < Len(stream)
  /\ cut' = n
  /\ stream' = SubSeq(stream, 1, Len(stream) - n)
  /\ UNCHANGED <<layout, known, values, sizes, result>>

Read ==
  /\ sizes # None /\ result = None
  /\ result' = ReadBundle(stream, KnownTo(layout, known))
  /\ UNCHANGED <<layout, known, values, stream, sizes, cut>>

Next == Write \/ (\E n \in 1 .. MaxCut : Truncate(n)) \/ Read

-----------------------------------------------------------------------------
TypeOK ==
  /\ layout \in Layouts
  /\ \A i \in DOMAIN stream : stream[i] \in {0, 1}
  /\ result.status \in {"none", "refused", "ok", "short", "over"}

(* The F16 numbers are those of up to three significant bits; a number is   *)
(* stored as the next one towards zero.                                     *)
F16Numbers == {0} \cup {m * (2 ^ e) : m \in 4 .. 7, e \in 2 .. 7} \cup {4, 8, 12}
Stored(coder, v) ==
  IF coder.kind # "f16" THEN v
  ELSE LET below == Max({n \in F16Numbers : n <= Magnitude(v)})
       IN  IF v < 0 THEN -below ELSE below

(* What a reader of any age gets from what the writer wrote: the announced  *)
(* size is the exact one, which the allotment relies on; every field it     *)
(* knows has the writer's value, or its default if the field is absent, and *)
(* what is lost is a difference from an F16 default below the tolerance; it *)
(* ends where the bundle ends, past extensions it has never heard of; and a *)
(* stream that misses its last bits is reported as too short rather than    *)
(* read as zeros.  Apart from the field for the extensions and what is in    *)
(* them, no bundle is longer than MaxBits says (fields.cc:243-246, 305-365,  *)
(* 382-475, 832-904).                                                       *)
Recovers(f, v, got) ==
  \/ got = Stored(f.coder, v)
  \/ f.coder.kind = "f16" /\ Magnitude(v - f.default) < Tolerance /\ got = f.default

BundleRoundTrip ==
  /\ sizes # None /\ result.status # "refused" =>
       /\ Len(stream) + cut = sizes.total
       /\ values.extensions = 0 => sizes.total <= MaxBits(layout) + U64Size(0)
  /\ result.status \in {"ok", "short", "over"} =>
       IF cut > 0 THEN result.status = "short"
       ELSE /\ result.status = "ok"
            /\ result.pos = Len(stream)
            /\ \A f \in ToSet(KnownTo(layout, known)) :
                 IF Present(f, values.fields, values.extensions)
                 THEN Recovers(f, values.fields[f.name], result.vals[f.name])
                 ELSE result.vals[f.name] = f.default
=============================================================================
