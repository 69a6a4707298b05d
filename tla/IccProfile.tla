------------------------------- MODULE IccProfile -------------------------------
(***************************************************************************)
(* The ICC profile made from the fields of a color encoding                 *)
(* (src/lib/jxl/color_management.cc): a header of 128 bytes, a table of     *)
(* tags and the data of the tags, one after another.  Table and data are    *)
(* built together, in separate buffers, and where a tag is in the file is   *)
(* known only when all are there.                                           *)
(*                                                                          *)
(* A byte is the name of what it belongs to; numbers that are patched in    *)
(* later, and those that say where something is, are kept as numbers.       *)
(***************************************************************************)
EXTENDS Integers, SequencesExt

CONSTANTS TextLengths,    \* lengths of a description
          CopyrightLength,
          CurveEntries    \* entries of a table curve, 4096 in the code

VARIABLES gray, curve, text,        \* the encoding
          header, tagtable, tags,   \* the three buffers
          offsets,                  \* where each entry's data begins in tags
          tag_offset, tag_size,     \* the tag finalized last
          todo,                     \* tags still to make
          icc                       \* the profile, once its status is "made"

vars == <<gray, curve, text, header, tagtable, tags, offsets, tag_offset,
          tag_size, todo, icc>>

Assumptions ==
  TextLengths \subseteq Nat /\ CopyrightLength \in Nat /\ CurveEntries \in Nat

Bytes(n, mark) == [i \in 1 .. n |-> mark]

(* WriteICCUint32, WriteICCUint16, WriteICCTag and memcpy at a position: a  *)
(* buffer grows to hold what is written past its end.                       *)
Write(bytes, pos, n, mark) ==
  [i \in 1 .. (IF Len(bytes) < pos + n THEN pos + n ELSE Len(bytes)) |->
     IF i \in pos + 1 .. pos + n THEN mark
     ELSE IF i <= Len(bytes) THEN bytes[i] ELSE "zero"]

-----------------------------------------------------------------------------
(* CreateICCHeader: what is written where, with how many bytes.             *)
HeaderFields ==
  <<<<0, 4, "size">>, <<4, 4, "cmm">>, <<8, 4, "version">>, <<12, 4, "class">>,
    <<16, 4, "space">>, <<20, 4, "pcs">>, <<24, 2, "date">>, <<26, 2, "date">>,
    <<28, 2, "date">>, <<30, 2, "date">>, <<32, 2, "date">>, <<34, 2, "date">>,
    <<36, 4, "acsp">>, <<40, 4, "platform">>, <<44, 4, "flags">>, <<48, 4, "maker">>,
    <<52, 4, "model">>, <<56, 8, "attributes">>, <<64, 4, "intent">>,
    <<68, 12, "illuminant">>, <<80, 4, "creator">>>>
CreateICCHeader ==
  LET written[k \in 0 .. Len(HeaderFields)] ==
        IF k = 0 THEN Bytes(128, "zero")
        ELSE Write(written[k - 1], HeaderFields[k][1], HeaderFields[k][2], HeaderFields[k][3])
  IN  written[Len(HeaderFields)]

(* The Create...Tag functions, by the bytes they append: signature, four    *)
(* zeros and the value.                                                     *)
MlucSize(length) == 28 + (2 * length)
XYZSize == 8 + (3 * 4)
ChadSize == 8 + (9 * 4)
ParaSize == 12 + (5 * 4)
CurvSize(n) == 12 + (2 * n)

Tag(names, size) == [names |-> names, size |-> size]
(* MaybeCreateProfile's tags in their order; the three curves of a color    *)
(* profile are one.                                                         *)
Tags(isGray, c, length) ==
  LET curveSize == IF c = "Table" THEN CurvSize(CurveEntries) ELSE ParaSize
  IN  <<Tag(<<"desc">>, MlucSize(length)), Tag(<<"cprt">>, MlucSize(CopyrightLength)),
        Tag(<<"wtpt">>, XYZSize)>>
        \o IF isGray THEN <<Tag(<<"kTRC">>, curveSize)>>
           ELSE <<Tag(<<"chad">>, ChadSize), Tag(<<"rXYZ">>, XYZSize),
                  Tag(<<"gXYZ">>, XYZSize), Tag(<<"bXYZ">>, XYZSize),
                  Tag(<<"rTRC", "gTRC", "bTRC">>, curveSize)>>

(* FinalizeICCTag.                                                          *)
Padded(bytes) == bytes \o Bytes((4 - (Len(bytes) % 4)) % 4, "pad")
\* The padding of the tag before is not counted.
TagOffset_M(offset, size) == offset + size - (size % 4)
TagOffset(offset, size) == offset + size

(* AddToICCTagTable: name, offset to be filled in, size; the entry is kept  *)
(* as a record, 12 bytes long.                                              *)
Entry(name, size) == [name |-> name, offset |-> 0, size |-> size]
TableSize(n) == 4 + (12 * n)

(* ICCComputeMD5 hashes a copy, lengthened so that the blocks come out even.*)
HashedLength(size) ==
  LET n == size + 1
  IN  n + ((64 - ((n + 8) % 64)) % 64) + 8

-----------------------------------------------------------------------------
Init ==
  /\ gray \in BOOLEAN /\ curve \in {"Parametric", "Table"} /\ text \in TextLengths
  /\ header = CreateICCHeader
  /\ tagtable = <<>> /\ tags = <<>> /\ offsets = <<>>
  /\ tag_offset = 0 /\ tag_size = 0
  /\ todo = Tags(gray, curve, text)
  /\ icc = [status |-> "none"]

AddTag ==
  /\ icc.status = "none" /\ todo # <<>>
  /\ LET t == Head(todo)
     IN  /\ tags' = Padded(tags \o Bytes(t.size, t.names[1]))
         /\ tag_offset' = TagOffset(tag_offset, tag_size)
         /\ tag_size' = Len(tags') - tag_offset'
         /\ tagtable' = tagtable \o [k \in DOMAIN t.names |-> Entry(t.names[k], tag_size')]
         /\ offsets' = offsets \o [k \in DOMAIN t.names |-> tag_offset']
  /\ todo' = Tail(todo)
  /\ UNCHANGED <<gray, curve, text, header, icc>>

\* A number that does not fit 15 bits: nothing is returned.
NumberOutOfRange ==
  /\ icc.status = "none" /\ todo # <<>>
  /\ Head(todo).names[1] \in IF gray THEN {"wtpt"} ELSE {"chad", "rXYZ", "gXYZ", "bXYZ"}
  /\ icc' = [status |-> "failed"]
  /\ UNCHANGED <<gray, curve, text, header, tagtable, tags, offsets, tag_offset,
                 tag_size, todo>>

(* The offsets and the sizes are patched in, the three buffers joined, and  *)
(* the checksum is put into the header.                                     *)
Joined ==
  LET before == Len(header) + TableSize(Len(offsets))
  IN  [status |-> "made", count |-> Len(offsets),
       entries |-> [k \in DOMAIN tagtable |->
                      [tagtable[k] EXCEPT !.offset = offsets[k] + before]],
       size |-> before + Len(tags), hashed |-> HashedLength(before + Len(tags)),
       bytes |-> Write(header, 84, 16, "checksum")
                   \o Bytes(TableSize(Len(offsets)), "table") \o tags]
Assemble ==
  /\ icc.status = "none" /\ todo = <<>>
  /\ icc' = Joined
  /\ UNCHANGED <<gray, curve, text, header, tagtable, tags, offsets, tag_offset,
                 tag_size, todo>>

Next == AddTag \/ NumberOutOfRange \/ Assemble

-----------------------------------------------------------------------------
(* Whoever parses a profile finds every tag where the table says it is:     *)
(* each entry locates exactly the bytes made for it with their padding, on  *)
(* a multiple of four and after the table; together the tags fill the file  *)
(* up to the size in its header; no field of the header is overwritten by   *)
(* another, or by the checksum; and the hashed copy is a whole number of    *)
(* blocks (color_management.cc:102-110, 236-298, 384-513).                  *)
Belongs(byte, name) ==
  \/ byte \in {name, "pad"}
  \/ byte = "rTRC" /\ name \in {"gTRC", "bTRC"}
Located(e) ==
  /\ e.offset % 4 = 0 /\ e.offset >= 128 + TableSize(icc.count)
  /\ e.offset + e.size <= Len(icc.bytes)
  /\ \A i \in e.offset + 1 .. e.offset + e.size : Belongs(icc.bytes[i], e.name)
  /\ icc.bytes[e.offset + 1] # "pad"
Data(name) == {i \in DOMAIN icc.bytes : icc.bytes[i] = name}
HeaderIntact ==
  /\ Len(header) = 128
  /\ \A k \in DOMAIN HeaderFields :
       LET f == HeaderFields[k]
       IN  \A i \in f[1] + 1 .. f[1] + f[2] : icc.bytes[i] = f[3]
  /\ \A i \in 101 .. 128 : icc.bytes[i] = "zero"
TagsLocated ==
  icc.status = "made" =>
    /\ icc.size = Len(icc.bytes) /\ icc.count = Len(icc.entries)
    /\ \A k \in DOMAIN icc.entries : Located(icc.entries[k])
    /\ \A t \in ToSet(Tags(gray, curve, text)) :
         /\ Cardinality(Data(t.names[1])) = t.size
         /\ \E k \in DOMAIN icc.entries : icc.entries[k].name = t.names[1]
    /\ HeaderIntact
    /\ icc.hashed % 64 = 0 /\ icc.hashed - icc.size \in 9 .. 72
=============================================================================
