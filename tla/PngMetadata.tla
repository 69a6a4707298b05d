----------------------------- MODULE PngMetadata -----------------------------
(***************************************************************************)
(* Metadata in the text chunks of a PNG (src/lib/extras): the encoder       *)
(* resets the orientation of an Exif blob and writes the blob as a text of  *)
(* hexadecimal lines (enc/apng.cc, exif.cc); the decoder parses that text   *)
(* (dec/apng.cc).  The text is about characters, so here they are.          *)
(***************************************************************************)
EXTENDS Integers, SequencesExt

VARIABLES blob,     \* what is written, and how its text is laid out
          phase,    \* "write", "read", "done"
          text,     \* the value of the text chunk
          metadata  \* what the decoder got: bytes, or <<>>

vars == <<blob, phase, text, metadata>>

(* Exif is a TIFF header, `gap` bytes, a directory of `tags` entries of     *)
(* which number `at` is the orientation (none if 0), and an offset of four. *)
(* pad is how wide the number of bytes is printed, 8 in this encoder.       *)
BlobShape == [type : {"exif", "xmp"}, big : BOOLEAN, gap : {0, 5}, tags : 1 .. 3, at : 0 .. 3,
              orientation : 1 .. 8, pad : {1, 8}, valid : BOOLEAN]

Blobs == {b \in BlobShape : b.at <= b.tags}

MaxDigits == 8
BytesPerLine == 36
DivCeil(a, b) == (a + b - 1) \div b

-----------------------------------------------------------------------------
(* TIFF numbers in either byte order.                                       *)
Store16(n, big) == IF big THEN <<n \div 256, n % 256>> ELSE <<n % 256, n \div 256>>
Store32(n, big) == IF big THEN <<0, 0>> \o Store16(n, big) ELSE Store16(n, big) \o <<0, 0>>
Load16(s, t, big) == IF big THEN (s[t] * 256) + s[t + 1] ELSE s[t] + (s[t + 1] * 256)
Load32(s, t, big) ==
  IF big THEN (Load16(s, t, big) * 65536) + Load16(s, t + 2, big)
         ELSE Load16(s, t, big) + (Load16(s, t + 2, big) * 65536)

OrientationTag == 274
OtherTag == 271
Entry(tag, value, big) ==
  Store16(tag, big) \o Store16(3, big) \o Store32(1, big) \o Store16(value, big) \o <<0, 0>>

Tiff(b, orientation) ==
  (IF b.big THEN <<77, 77, 0, 42>> ELSE <<73, 73, 42, 0>>)
    \o Store32(8 + b.gap, b.big) \o [i \in 1 .. b.gap |-> 1] \o Store16(b.tags, b.big)
    \o FlattenSeq([i \in 1 .. b.tags |->
         IF i = b.at THEN Entry(OrientationTag, orientation, b.big)
                     ELSE Entry(OtherTag, 500 + i, b.big)])
    \o <<0, 0, 0, 0>>

Bytes(b) == IF b.valid THEN Tiff(b, b.orientation)
            ELSE [i \in 1 .. BytesPerLine |-> 16 * (i % 16)]

(* ResetExifOrientation: t, counted from 0, is where the code's pointer is. *)
ByteOrder(s) == CASE SubSeq(s, 1, 4) = <<77, 77, 0, 42>> -> "big"
                  [] SubSeq(s, 1, 4) = <<73, 73, 42, 0>> -> "little"
                  [] OTHER -> "none"

\* The directory is taken to start a tag later.
FirstTag_M(offset) == offset + 14
FirstTag(offset) == offset + 2

ResetExifOrientation(s) ==
  LET big == ByteOrder(s) = "big"
      offset == Load32(s, 5, big)
      tags == Load16(s, offset + 1, big)
      t(i) == FirstTag(offset) + (12 * i)
      tag(i) == Load16(s, t(i) + 1, big)
      reached == {i \in 0 .. tags - 1 :
                    \A k \in 0 .. i : /\ t(k) + 12 < Len(s)
                                      /\ k < i => tag(k) # OrientationTag}
      found == {i \in reached : tag(i) = OrientationTag}
      one == Store16(1, big)
  IN  IF Len(s) < 12 \/ ByteOrder(s) = "none" THEN s
      ELSE IF Len(s) < 12 + offset + 2 \/ offset < 8 \/ found = {} THEN s
      ELSE LET i == Min(found)
               v == t(i) + 9
           IN  IF Load16(s, t(i) + 3, big) = 3 /\ Load32(s, t(i) + 5, big) = 1
               THEN [s EXCEPT ![v] = one[1], ![v + 1] = one[2]]
               ELSE s

-----------------------------------------------------------------------------
Digits == <<"0", "1", "2", "3", "4", "5", "6", "7", "8", "9",
            "a", "b", "c", "d", "e", "f">>
Nibble(n) == Digits[n + 1]
IsDecimal(c) == \E n \in 0 .. 9 : c = Nibble(n)
ValueOf(c) == CHOOSE n \in 0 .. 15 : c = Nibble(n)

Decimal(n, width) ==
  LET digits == IF n < 10 THEN <<Nibble(n)>>
                ELSE <<Nibble(n \div 10), Nibble(n % 10)>>
  IN  [i \in 1 .. Max({0, width - Len(digits)}) |-> " "] \o digits

(* EncodeBase16: a description, the size, and a line break before every     *)
(* line of 36 bytes and at the end.                                         *)
EncodeBase16(type, bytes, width) ==
  <<"\n", type, "\n">> \o Decimal(Len(bytes), width)
    \o FlattenSeq([i \in DOMAIN bytes |->
         (IF (i - 1) % BytesPerLine = 0 THEN <<"\n">> ELSE <<>>)
           \o <<Nibble(bytes[i] \div 16), Nibble(bytes[i] % 16)>>])
    \o <<"\n">>

(* MaybeDecodeBase16, <<>> if the text is refused.                          *)
NumberEnd(s, p) == Min({q \in p .. Len(s) + 1 :
                          q > Len(s) \/ ~IsDecimal(s[q])})
DecimalValue(s, p, q) ==
  FoldLeft(LAMBDA v, c : (10 * v) + ValueOf(c), 0, SubSeq(s, p, q - 1))

MaybeDecodeBase16(s) ==
  LET breaks == {i \in 2 .. Len(s) : s[i] = "\n"}
      p == Min(breaks) + 1
      q == NumberEnd(s, p)
      n == DecimalValue(s, p, q)
      line(i) == i \div BytesPerLine
      first(i) == q + (2 * i) + line(i) + 1
      hex(i) == /\ \E v \in 0 .. 15 : s[first(i)] = Nibble(v)
                /\ \E v \in 0 .. 15 : s[first(i) + 1] = Nibble(v)
      bytes == [i \in 1 .. n |-> (16 * ValueOf(s[first(i - 1)]))
                                   + ValueOf(s[first(i - 1) + 1])]
  IN  IF s[1] # "\n" \/ breaks = {} THEN <<>>
      ELSE IF q = p \/ q - p > MaxDigits THEN <<>>
      ELSE IF (2 * n) + 1 + DivCeil(n, BytesPerLine) # Len(s) - q + 1 THEN <<>>
      ELSE IF \/ \E i \in 0 .. n - 1 :
                   \/ i % BytesPerLine = 0 /\ s[first(i) - 1] # "\n"
                   \/ ~hex(i)
              \/ s[Len(s)] # "\n"
           THEN <<>> ELSE bytes

-----------------------------------------------------------------------------
Init ==
  /\ blob \in Blobs
  /\ phase = "write"
  /\ text = <<>>
  /\ metadata = <<>>

(* BlobsWriterPNG::Encode.                                                  *)
Write ==
  /\ phase = "write"
  /\ phase' = "read"
  /\ text' = EncodeBase16(blob.type,
               IF blob.type = "exif" THEN ResetExifOrientation(Bytes(blob))
                                     ELSE Bytes(blob),
               blob.pad)
  /\ UNCHANGED <<blob, metadata>>

(* BlobsReaderPNG::Decode.                                                  *)
Read ==
  /\ phase = "read"
  /\ phase' = "done"
  /\ metadata' = MaybeDecodeBase16(text)
  /\ UNCHANGED <<blob, text>>

Next == Write \/ Read

-----------------------------------------------------------------------------
(* The blob as it should arrive: an Exif orientation has become the         *)
(* identity, and nothing else has changed.                                  *)
Arriving(b) ==
  IF b.type = "exif" /\ b.valid THEN Tiff(b, 1) ELSE Bytes(b)

(* A text whose number of bytes is not padded is accepted, whatever its     *)
(* lines; what is accepted is the blob that was written, with its           *)
(* orientation reset and no other byte touched, in either byte order and    *)
(* wherever the tag is (exif.cc:14-53, dec/apng.cc:203-264).                *)
MetadataExact ==
  phase = "done" =>
    /\ blob.pad = 1 => metadata = Arriving(blob)
    /\ metadata \in {<<>>, Arriving(blob)}

(* "Encode/Decode again to make sure Encode carries through all metadata"   *)
(* (codec_test.cc:304); "Expected format is: ... 40\n (the number of bytes  *)
(* after hex-decoding)", with spaces before the 40 (dec/apng.cc:215-218).   *)
MetadataReadsBack == phase = "done" => metadata = Arriving(blob)
=============================================================================
