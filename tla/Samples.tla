------------------------------- MODULE Samples -------------------------------
(***************************************************************************)
(* Interleaved pixels as bytes (src/lib/extras/packed_image.h,              *)
(* src/lib/jxl/enc_external_image.cc, src/lib/jxl/dec_external_image.cc).   *)
(*                                                                          *)
(* The value of a sample is abstracted to its origin, <<channel, y, x, m>>, *)
(* where m counts how often color has been multiplied by alpha.  A byte     *)
(* says of which sample it is, how that sample was scaled and which of its  *)
(* bytes it is, so that reading with another width, another scale, another  *)
(* byte order or at another place does not give a sample back.              *)
(***************************************************************************)
EXTENDS Integers, Sequences

One == <<-1, 0, 0, 0>>      \* the value 1.0, written where a channel is missing
Garbled == <<-2, 0, 0, 0>>  \* not the value of any sample

(* How samples are stored: as floats of 16 or 32 bits, or as integers that  *)
(* map 0 .. 1 to 0 .. 2^bits - 1.                                           *)
Scale(float, bits) == [float |-> float, bits |-> bits]
DivCeil(a, b) == (a + b - 1) \div b
BytesOf(bits) == DivCeil(bits, 8)

Unset == [sample |-> Garbled, scale |-> Scale(FALSE, 0), place |-> 0]

StoreSample(sample, scale, little) ==
  LET n == BytesOf(scale.bits)
  IN  [i \in 1 .. n |-> [sample |-> sample, scale |-> scale,
                         place |-> IF little THEN i - 1 ELSE n - i]]
LoadSample(bytes, scale, little) ==
  IF bytes = StoreSample(bytes[1].sample, scale, little) THEN bytes[1].sample
                                                         ELSE Garbled

(* JXL_NATIVE_ENDIAN is the byte order of the machine.                      *)
IsLittle(endianness, host_little) ==
  endianness = "little" \/ (endianness = "native" /\ host_little)

-----------------------------------------------------------------------------
(* PackedImage.                                                             *)
BitsPerChannel(data_type) ==
  CASE data_type = "uint8" -> 8 [] data_type = "uint16" -> 16
    [] data_type = "float16" -> 16 [] data_type = "float" -> 32
IsFloat(data_type) == data_type \in {"float16", "float"}

Aligned(size, align) == IF align > 1 THEN DivCeil(size, align) * align ELSE size
CalcStride(xsize, num_channels, data_type, align) ==
  Aligned(xsize * ((BitsPerChannel(data_type) * num_channels) \div 8), align)

-----------------------------------------------------------------------------
(* A plane is a function on the positions <<y, x>>.                         *)
Positions(xsize, ysize) == (0 .. ysize - 1) \X (0 .. xsize - 1)
Plane(c, xsize, ysize, m) ==
  [p \in Positions(xsize, ysize) |-> <<c, p[1], p[2], m>>]

HasAlphaChannel(channels) == channels \in {2, 4}

(* ConvertFromExternal, in the order of its checks.  The planes are those   *)
(* of the three colors, and alpha if the bundle is to have it; a bundle     *)
(* without alpha discards the one in the buffer, and one with alpha that    *)
(* the buffer lacks becomes opaque.                                         *)
FromExternal(bytes, xsize, ysize, colors, channels, scale, little, align, wants_alpha) ==
  LET width == BytesOf(scale.bits)
      last_row_size == (xsize * channels) * width
      row_size == Aligned(last_row_size, align)
      at(c, y, x) == (row_size * y) + (((x * channels) + c) * width)
      plane(c) == [p \in Positions(xsize, ysize) |->
                     LET first == at(c, p[1], p[2])
                     IN  LoadSample(SubSeq(bytes, first + 1, first + width),
                                    scale, little)]
      color(c) == IF colors = 1 THEN plane(0) ELSE plane(c)
      opaque == [p \in Positions(xsize, ysize) |-> One]
      alpha == IF HasAlphaChannel(channels) THEN plane(channels - 1) ELSE opaque
  IN  IF \/ channels < colors
         \/ xsize = 0 \/ ysize = 0
         \/ Len(bytes) < (row_size * (ysize - 1)) + last_row_size
         \/ Len(bytes) > row_size * ysize
      THEN <<>>
      ELSE <<color(0), color(1), color(2)>>
             \o (IF wants_alpha THEN <<alpha>> ELSE <<>>)
=============================================================================
