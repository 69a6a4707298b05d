------------------------------ MODULE ApngWriter ------------------------------
(***************************************************************************)
(* EncodePackedPixelFileToAPNG (src/lib/extras/enc/apng.cc): one PNG file   *)
(* out of several.  Every frame is given to a libpng object of its own; of  *)
(* what that writes the first frame stays as it is, of the others only the  *)
(* data stay, put into one chunk, with chunks of APNG in between.           *)
(*                                                                          *)
(* A file is a sequence of chunks.  libpng is external: it may spread the   *)
(* data of a picture over several chunks.  Samples are integers; a float    *)
(* sample is a multiple of one over FloatOne.                               *)
(***************************************************************************)
EXTENDS Integers, SequencesExt

CONSTANTS Pictures, \* PackedPixelFiles, see PictureShape
          FloatOne

VARIABLES given,       \* the PackedPixelFile
          count,       \* frames written
          anim_chunks, \* the next sequence number
          chunks,      \* bytes
          status       \* "writing", "done", "failed"

vars == <<given, count, anim_chunks, chunks, status>>

(* cropped frames are smaller than the picture.                             *)
PictureShape(p) ==
  /\ p.animation \in BOOLEAN /\ p.icc \in BOOLEAN
  /\ p.type \in {"uint8", "uint16", "float16", "float"}
  /\ p.bits \in 1 .. 32
  /\ {p.tps_numerator, p.tps_denominator} \subseteq Nat
  /\ p.frames # <<>>
  /\ \A f \in Range(p.frames) :
       /\ f.samples \in Seq(Nat) /\ f.duration \in Nat /\ f.cropped \in BOOLEAN

-----------------------------------------------------------------------------
(* MaybeAddCICP, with the numbers of the enumerations of color_encoding.h.  *)
D65 == 1
DciWhite == 11
P3 == 11
CustomPrimaries == 2
CicpPrimaries(c) ==
  CASE c.primaries = P3 /\ c.white_point = D65 -> 12
    [] c.primaries = P3 /\ c.white_point = DciWhite -> 11
    [] c.primaries \notin {P3, CustomPrimaries} /\ c.white_point = D65 -> c.primaries
    [] OTHER -> 0

UnknownTransfer == 2
Gamma == 65535
MaybeAddCICP(c) ==
  IF \/ c.gray \/ CicpPrimaries(c) = 0
     \/ c.transfer_function \in {UnknownTransfer, Gamma}
  THEN <<>>
  ELSE <<[k |-> "cICP", data |-> <<CicpPrimaries(c), c.transfer_function, 0, 1>>]>>

-----------------------------------------------------------------------------
BitsOf(type) == CASE type = "uint8" -> 8 [] type = "float" -> 32 [] OTHER -> 16
MaxIn(p) == IF p.type = "float" THEN FloatOne ELSE (2 ^ p.bits) - 1
MaxOut(p) == IF p.type = "uint8" THEN 255 ELSE 65535
Verified(p, f) == ~f.cropped /\ p.bits <= BitsOf(p.type)

(* A sample times mul, a float, and rounded.  Samples of 16 bits close to   *)
(* the middle between two values may go either way.                         *)
Scaled(p, v) ==
  LET below == (v * MaxOut(p)) \div MaxIn(p)
      rest == (v * MaxOut(p)) % MaxIn(p)
      off == (2 * rest) - MaxIn(p)
  IN  IF MaxIn(p) = MaxOut(p) THEN {v}
      ELSE IF MaxOut(p) = 65535 /\ 64 * off \in -MaxIn(p) .. MaxIn(p)
      THEN {below, below + 1}
      ELSE IF off < 0 THEN {below} ELSE {below + 1}

(* out, and the chunks libpng makes of it.                                  *)
Outs(p, f) ==
  {out \in [DOMAIN f.samples -> UNION {Scaled(p, f.samples[i]) : i \in DOMAIN f.samples}] :
     \A i \in DOMAIN out : out[i] \in Scaled(p, f.samples[i])}
IDAT(data) == [k |-> "IDAT", data |-> data]
WriteImage(out) ==
  {<<IDAT(out)>>} \cup {<<IDAT(SubSeq(out, 1, n)), IDAT(SubSeq(out, n + 1, Len(out)))>> :
                          n \in 1 .. Len(out) - 1}

(* Color and metadata are in the first frame's header only, and the headers *)
(* of the others are taken away again.                                      *)
WriteInfo(p) ==
  <<[k |-> "IHDR", depth |-> IF p.type = "uint8" THEN 8 ELSE 16]>>
    \o MaybeAddCICP(p.color)
    \o (IF p.icc THEN <<[k |-> "iCCP"]>> ELSE <<>>) \o <<[k |-> "zTXt"]>>

AnimationControl(p) ==
  <<[k |-> "acTL", frames |-> Len(p.frames)]>>

(* png_save_uint_16.                                                        *)
FrameControl(p, f) ==
  [k |-> "fcTL", seq |-> anim_chunks,
   delay_num |-> (f.duration * p.tps_denominator) % 65536,
   delay_den |-> p.tps_numerator % 65536]

FrameData(number, written) ==
  <<[k |-> "fdAT", seq |-> number,
     data |-> FlattenSeq([i \in DOMAIN written |-> written[i].data])]>>

Init ==
  /\ given \in Pictures /\ PictureShape(given)
  /\ count = 0 /\ anim_chunks = 0 /\ chunks = <<>> /\ status = "writing"

Refused ==
  \/ ~given.animation /\ Len(given.frames) # 1
  \/ ~Verified(given, given.frames[count + 1])
  \/ given.type = "float16"

Refuse ==
  /\ status = "writing" /\ count < Len(given.frames) /\ Refused
  /\ status' = "failed"
  /\ UNCHANGED <<given, count, anim_chunks, chunks>>

EncodeFrame ==
  /\ status = "writing" /\ count < Len(given.frames) /\ ~Refused
  /\ LET f == given.frames[count + 1]
         first == count = 0
         control == IF given.animation THEN <<FrameControl(given, f)>> ELSE <<>>
     IN  \E out \in Outs(given, f) : \E written \in WriteImage(out) :
           chunks' = chunks
             \o (IF first THEN WriteInfo(given) ELSE <<>>)
             \o (IF first /\ given.animation THEN AnimationControl(given) ELSE <<>>)
             \o control
             \o (IF first THEN written
                 ELSE FrameData(anim_chunks + Len(control), written))
             \o (IF count + 1 = Len(given.frames) THEN <<[k |-> "IEND"]>> ELSE <<>>)
  /\ anim_chunks' = anim_chunks + (IF given.animation THEN 1 ELSE 0)
                                 + (IF count = 0 THEN 0 ELSE 1)
  /\ count' = count + 1
  /\ UNCHANGED <<given, status>>

Finish ==
  /\ status = "writing" /\ count = Len(given.frames)
  /\ status' = "done"
  /\ UNCHANGED <<given, count, anim_chunks, chunks>>

Next == Refuse \/ EncodeFrame \/ Finish

Spec == Init /\ [][Next]_vars

-----------------------------------------------------------------------------
(* What the loop of DecodeImageAPNG, modelled in ApngChunks for all files,  *)
(* makes of the chunks written here: depth, and data and duration of every  *)
(* frame.                                                                   *)
Delay(c) == (c.delay_num * 1000) \div (IF c.delay_den = 0 THEN 100 ELSE c.delay_den)

ReadChunk(r, c) ==
  LET delivered == IF r.info
                   THEN Append(r.frames, [data |-> r.data, duration |-> r.duration])
                   ELSE r.frames
  IN  CASE c.k = "IHDR" -> [r EXCEPT !.depth = c.depth]
        [] c.k = "acTL" /\ ~r.info -> [r EXCEPT !.animated = TRUE]
        [] c.k = "fcTL" /\ (~r.info \/ r.animated) ->
             [r EXCEPT !.frames = delivered, !.data = <<>>, !.duration = Delay(c)]
        [] c.k = "IEND" -> [r EXCEPT !.frames = delivered]
        [] c.k = "IDAT" -> [r EXCEPT !.info = TRUE, !.data = @ \o c.data]
        [] c.k = "fdAT" /\ r.animated -> [r EXCEPT !.data = @ \o c.data]
        [] OTHER -> r

Read(file) ==
  FoldLeft(ReadChunk,
           [animated |-> FALSE, info |-> FALSE, depth |-> 0, data |-> <<>>,
            duration |-> 100, frames |-> <<>>], file)

(* A sample of the file at the depth it had before.                         *)
Restored(p, x) ==
  IF MaxIn(p) = MaxOut(p) THEN x
  ELSE ((2 * x * MaxIn(p)) + MaxOut(p)) \div (2 * MaxOut(p))

(* Primaries and white point of code points of H.273.                       *)
Meant(code) ==
  CASE code = 1 -> <<1, D65>> [] code = 9 -> <<9, D65>>
    [] code = 11 -> <<P3, DciWhite>> [] code = 12 -> <<P3, D65>>

TypeOK ==
  /\ count \in 0 .. Len(given.frames) /\ anim_chunks \in 0 .. 2 * Len(given.frames)
  /\ status \in {"writing", "done", "failed"}

(* A picture is read back frame by frame: samples at the depth they had, if *)
(* no more than 16 bits, and durations in milliseconds, unless they do not  *)
(* fit the two bytes there are.  Chunks of APNG are numbered without a gap, *)
(* and announced; a color that is announced by numbers is the one the       *)
(* picture has (apng.cc:145-360).                                           *)
AnimationReadsBack ==
  status = "done" =>
    LET read == Read(chunks)
        numbered == SelectSeq(chunks, LAMBDA c : c.k \in {"fcTL", "fdAT"})
        announced == SelectSeq(chunks, LAMBDA c : c.k = "acTL")
        cicp == SelectSeq(chunks, LAMBDA c : c.k = "cICP")
    IN  /\ read.depth = IF given.type = "uint8" THEN 8 ELSE 16
        /\ read.animated = given.animation
        /\ Len(read.frames) = Len(given.frames)
        /\ \A n \in DOMAIN given.frames :
             LET f == given.frames[n]
                 ticks == f.duration * given.tps_denominator
             IN  /\ [i \in DOMAIN read.frames[n].data |->
                        Restored(given, read.frames[n].data[i])] = f.samples
                 /\ given.animation /\ ticks < 65536 =>
                      read.frames[n].duration = (ticks * 1000) \div given.tps_numerator
        /\ \A i \in DOMAIN numbered : numbered[i].seq = i - 1
        /\ IF given.animation
           THEN Len(announced) = 1 /\ announced[1].frames = Len(given.frames)
           ELSE numbered = <<>>
        /\ cicp # <<>> =>
             LET codes == cicp[1].data
             IN  /\ ~given.color.gray
                 /\ Meant(codes[1]) = <<given.color.primaries, given.color.white_point>>
                 /\ codes[2] = given.color.transfer_function
=============================================================================
