------------------------------- MODULE Loading -------------------------------
(***************************************************************************)
(* Loading a picture (src/lib/extras): DecodeBytes tries one decoder after  *)
(* the other on one PackedPixelFile, which is not reset in between, and     *)
(* ConvertPackedPixelFileToCodecInOut turns what the first successful one   *)
(* left there into a CodecInOut, with assertions about what decoders leave. *)
(*                                                                          *)
(* A decoder is the sequence of its stages, each a set of assignments to    *)
(* fields of the PackedPixelFile.  A damaged file stops it before a stage,  *)
(* by a return or, in the JPEG decoder, by a longjmp out of libjpeg; what   *)
(* the stages before it assigned stays.  Pixels are left out; a frame is    *)
(* the number of interleaved channels, whether samples have 8 bits, and the *)
(* number of separate alpha planes.                                         *)
(***************************************************************************)
EXTENDS Integers, SequencesExt

VARIABLES file,   \* the file and the hints given with it
          pc,     \* "decode", "convert", "done", "failed", "thrown", "aborted"
          at,     \* how many decoders have been tried
          ppf,    \* the PackedPixelFile
          io      \* the CodecInOut, once there is one

vars == <<file, pc, at, ppf, io>>

DecoderOrder == <<"png", "pgx", "pnm", "gif", "jpg", "exr">>
Profiles == {"none", "gray", "rgb", "broken"}
MaxStop == 9 \* no decoder has more stages: such a file is sound

(* kind is the decoder whose signature the file bears; hint is the color    *)
(* hint of the caller, profile the ICC profile in the file, or in the file  *)
(* that an icc_pathname hint names.                                         *)
FileShape ==
  [kind : {"png", "pgx", "pnm", "gif", "jpg", "exr", "other", "tiny"},
   gray : BOOLEAN, alpha : BOOLEAN, deep : BOOLEAN, pictures : 1 .. 2,
   profile : Profiles,
   hint : {"none", "gray", "rgb", "unparsable", "icc_pathname"},
   stop : 1 .. MaxStop]

(* What the formats can express.                                            *)
Expressible(f) ==
  /\ f.kind \in {"pgx"} => f.gray /\ ~f.alpha
  /\ f.kind = "jpg" => ~f.alpha /\ ~f.deep
  /\ f.kind = "gif" => ~f.gray /\ ~f.deep
  /\ f.kind = "exr" => ~f.gray /\ f.deep
  /\ f.pictures = 2 => f.kind \in {"png", "gif"}
  /\ f.profile # "none" => f.kind \in {"png", "jpg"} \/ f.hint = "icc_pathname"
  /\ f.hint = "icc_pathname" => f.profile # "none"
  /\ f.kind \in {"other", "tiny"} =>
       f = [f EXCEPT !.gray = FALSE, !.alpha = FALSE, !.deep = FALSE,
                     !.profile = "none", !.hint = "none", !.stop = MaxStop]

Files == {f \in FileShape : Expressible(f)}

-----------------------------------------------------------------------------
Nothing == [x \in {} |-> 0]
IfThen(cond, assignments) == IF cond THEN assignments ELSE Nothing
Merged(old, new) == [x \in DOMAIN old |-> IF x \in DOMAIN new THEN new[x] ELSE old[x]]

NewFile == [bits |-> 8, exp |-> 0, alpha_bits |-> 0, alpha_exp |-> 0,
            premultiplied |-> FALSE, color_channels |-> 3, animated |-> FALSE,
            orientation |-> 1, icc |-> "none", color |-> "rgb", frames |-> <<>>]

Frame(channels, small, planes) ==
  [channels |-> channels, small |-> small, planes |-> planes]

Sets(assignments) == [set |-> assignments, ok |-> TRUE]
GrayOrRgb(gray) == IF gray THEN "gray" ELSE "rgb"
Bits(f) == IF f.deep THEN 16 ELSE 8
ColorChannels(f) == IF f.gray THEN 1 ELSE 3
Interleaved(f) == ColorChannels(f) + (IF f.alpha THEN 1 ELSE 0)

(* ApplyColorHints: a hint is applied before it is found not to fit.        *)
Hints(f, already_set, gray) ==
  CASE already_set -> Sets(Nothing)
    [] ~already_set /\ f.hint = "none" -> Sets([color |-> GrayOrRgb(gray)])
    [] ~already_set /\ f.hint = "unparsable" -> [set |-> Nothing, ok |-> FALSE]
    [] ~already_set /\ f.hint = "icc_pathname" -> Sets([icc |-> f.profile])
    [] ~already_set /\ f.hint \in {"gray", "rgb"} ->
         [set |-> [color |-> f.hint], ok |-> f.hint = GrayOrRgb(gray)]

EmbeddedProfile(f) == f.profile # "none" /\ f.hint # "icc_pathname"

(* DecodeImageAPNG: signature, IHDR, acTL, iCCP, the first IDAT, hints,     *)
(* frames.                                                                  *)
PngStages(f) ==
  << Sets([exp |-> 0, alpha_exp |-> 0, orientation |-> 1, frames |-> <<>>]),
     Sets([color |-> "rgb"]),
     Sets(IfThen(f.pictures > 1, [animated |-> TRUE])),
     Sets(IfThen(EmbeddedProfile(f), [icc |-> f.profile])),
     Sets([bits |-> Bits(f), color_channels |-> ColorChannels(f),
           alpha_bits |-> IF f.alpha THEN Bits(f) ELSE 0,
           color |-> GrayOrRgb(f.gray)]),
     Hints(f, EmbeddedProfile(f), f.gray),
     Sets([frames |-> [i \in 1 .. f.pictures |->
                         Frame(Interleaved(f), ~f.deep, 0)]]) >>

(* DecodeImagePGX: the header is complete before anything is assigned.      *)
PgxStages(f) ==
  << Sets(Nothing),
     Hints(f, FALSE, TRUE),
     Sets([bits |-> Bits(f), exp |-> 0, alpha_bits |-> 0, alpha_exp |-> 0,
           color_channels |-> 1, orientation |-> 1,
           frames |-> <<Frame(1, ~f.deep, 0)>>]) >>

(* DecodeImagePNM.                                                          *)
PnmStages(f) ==
  << Sets(Nothing),
     Hints(f, FALSE, f.gray),
     Sets([bits |-> Bits(f), exp |-> 0, orientation |-> 1,
           alpha_bits |-> IF f.alpha THEN Bits(f) ELSE 0, alpha_exp |-> 0,
           color_channels |-> ColorChannels(f),
           frames |-> <<Frame(Interleaved(f), ~f.deep, 0)>>]),
     Sets(Nothing) >>

(* DecodeImageGIF: set_pixel_alpha makes the alpha plane of a picture for   *)
(* the first of its pixels, opaque or not: it returns early only where the  *)
(* plane is there already.  So every picture has one, and alpha_bits is 8,  *)
(* in a file without transparency too; the loop at the end, which gives a   *)
(* plane to every frame, has nothing left to do.                            *)
GifStages(f) ==
  LET frame(planes) == Frame(3, TRUE, planes)
      last == f.pictures
      drawn(n) == [i \in 1 .. n |-> frame(1)]
  IN << Sets(IfThen(f.pictures > 1, [animated |-> TRUE])),
        Sets([frames |-> <<>>, bits |-> 8, exp |-> 0, alpha_bits |-> 0,
              alpha_exp |-> 0]),
        Hints(f, FALSE, FALSE),
        Sets([color_channels |-> 3]),
        Sets([frames |-> drawn(last - 1)] @@ IfThen(last > 1, [alpha_bits |-> 8])),
        Sets([frames |-> Append(drawn(last - 1), frame(0))]),
        Sets([frames |-> drawn(last)]),
        Sets([alpha_bits |-> 8]) >>

(* DecodeImageJPG: libjpeg may leave by longjmp before any of these; hints  *)
(* are ignored.                                                             *)
JpgStages(f) ==
  << Sets(Nothing),
     Sets(IF EmbeddedProfile(f) THEN [icc |-> f.profile]
          ELSE [icc |-> "none", color |-> GrayOrRgb(f.gray)]),
     Hints(f, TRUE, FALSE),
     Sets([bits |-> 8, exp |-> 0, alpha_bits |-> 0, alpha_exp |-> 0,
           color_channels |-> ColorChannels(f), orientation |-> 1]),
     Sets([frames |-> <<Frame(ColorChannels(f), TRUE, 0)>>]),
     Sets(Nothing) >>

(* DecodeImageEXR: no hints.  Only the constructor of the input file is     *)
(* guarded against exceptions, not readPixels, which is ThrowStage.         *)
ExrStages(f) ==
  << Sets([color_channels |-> 3]),
     Sets([frames |-> <<Frame(Interleaved(f), FALSE, 0)>>]),
     Sets(Nothing),
     Sets([color |-> "rgb"]),
     Sets([bits |-> 16, exp |-> 5]
            @@ IfThen(f.alpha, [alpha_bits |-> 16, alpha_exp |-> 5,
                                premultiplied |-> TRUE])) >>
ThrowStage == 3

Stages(d, f) ==
  CASE d = "png" -> PngStages(f) [] d = "pgx" -> PgxStages(f)
    [] d = "pnm" -> PnmStages(f) [] d = "gif" -> GifStages(f)
    [] d = "jpg" -> JpgStages(f) [] d = "exr" -> ExrStages(f)

(* How many stages assign: those before the damage, none after a failure.   *)
Reached(stages, stop) ==
  LET failing == {i \in DOMAIN stages : ~stages[i].ok}
  IN  Min({Len(stages), stop - 1} \cup failing)

Completes(stages, stop) ==
  Reached(stages, stop) = Len(stages) /\ \A i \in DOMAIN stages : stages[i].ok

Filled(old, stages, n) ==
  FoldLeft(LAMBDA p, stage : Merged(p, stage.set), old, SubSeq(stages, 1, n))

(* A broken chunk leaves the loop of DecodeImageAPNG, not the function: the *)
(* hints are still applied.                                                 *)
FilledAfterBreak(old, f) ==
  Merged(Filled(old, PngStages(f), f.stop - 1),
         Hints(f, EmbeddedProfile(f), f.gray).set)

-----------------------------------------------------------------------------
Init ==
  /\ file \in Files
  /\ pc = "decode" /\ at = 0
  /\ ppf = NewFile
  /\ io = Nothing

(* SetFromBytes and DecodeBytes: fewer than kMinBytes.                      *)
TooFewBytes ==
  /\ pc = "decode" /\ at = 0 /\ file.kind = "tiny"
  /\ pc' = "failed"
  /\ UNCHANGED <<file, at, ppf, io>>

(* Every decoder looks at the signature before it touches the result.       *)
\* The PNG decoder sets its defaults before it looks at the signature.
WrongSignature_M ==
  /\ pc = "decode" /\ at < Len(DecoderOrder) /\ file.kind # "tiny"
  /\ DecoderOrder[at + 1] # file.kind
  /\ at' = at + 1
  /\ ppf' = IF at = 0 THEN Merged(ppf, [bits |-> 16, alpha_bits |-> 16]) ELSE ppf
  /\ UNCHANGED <<file, pc, io>>
WrongSignature ==
  /\ pc = "decode" /\ at < Len(DecoderOrder) /\ file.kind # "tiny"
  /\ DecoderOrder[at + 1] # file.kind
  /\ at' = at + 1
  /\ UNCHANGED <<file, pc, ppf, io>>

TryDecoder ==
  /\ pc = "decode" /\ at < Len(DecoderOrder)
  /\ DecoderOrder[at + 1] = file.kind
  /\ LET stages == Stages(file.kind, file)
     IN /\ \/ ppf' = Filled(ppf, stages, Reached(stages, file.stop))
           \/ /\ file.kind = "png" /\ file.stop \in 3 .. 5
              /\ ppf' = FilledAfterBreak(ppf, file)
        /\ pc' = CASE Completes(stages, file.stop) -> "convert"
                   [] file.kind = "exr" /\ file.stop = ThrowStage -> "thrown"
                   [] OTHER -> "decode"
        /\ at' = at + 1
  /\ UNCHANGED <<file, io>>

NoDecoderLeft ==
  /\ pc = "decode" /\ at = Len(DecoderOrder)
  /\ pc' = "failed"
  /\ UNCHANGED <<file, at, ppf, io>>

-----------------------------------------------------------------------------
IsGray == ppf.color_channels = 1
HasAlpha == ppf.alpha_bits # 0

(* The color encoding: an ICC profile that cannot be set is replaced by     *)
(* sRGB, one for the other kind of picture is refused.                      *)
Encoding ==
  IF ppf.icc \in {"none", "broken"}
  THEN IF ppf.icc = "none" THEN ppf.color ELSE GrayOrRgb(IsGray)
  ELSE ppf.icc
\* A profile for the other kind of picture is taken.
EncodingRefused_M == FALSE
EncodingRefused == ppf.icc \in {"gray", "rgb"} /\ (Encoding = "gray") # IsGray

(* What the converter asserts of the file and of each frame.                *)
FileAsserts ==
  /\ ppf.frames # <<>>
  /\ HasAlpha => ppf.alpha_bits = ppf.bits /\ ppf.alpha_exp = ppf.exp
  /\ ppf.color_channels \in {1, 3}
  /\ ppf.orientation \in 1 .. 8
  /\ Len(ppf.frames) = 1 \/ ppf.animated
  /\ ppf.bits # 0
FrameAsserts(frame) ==
  /\ frame.channels \in 1 .. 4
  /\ (Encoding = "gray") = (frame.channels <= 2)

(* ConvertPackedFrameToImageBundle: interleaved alpha is taken if the file  *)
(* announces alpha, made opaque if it is missing, and replaced by the first *)
(* separate plane.                                                          *)
AlphaOf(frame) ==
  CASE ~HasAlpha -> "none"
    [] HasAlpha /\ (frame.planes > 0 \/ frame.channels \in {2, 4}) -> "file"
    [] HasAlpha /\ frame.planes = 0 /\ frame.channels \in {1, 3} -> "opaque"

(* Samples are scaled by the bits of the file unless they are floats.       *)
Bundle(frame) ==
  [alpha |-> AlphaOf(frame), depth |-> IF ppf.exp # 0 THEN 16 ELSE ppf.bits,
   small |-> frame.small]

Convert ==
  /\ pc = "convert"
  /\ \/ /\ ~FileAsserts \/ (~EncodingRefused /\ \E i \in DOMAIN ppf.frames :
                                                  ~FrameAsserts(ppf.frames[i]))
        /\ pc' = "aborted"
        /\ UNCHANGED io
     \/ /\ FileAsserts /\ EncodingRefused
        /\ pc' = "failed"
        /\ UNCHANGED io
     \/ /\ FileAsserts /\ ~EncodingRefused
        /\ \A i \in DOMAIN ppf.frames : FrameAsserts(ppf.frames[i])
        /\ pc' = "done"
        /\ io' = [encoding |-> Encoding, alpha |-> HasAlpha,
                  premultiplied |-> ppf.premultiplied, bits |-> ppf.bits,
                  animated |-> ppf.animated,
                  frames |-> [i \in DOMAIN ppf.frames |-> Bundle(ppf.frames[i])]]
  /\ UNCHANGED <<file, at, ppf>>

Next == TooFewBytes \/ WrongSignature \/ TryDecoder \/ NoDecoderLeft \/ Convert

-----------------------------------------------------------------------------
TypeOK ==
  /\ file \in Files
  /\ pc \in {"decode", "convert", "done", "failed", "thrown", "aborted"}
  /\ at \in 0 .. Len(DecoderOrder)
  /\ DOMAIN ppf = DOMAIN NewFile

(* What is loaded is what the file says, whoever tried to read it before:   *)
(* all fields come from the one decoder whose signature the file bears, or  *)
(* are the defaults of a fresh PackedPixelFile; every frame has the alpha   *)
(* of the file, which a GIF always has once it is decoded, and samples are  *)
(* scaled by the depth they were stored with; a damaged file is never       *)
(* loaded (decode.cc:78-125, gif.cc:242-250, packed_image_convert.cc:23-218, *)
(* jpg.cc:150).                                                             *)
WithAlpha(f) == f.alpha \/ f.kind = "gif"
LoadedIsTheFile ==
  pc = "done" =>
    /\ file.stop > Len(Stages(file.kind, file))
    /\ ppf = Filled(NewFile, Stages(file.kind, file),
                    Len(Stages(file.kind, file)))
    /\ io.encoding = GrayOrRgb(file.gray)
    /\ io.alpha = WithAlpha(file)
    /\ io.premultiplied = (file.kind = "exr" /\ file.alpha)
    /\ io.animated = (file.pictures > 1)
    /\ Len(io.frames) = file.pictures
    /\ \A i \in DOMAIN io.frames :
         /\ io.frames[i].alpha = IF WithAlpha(file) THEN "file" ELSE "none"
         /\ io.frames[i].depth = Bits(file)
         /\ io.frames[i].small = (~file.deep)

(* No file and no hint makes the converter fail one of its assertions,      *)
(* which end the process: what it relies on is what every decoder leaves    *)
(* (packed_image_convert.cc:27-103, 212).                                   *)
ConverterNeverAborts == pc # "aborted"
=============================================================================
