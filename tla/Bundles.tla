-------------------------------- MODULE Bundles --------------------------------
(***************************************************************************)
(* Frames as bundles of planes (lib/jxl/image_bundle.{h,cc}) held together  *)
(* by a CodecInOut (codec_in_out.h).  Which plane is which is said once, by *)
(* the metadata all frames point to, and every frame keeps its planes in a  *)
(* vector of its own: ConvertPackedFrameToImageBundle                       *)
(* (extras/packed_image_convert.cc) fills both, several operations change   *)
(* one of them, and nothing ties them together but assertions.              *)
(*                                                                          *)
(* A plane is its width, the width it was allocated with and what it shows; *)
(* a color image is widths and how often it was multiplied by alpha.        *)
(***************************************************************************)
EXTENDS Integers, Sequences, SequencesExt

CONSTANTS Pictures,   \* what decoders deliver (below)
          Widths,     \* to shrink to
          MaxOps      \* bound on the operations after loading

(* A picture: does it have alpha_bits, interleaved with the color or not;   *)
(* is it premultiplied; the extra channels it announces; its preview and    *)
(* frames with width, duration and the planes that come with them.          *)

VARIABLES packed,     \* the PackedPixelFile
          infos,      \* extra_channel_info: type and alpha_associated
          preview, frames,
          xsize,      \* of the CodecInOut
          scored,     \* the copy the metric works on
          ops,
          status      \* "loading", "loaded", "aborted" or "undefined"

vars == <<packed, infos, preview, frames, xsize, scored, ops, status>>

Plane(width, shows) == [width |-> width, room |-> width, shows |-> shows]
None == Plane(0, "nothing")
Color(width, multiplied) == [width |-> width, room |-> width, multiplied |-> multiplied]
NoColor == Color(0, 0)
NoBundle == [color |-> NoColor, planes |-> <<>>, duration |-> 0]

-----------------------------------------------------------------------------
(* Find: the first channel of a type, or 0.                                 *)
Find(channels, type) ==
  LET at == {i \in DOMAIN channels : channels[i].type = type}
  IN  IF at = {} THEN 0 ELSE Min(at)
HasAlpha == Find(infos, "alpha") # 0

HasColor(b) == b.color.width # 0
Width(b) ==
  CASE HasColor(b) -> b.color.width
    [] ~HasColor(b) /\ b.planes # <<>> -> b.planes[1].width
    [] ~HasColor(b) /\ b.planes = <<>> -> 0

(* VerifySizes, after every Set: a bundle that fails it ends the process.   *)
SizesAgree(b) ==
  b.planes # <<>> =>
    Width(b) # 0 /\ \A i \in DOMAIN b.planes : b.planes[i].width = Width(b)

(* SetFromImage, for a color image that is not empty.                       *)
SetFromImage(b, color) == [b EXCEPT !.color = color]

(* SetAlpha takes the index from the metadata, and inserts the plane where  *)
(* planes are missing; past the end of the vector that is undefined.        *)
CanInsert(b, channels) == Find(channels, "alpha") - 1 <= Len(b.planes)
SetAlpha(b, plane, channels) ==
  LET at == Find(channels, "alpha")
  IN  IF Len(b.planes) < Len(channels)
      THEN [b EXCEPT !.planes = InsertAt(@, at, plane)]
      ELSE [b EXCEPT !.planes[at] = plane]

-----------------------------------------------------------------------------
(* SetAlphaBits for a new image, then the channels the picture announces.   *)
Announced(p) ==
  (IF p.alpha_bits
   THEN <<[type |-> "alpha", associated |-> p.premultiplied]>> ELSE <<>>)
    \o p.announced

(* ConvertPackedFrameToImageBundle: the color, the alpha that comes with it *)
(* or an opaque one, then the frame's planes from the first place on.       *)
WithColor(f, p) ==
  SetFromImage([NoBundle EXCEPT !.duration = IF p.animated THEN f.duration ELSE 0],
               Color(f.width, IF p.premultiplied THEN 1 ELSE 0))
WithAlpha(b, f, p, channels) ==
  IF Find(channels, "alpha") = 0 \/ ~CanInsert(b, channels) THEN b
  ELSE SetAlpha(b, Plane(f.width, IF p.interleaved THEN "alpha" ELSE "opaque"), channels)
Bundle(f, p, channels) ==
  LET b == WithAlpha(WithColor(f, p), f, p, channels)
  IN  [b EXCEPT !.planes =
         [i \in 1 .. Len(channels) |->
            CASE i \in DOMAIN f.planes -> Plane(f.width, f.planes[i])
              [] i \notin DOMAIN f.planes /\ i \in DOMAIN b.planes -> b.planes[i]
              [] OTHER -> None]]

(* SetAlpha checks that picture and channel agree about premultiplication.  *)
AssociationAgrees(p, channels) ==
  LET at == Find(channels, "alpha")
  IN  at # 0 => channels[at].associated = p.premultiplied

(* CheckMetadata looks only at the alpha of each bundle.                    *)
MetadataHolds(b, channels) ==
  LET at == Find(channels, "alpha")
  IN  at # 0 /\ Width(b) # 0 => at \in DOMAIN b.planes /\ b.planes[at].width # 0

Init ==
  /\ packed \in Pictures
  /\ infos = <<>> /\ preview = NoBundle /\ frames = <<NoBundle>>
  /\ xsize = 0 /\ scored = NoBundle
  /\ ops = 0 /\ status = "loading"

Load ==
  /\ status = "loading"
  /\ infos' = Announced(packed)
  /\ preview' = IF packed.preview = <<>> THEN NoBundle
                ELSE Bundle(packed.preview[1], packed, infos')
  /\ frames' = [i \in DOMAIN packed.frames |-> Bundle(packed.frames[i], packed, infos')]
  /\ xsize' = packed.width
  /\ status' = CASE ~CanInsert(NoBundle, infos') -> "undefined"
                 [] /\ CanInsert(NoBundle, infos') /\ AssociationAgrees(packed, infos')
                    /\ MetadataHolds(preview', infos')
                    /\ \A i \in DOMAIN frames' : MetadataHolds(frames'[i], infos') -> "loaded"
                 [] OTHER -> "aborted"
  /\ UNCHANGED <<packed, scored, ops>>

-----------------------------------------------------------------------------
(* LastStillFrame, which Main is: the first frame that lasts, else the last.*)
LastStillFrame ==
  Min({i \in DOMAIN frames : frames[i].duration > 0} \cup {Len(frames)})

Operate ==
  /\ status = "loaded" /\ ops < MaxOps
  /\ ops' = ops + 1
  /\ UNCHANGED packed

(* PremultiplyAlpha (by 1) and UnpremultiplyAlpha (by -1) on color and      *)
(* alpha of one bundle; their sizes must agree.                             *)
AlphaFits(b) == HasColor(b) => b.planes[Find(infos, "alpha")].width = b.color.width
Multiply(b, by) ==
  IF HasColor(b) THEN [b EXCEPT !.color.multiplied = @ + by] ELSE b

Associate(by) ==
  /\ Operate
  /\ IF HasAlpha /\ infos[Find(infos, "alpha")].associated = (by < 0)
     THEN IF AlphaFits(preview) /\ \A i \in DOMAIN frames : AlphaFits(frames[i])
          THEN /\ preview' = Multiply(preview, by)
               /\ frames' = [i \in DOMAIN frames |-> Multiply(frames[i], by)]
               /\ infos' = [infos EXCEPT ![Find(infos, "alpha")].associated = (by > 0)]
               /\ UNCHANGED status
          ELSE status' = "aborted" /\ UNCHANGED <<infos, preview, frames>>
     ELSE UNCHANGED <<infos, preview, frames, status>>
  /\ UNCHANGED <<xsize, scored>>

(* CodecInOut::ShrinkTo: every plane of every frame, none of the preview;   *)
(* no plane can be larger than it was allocated.                            *)
Shrinks(b, width) ==
  /\ HasColor(b) => width <= b.color.room
  /\ \A i \in DOMAIN b.planes : width <= b.planes[i].room
Shrunk(b, width) ==
  [b EXCEPT !.color.width = IF HasColor(b) THEN width ELSE 0,
            !.planes = [i \in DOMAIN @ |-> [@[i] EXCEPT !.width = width]]]
ShrinkTo(width) ==
  /\ Operate
  /\ IF \A i \in DOMAIN frames : Shrinks(frames[i], width)
     THEN /\ frames' = [i \in DOMAIN frames |-> Shrunk(frames[i], width)]
          /\ xsize' = width
          /\ UNCHANGED status
     ELSE status' = "aborted" /\ UNCHANGED <<frames, xsize>>
  /\ UNCHANGED <<infos, preview, scored>>

(* The metric copies the main frame without its extra channels, and then    *)
(* halves the color again and again with SetFromImage.                      *)
Copied == [frames[LastStillFrame] EXCEPT !.planes = <<>>]
Compare ==
  /\ Operate
  /\ scored' = Copied
  /\ UNCHANGED <<infos, preview, frames, xsize, status>>
Downsample ==
  /\ Operate /\ scored.color.width > 1
  /\ LET width == (scored.color.width + 1) \div 2
         half == SetFromImage(scored, Color(width, scored.color.multiplied))
     IN  IF SizesAgree(half) THEN scored' = half /\ UNCHANGED status
         ELSE status' = "aborted" /\ UNCHANGED scored
  /\ UNCHANGED <<infos, preview, frames, xsize>>

(* ConvertCodecInOutToPackedPixelFile.  For another encoding, or for CMYK,  *)
(* TransformIfNeeded copies the bundle, SetExtraChannels its planes; at the *)
(* end a frame may have no plane but alpha.                                 *)
Stored(b) ==
  /\ \A i \in DOMAIN b.planes : b.planes[i].width # 0
  /\ SizesAgree(b)
Exported(b, same) ==
  /\ (same /\ Find(infos, "black") = 0) \/ Stored(b)
  /\ Len(b.planes) <= IF HasAlpha THEN 1 ELSE 0
Export(same) ==
  /\ Operate
  /\ status' = IF \A i \in DOMAIN frames : Exported(frames[i], same)
               THEN status ELSE "aborted"
  /\ UNCHANGED <<infos, preview, frames, xsize, scored>>

Next ==
  \/ Load
  \/ \E by \in {1, -1} : Associate(by)
  \/ \E width \in Widths : ShrinkTo(width)
  \/ Compare \/ Downsample
  \/ \E same \in BOOLEAN : Export(same)

Spec == Init /\ [][Next]_vars

-----------------------------------------------------------------------------
TypeOK ==
  /\ packed \in Pictures
  /\ \A i \in DOMAIN infos : infos[i].associated \in BOOLEAN
  /\ status \in {"loading", "loaded", "aborted", "undefined"}
  /\ ops \in 0 .. MaxOps

(* The planes of a frame take the first places, also those of interleaved   *)
(* alpha; a preview has none for the channels that are announced; and alpha *)
(* that is announced after another channel has no place to go.              *)
Misplaced ==
  /\ packed.announced # <<>>
  /\ \/ packed.alpha_bits /\ packed.interleaved
     \/ packed.preview # <<>>
     \/ Find(packed.announced, "alpha") > 1

(* What the accessors find by the metadata is the plane they name, as large *)
(* as the color; the color of every frame and of the preview is multiplied  *)
(* by alpha exactly if the metadata says so, after any number of changes;   *)
(* the canvas is as large as its frames are made; and no assertion ends the *)
(* process except to make a frame larger than it was, and to export planes  *)
(* besides alpha (image_bundle.cc:22-129, codec_in_out.h:77-174,            *)
(* packed_image_convert.cc:59-74).                                          *)
BundlesSound ==
  LET bundles == {frames[i] : i \in DOMAIN frames}
                   \cup (IF packed.preview = <<>> THEN {} ELSE {preview})
  IN  ~Misplaced =>
        /\ status = "loaded" =>
             /\ \A b \in bundles :
                  /\ SizesAgree(b)
                  /\ [i \in DOMAIN b.planes |-> b.planes[i].shows]
                       = [i \in DOMAIN infos |-> infos[i].type]
                  /\ b.color.multiplied =
                       IF HasAlpha /\ infos[Find(infos, "alpha")].associated THEN 1 ELSE 0
             /\ \A i \in DOMAIN frames : Width(frames[i]) <= xsize
        /\ status # "undefined"
        /\ status = "aborted" =>
             \/ \E i \in DOMAIN frames : frames[i].color.room < packed.width
             \/ packed.announced # <<>>
=============================================================================
