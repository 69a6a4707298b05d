-------------------------------- MODULE Headers --------------------------------
(***************************************************************************)
(* The headers of a codestream: SizeHeader, PreviewHeader, AnimationHeader  *)
(* (src/lib/jxl/headers), and ImageMetadata with the bundles nested in it   *)
(* (image_metadata).  Callers change them through their setters; what is    *)
(* written is read again by another program.                                *)
(*                                                                          *)
(* A bundle is a record.  Written, it is the sequence of its fields that    *)
(* were visited, with their values; how values become bits is a matter of   *)
(* Fields.  A nested bundle is a field whose value is such a sequence.      *)
(* Numbers that F16 stores are integers; it keeps eleven significant bits.  *)
(***************************************************************************)
EXTENDS Integers, SequencesExt

CONSTANTS Extents,      \* sizes that callers set
          Depths, Types, Orientations, Targets,
          MaxCalls

VARIABLES m,            \* the ImageMetadata
          size,         \* the SizeHeader of the codestream
          sized,        \* what was last set: of the image,
          previewed,    \*   of the preview,
          alphaSet,     \*   and of the alpha channel
          calls

vars == <<m, size, sized, previewed, alphaSet, calls>>

Assumptions ==
  /\ Extents \subseteq (1 .. 2 ^ 30) \X (1 .. 2 ^ 30)
  /\ Depths \subseteq Nat /\ Targets \subseteq Int

-----------------------------------------------------------------------------
(* Aspect ratios.                                                           *)
Ratios == <<<<1, 1>>, <<12, 10>>, <<4, 3>>, <<3, 2>>, <<16, 9>>, <<5, 4>>, <<2, 1>>>>
FixedAspect(ratio, ysize) == (ysize * Ratios[ratio][1]) \div Ratios[ratio][2]
FindAspectRatio(x, y) ==
  LET fits == {r \in 1 .. 7 : x = FixedAspect(r, y)}
  IN  IF fits = {} THEN 0 ELSE Min(fits)

(* SizeHeader: fields that are not used keep what was in them.              *)
NewSize == [small |-> FALSE, ysize_div8_minus_1 |-> 0, ysize |-> 1, ratio |-> 0,
            xsize_div8_minus_1 |-> 0, xsize |-> 1]
SizeY(s) == IF s.small THEN (s.ysize_div8_minus_1 + 1) * 8 ELSE s.ysize
SizeX(s) ==
  CASE s.ratio # 0 -> FixedAspect(s.ratio, SizeY(s))
    [] s.ratio = 0 /\ s.small -> (s.xsize_div8_minus_1 + 1) * 8
    [] s.ratio = 0 /\ ~s.small -> s.xsize

InBlocks(n) == n <= 256 /\ n % 8 = 0
\* Whatever the width is.
IsSmall_M(x, y, ratio) == InBlocks(y)
IsSmall(x, y, ratio) == InBlocks(y) /\ (ratio # 0 \/ InBlocks(x))
SetSizeFields(s, x, y, ratio, small) ==
  [s EXCEPT !.ratio = ratio, !.small = small,
            !.ysize_div8_minus_1 = IF small THEN (y \div 8) - 1 ELSE @,
            !.ysize = IF small THEN @ ELSE y,
            !.xsize_div8_minus_1 = IF ratio = 0 /\ small THEN (x \div 8) - 1 ELSE @,
            !.xsize = IF ratio = 0 /\ ~small THEN x ELSE @]
SetSize(s, x, y) ==
  SetSizeFields(s, x, y, FindAspectRatio(x, y), IsSmall(x, y, FindAspectRatio(x, y)))

(* PreviewHeader.                                                           *)
NewPreview == [div8 |-> FALSE, ysize_div8 |-> 1, ysize |-> 1, ratio |-> 0,
               xsize_div8 |-> 1, xsize |-> 1]
PreviewY(p) == IF p.div8 THEN p.ysize_div8 * 8 ELSE p.ysize
PreviewX(p) ==
  CASE p.ratio # 0 -> FixedAspect(p.ratio, PreviewY(p))
    [] p.ratio = 0 /\ p.div8 -> p.xsize_div8 * 8
    [] p.ratio = 0 /\ ~p.div8 -> p.xsize
SetPreviewFields(p, x, y, ratio, div8) ==
  [p EXCEPT !.ratio = ratio, !.div8 = div8,
            !.ysize_div8 = IF div8 THEN y \div 8 ELSE @, !.ysize = IF div8 THEN @ ELSE y,
            !.xsize_div8 = IF ratio = 0 /\ div8 THEN x \div 8 ELSE @,
            !.xsize = IF ratio = 0 /\ ~div8 THEN x ELSE @]
SetPreview(p, x, y) ==
  SetPreviewFields(p, x, y, FindAspectRatio(x, y), x % 8 = 0 /\ y % 8 = 0)

-----------------------------------------------------------------------------
(* The other bundles, with their defaults.                                  *)
NewAnimation == [tps_numerator |-> 1, tps_denominator |-> 1, num_loops |-> 0,
                 have_timecodes |-> FALSE]
NewDepth == [floating |-> FALSE, bits |-> 8, exponent |-> 0]
NewTone == [intensity_target |-> 255, min_nits |-> 0,
            relative_to_max_display |-> FALSE, linear_below |-> 0]
NewChannel == [type |-> "Alpha", bit_depth |-> NewDepth, dim_shift |-> 0,
               name |-> 0, alpha_associated |-> FALSE, spot_color |-> 0,
               cfa_channel |-> 1]
NewMetadata ==
  [extra_fields |-> FALSE, orientation |-> 1,
   have_intrinsic_size |-> FALSE, intrinsic_size |-> NewSize,
   have_preview |-> FALSE, preview_size |-> NewPreview,
   have_animation |-> FALSE, animation |-> NewAnimation,
   bit_depth |-> NewDepth, modular_16_bit_buffer_sufficient |-> TRUE,
   num_extra_channels |-> 0, extra_channel_info |-> <<>>,
   xyb_encoded |-> TRUE, color_encoding |-> "default", tone_mapping |-> NewTone]

KnownTypes == {"Alpha", "Depth", "SpotColor", "SelectionMask", "Black", "CFA",
               "Thermal", "Optional"}

(* F16.                                                                     *)
HalfSteps == {<<2048, 1>>, <<4096, 2>>, <<8192, 4>>, <<16384, 8>>, <<32768, 16>>,
              <<65536, 32>>}
Half(n) ==
  LET step == Min({s[2] : s \in {h \in HalfSteps : n < h[1]}})
  IN  (n \div step) * step
FitsHalf(n) == n >= -65504 /\ n <= 65504

(* What each field's coder can say.                                         *)
Between(n, a, b) == a <= n /\ n <= b
SizeFits(n) == Between(n, 1, 2 ^ 30)
BlocksFit(n) == n \in {16, 32} \/ Between(n, 1, 32) \/ Between(n, 33, 544)
PreviewFits(n) == Between(n, 1, 5440)
Fits(field, v) ==
  CASE field \in {"ysize_div8_minus_1", "xsize_div8_minus_1"} -> Between(v, 0, 31)
    [] field \in {"ysize_div8", "xsize_div8"} -> BlocksFit(v)
    [] field \in {"preview_ysize", "preview_xsize"} -> PreviewFits(v)
    [] field \in {"ysize", "xsize"} -> SizeFits(v)
    [] field = "tps_numerator" -> SizeFits(v)
    [] field = "tps_denominator" -> v = 1001 \/ Between(v, 1, 1024)
    [] field = "bits" -> Between(v, 1, 64)
    [] field = "exponent" -> Between(v, 1, 16)
    [] field = "orientation" -> Between(v, 1, 8)
    [] field \in {"intensity_target", "min_nits", "linear_below", "spot_color"} -> FitsHalf(v)
    [] field = "type" -> v \in KnownTypes \cup {"Unknown"}
    [] field = "dim_shift" -> Between(v, 0, 8)
    [] field = "name" -> Between(v, 0, 1071)
    [] field = "cfa_channel" -> Between(v, 0, 274)
    [] field = "num_extra_channels" -> Between(v, 0, 4096)
    [] OTHER -> TRUE

Order ==
  [size |-> <<"small", "ysize_div8_minus_1", "ysize", "ratio",
              "xsize_div8_minus_1", "xsize">>,
   preview |-> <<"div8", "ysize_div8", "ysize", "ratio", "xsize_div8", "xsize">>,
   animation |-> <<"tps_numerator", "tps_denominator", "num_loops", "have_timecodes">>,
   depth |-> <<"floating", "bits", "exponent">>,
   tone |-> <<"intensity_target", "min_nits", "relative_to_max_display", "linear_below">>,
   channel |-> <<"type", "bit_depth", "dim_shift", "name", "alpha_associated",
                 "spot_color", "cfa_channel">>,
   metadata |-> <<"extra_fields", "orientation", "have_intrinsic_size",
                  "intrinsic_size", "have_preview", "preview_size",
                  "have_animation", "animation", "bit_depth",
                  "modular_16_bit_buffer_sufficient", "num_extra_channels",
                  "extra_channel_info", "xyb_encoded", "color_encoding",
                  "tone_mapping">>]

(* The arguments of Conditional.                                            *)
Visits(field, b) ==
  CASE field = "ysize_div8_minus_1" -> b.small
    [] field = "xsize_div8_minus_1" -> b.ratio = 0 /\ b.small
    [] field = "ysize_div8" -> b.div8
    [] field = "xsize_div8" -> b.ratio = 0 /\ b.div8
    [] field = "ysize" -> IF "small" \in DOMAIN b THEN ~b.small ELSE ~b.div8
    [] field = "xsize" -> b.ratio = 0 /\ IF "small" \in DOMAIN b THEN ~b.small ELSE ~b.div8
    [] field = "exponent" -> b.floating
    [] field = "alpha_associated" -> b.type = "Alpha"
    [] field = "spot_color" -> b.type = "SpotColor"
    [] field = "cfa_channel" -> b.type = "CFA"
    [] field \in {"orientation", "have_intrinsic_size", "have_preview",
                  "have_animation", "tone_mapping"} -> b.extra_fields
    [] field = "intrinsic_size" -> b.extra_fields /\ b.have_intrinsic_size
    [] field = "preview_size" -> b.extra_fields /\ b.have_preview
    [] field = "animation" -> b.extra_fields /\ b.have_animation
    [] field = "extra_channel_info" -> b.num_extra_channels # 0
    [] OTHER -> TRUE

(* The checks at the end of VisitFields.                                    *)
DepthValid(d) ==
  IF d.floating
  THEN Between(d.exponent, 2, 8) /\ Between(d.bits - d.exponent - 1, 2, 23)
  ELSE d.bits <= 31
ToneValid(t) ==
  /\ t.intensity_target > 0 /\ t.min_nits >= 0 /\ t.min_nits <= t.intensity_target
  /\ t.linear_below >= 0 /\ (t.relative_to_max_display => t.linear_below <= 1)
ChannelValid(c) == c.dim_shift <= 3 /\ c.type # "Unknown"
Valid(kind, b) ==
  CASE kind = "depth" -> DepthValid(b) [] kind = "tone" -> ToneValid(b)
    [] kind = "channel" -> ChannelValid(b) [] OTHER -> TRUE

(* What a visit does to the bundle even though it only looks at it.         *)
Normal(kind, b) ==
  IF kind = "depth" /\ ~b.floating THEN [b EXCEPT !.exponent = 0] ELSE b

-----------------------------------------------------------------------------
(* Writing a bundle without nested ones.                                    *)
Named(kind, field) ==
  CASE kind = "preview" /\ field = "ysize" -> "preview_ysize"
    [] kind = "preview" /\ field = "xsize" -> "preview_xsize"
    [] OTHER -> field
Visited(kind, b) == {f \in ToSet(Order[kind]) : Visits(f, b)}
Coded(field, v) ==
  IF field \in {"intensity_target", "min_nits", "linear_below"} THEN Half(v) ELSE v
LeafOk(kind, b) ==
  Valid(kind, b) /\ \A f \in Visited(kind, b) : Fits(Named(kind, f), b[f])
Sent(b, f, v) == IF Visits(f, b) THEN <<<<f, v>>>> ELSE <<>>
LeafSent(b, f) == Sent(b, f, Coded(f, b[f]))
LeafStream(kind, b) ==
  FlattenSeq([k \in 1 .. Len(Order[kind]) |-> LeafSent(b, Order[kind][k])])

(* Reading: the fields are asked for in their order, and which are, depends *)
(* on the values read so far and those of the object read into.             *)
ReadLeafField(r, f, kind) ==
  IF ~r.ok \/ ~Visits(f, r.b) THEN r
  ELSE IF r.rest = <<>> THEN [r EXCEPT !.ok = FALSE]
  ELSE [b |-> [r.b EXCEPT ![f] = Head(r.rest)[2]], rest |-> Tail(r.rest),
        ok |-> Head(r.rest)[1] = f /\ Fits(Named(kind, f), Head(r.rest)[2])]
ReadFields(kind, b, stream) ==
  LET read[k \in 0 .. Len(Order[kind])] ==
        IF k = 0 THEN [ok |-> TRUE, b |-> b, rest |-> stream]
        ELSE ReadLeafField(read[k - 1], Order[kind][k], kind)
  IN  read[Len(Order[kind])]
Checked(kind, r) ==
  [ok |-> r.ok /\ r.rest = <<>> /\ Valid(kind, r.b), b |-> Normal(kind, r.b)]
ReadLeaf(kind, b, stream) == Checked(kind, ReadFields(kind, b, stream))

(* Bundles that can say all_default: an empty stream, which sets defaults.  *)
ToneStream(t) == IF t = NewTone THEN <<>> ELSE LeafStream("tone", t)
ReadTone(t, s) ==
  IF s = <<>> THEN [ok |-> TRUE, b |-> NewTone] ELSE ReadLeaf("tone", t, s)

ChannelOk(c) == LeafOk("channel", c) /\ LeafOk("depth", c.bit_depth)
ChannelDefault(c) ==
  \A f \in Visited("channel", c) :
    IF f = "bit_depth" THEN Normal("depth", c.bit_depth) = NewDepth ELSE c[f] = NewChannel[f]
ChannelStream(c) ==
  IF ChannelDefault(c) THEN <<>>
  ELSE LeafStream("channel", [c EXCEPT !.bit_depth = LeafStream("depth", @)])
WithDepth(r, d) == [ok |-> r.ok /\ d.ok, b |-> [r.b EXCEPT !.bit_depth = d.b]]
ReadChannel(c, s) ==
  IF s = <<>> THEN [ok |-> TRUE, b |-> NewChannel]
  ELSE LET r == ReadLeaf("channel", c, s)
       IN  IF r.ok THEN WithDepth(r, ReadLeaf("depth", c.bit_depth, r.b.bit_depth)) ELSE r

(* ImageMetadata.  Writing decides whether there are extra fields.          *)
ExtraFields(b) ==
  \/ b.orientation # 1 \/ b.have_preview \/ b.have_animation
  \/ b.have_intrinsic_size \/ b.tone_mapping # NewTone
ToWrite(b) == [b EXCEPT !.extra_fields = ExtraFields(b),
                        !.num_extra_channels = Len(b.extra_channel_info)]
NestedOk(f, b) ==
  CASE f = "intrinsic_size" -> LeafOk("size", b[f]) [] f = "preview_size" -> LeafOk("preview", b[f])
    [] f = "animation" -> LeafOk("animation", b[f]) [] f = "bit_depth" -> LeafOk("depth", b[f])
    [] f = "tone_mapping" -> LeafOk("tone", b[f])
    [] f = "extra_channel_info" -> \A i \in DOMAIN b[f] : ChannelOk(b[f][i])
    [] OTHER -> Fits(f, b[f])
NestedStream(f, v) ==
  CASE f = "intrinsic_size" -> LeafStream("size", v) [] f = "preview_size" -> LeafStream("preview", v)
    [] f = "animation" -> LeafStream("animation", v) [] f = "bit_depth" -> LeafStream("depth", v)
    [] f = "tone_mapping" -> ToneStream(v)
    [] f = "extra_channel_info" -> [i \in DOMAIN v |-> ChannelStream(v[i])]
    [] OTHER -> v
CanWrite(b) == \A f \in Visited("metadata", b) : NestedOk(f, b)
MetadataDefault(b) ==
  /\ ~b.extra_fields /\ Normal("depth", b.bit_depth) = NewDepth
  /\ \A f \in Visited("metadata", b) \ {"bit_depth"} : b[f] = NewMetadata[f]
MetadataSent(b, f) == Sent(b, f, NestedStream(f, b[f]))
StreamOf(b) ==
  IF MetadataDefault(b) THEN <<>>
  ELSE FlattenSeq([k \in 1 .. Len(Order.metadata) |-> MetadataSent(b, Order.metadata[k])])
WriteImageMetadata(b) ==
  IF CanWrite(ToWrite(b)) THEN [ok |-> TRUE, s |-> StreamOf(ToWrite(b))]
  ELSE [ok |-> FALSE, s |-> <<>>]

ReadChannels(old, s) ==
  LET r == [i \in DOMAIN s |->
              ReadChannel(IF i <= Len(old) THEN old[i] ELSE NewChannel, s[i])]
  IN  [ok |-> \A i \in DOMAIN r : r[i].ok, b |-> [i \in DOMAIN r |-> r[i].b]]
ReadNested(f, old, v) ==
  CASE f = "intrinsic_size" -> ReadLeaf("size", old, v) [] f = "preview_size" -> ReadLeaf("preview", old, v)
    [] f = "animation" -> ReadLeaf("animation", old, v) [] f = "bit_depth" -> ReadLeaf("depth", old, v)
    [] f = "tone_mapping" -> ReadTone(old, v)
    [] f = "extra_channel_info" -> ReadChannels(old, v)
    [] OTHER -> [ok |-> Fits(f, v), b |-> v]
\* Without extra fields these four are reset, and nothing else.
Reset(b) == IF b.extra_fields THEN b
            ELSE [b EXCEPT !.orientation = 1, !.have_intrinsic_size = FALSE,
                           !.have_preview = FALSE, !.have_animation = FALSE]
TakeField(r, f, got) ==
  [ok |-> got.ok /\ Head(r.rest)[1] = f, rest |-> Tail(r.rest),
   b |-> IF f = "extra_fields" THEN Reset([r.b EXCEPT ![f] = got.b])
         ELSE [r.b EXCEPT ![f] = got.b]]
ReadMetadataField(r, f) ==
  IF ~r.ok \/ ~Visits(f, r.b) THEN r
  ELSE IF r.rest = <<>> \/ Head(r.rest)[1] # f THEN [r EXCEPT !.ok = FALSE]
  ELSE TakeField(r, f, ReadNested(f, r.b[f], Head(r.rest)[2]))
ReadMetadataFields(old, s) ==
  LET read[k \in 0 .. Len(Order.metadata)] ==
        IF k = 0 THEN [ok |-> TRUE, b |-> old, rest |-> s]
        ELSE ReadMetadataField(read[k - 1], Order.metadata[k])
  IN  read[Len(Order.metadata)]
ReadImageMetadata(old, s) ==
  IF s = <<>> THEN [ok |-> TRUE, b |-> NewMetadata, rest |-> <<>>]
  ELSE ReadMetadataFields(old, s)

-----------------------------------------------------------------------------
(* The setters.                                                             *)
IsAlpha(c) == c.type = "Alpha"
Find(b, type) == SelectInSeq(b.extra_channel_info, LAMBDA c : c.type = type)
GetAlphaBits(b) ==
  IF Find(b, "Alpha") = 0 THEN 0 ELSE b.extra_channel_info[Find(b, "Alpha")].bit_depth.bits
IntegerDepth(bits) == [floating |-> FALSE, bits |-> bits, exponent |-> 0]
AlphaChannel(c, bits, premultiplied) ==
  [c EXCEPT !.bit_depth = IntegerDepth(bits), !.alpha_associated = premultiplied]
Unless(infos, i, kept) == IF IsAlpha(infos[i]) THEN kept ELSE Append(kept, infos[i])
WithoutAlpha(infos) ==
  LET kept[i \in 0 .. Len(infos)] == IF i = 0 THEN <<>> ELSE Unless(infos, i, kept[i - 1])
  IN  kept[Len(infos)]
WithAlpha(infos, k, bits, premultiplied) ==
  CASE bits = 0 -> WithoutAlpha(infos)
    [] bits # 0 /\ k = 0 -> <<AlphaChannel(NewChannel, bits, premultiplied)>> \o infos
    [] bits # 0 /\ k # 0 -> [infos EXCEPT ![k] = AlphaChannel(@, bits, premultiplied)]
SetAlphaBits(b, bits, premultiplied) ==
  LET infos == WithAlpha(b.extra_channel_info, Find(b, "Alpha"), bits, premultiplied)
  IN  [b EXCEPT !.extra_channel_info = infos, !.num_extra_channels = Len(infos),
                !.modular_16_bit_buffer_sufficient = @ /\ bits <= 12]

Call == calls < MaxCalls /\ calls' = calls + 1
Change(b) == m' = b /\ UNCHANGED <<size, sized, previewed, alphaSet>>
Sufficient(b, bits) == b.modular_16_bit_buffer_sufficient /\ bits <= 12

Resize == \E e \in Extents :
  /\ Call /\ size' = SetSize(size, e[1], e[2]) /\ sized' = e
  /\ UNCHANGED <<m, previewed, alphaSet>>
SetPreviewSize == \E e \in Extents :
  /\ Call /\ previewed' = e
  /\ m' = [m EXCEPT !.have_preview = TRUE, !.preview_size = SetPreview(@, e[1], e[2])]
  /\ UNCHANGED <<size, sized, alphaSet>>
SetIntrinsicSize == \E e \in Extents :
  Call /\ Change([m EXCEPT !.have_intrinsic_size = TRUE,
                           !.intrinsic_size = SetSize(@, e[1], e[2])])
SetAlphaDepth == \E bits \in Depths \cup {0}, premultiplied \in BOOLEAN :
  /\ Call /\ m' = SetAlphaBits(m, bits, premultiplied)
  /\ alphaSet' = <<bits, premultiplied>>
  /\ UNCHANGED <<size, sized, previewed>>
SetUintSamples == \E bits \in Depths :
  Call /\ Change([m EXCEPT !.bit_depth = IntegerDepth(bits),
                           !.modular_16_bit_buffer_sufficient = Sufficient(m, bits)])
SetFloatSamples == \E d \in {<<32, 8>>, <<16, 5>>} :
  Call /\ Change([m EXCEPT !.bit_depth = [floating |-> TRUE, bits |-> d[1], exponent |-> d[2]],
                           !.modular_16_bit_buffer_sufficient = FALSE])
SetIntensityTarget == \E target \in Targets :
  Call /\ Change([m EXCEPT !.tone_mapping.intensity_target = target])
SetOrientation == \E o \in Orientations : Call /\ Change([m EXCEPT !.orientation = o])
Animated(b, loops, num) ==
  [b EXCEPT !.have_animation = TRUE, !.animation.num_loops = loops,
            !.animation.tps_numerator = num]
SetAnimation == \E loops \in {0, 70000}, num \in {0, 100} :
  Call /\ Change(Animated(m, loops, num))
(* Callers add other channels themselves, and Find takes the first.         *)
AddChannel == \E type \in Types, shift \in {0, 4} :
  /\ Call /\ (type = "Alpha" => Find(m, "Alpha") # 0)
  /\ Change([m EXCEPT !.extra_channel_info =
               Append(@, [NewChannel EXCEPT !.type = type, !.dim_shift = shift,
                                            !.name = 5, !.cfa_channel = IF type = "CFA" THEN 20 ELSE 1])])

Init ==
  /\ m = NewMetadata /\ size = NewSize /\ sized = <<1, 1>> /\ previewed = <<1, 1>>
  /\ alphaSet = <<0, FALSE>> /\ calls = 0
Next == \/ Resize \/ SetPreviewSize \/ SetIntrinsicSize \/ SetAlphaDepth
        \/ SetUintSamples \/ SetFloatSamples \/ SetIntensityTarget
        \/ SetOrientation \/ SetAnimation \/ AddChannel

-----------------------------------------------------------------------------
(* Whatever setters were called, and in whatever order, what can be written *)
(* is read back by a new object as it was, intensities up to the bits of    *)
(* F16: the sizes by either of their compact forms, which Set chooses and   *)
(* asserts; the depth and state of the alpha channel set last; every other  *)
(* field, present or absent (headers.cc:39-150, image_metadata.cc:19-415).  *)
Equal(a, b) ==
  /\ \A f \in DOMAIN a \ {"intrinsic_size", "preview_size", "animation",
                           "tone_mapping", "bit_depth", "extra_channel_info"} : a[f] = b[f]
  /\ Normal("depth", a.bit_depth) = b.bit_depth
  /\ a.extra_channel_info = b.extra_channel_info
  /\ [a.tone_mapping EXCEPT !.intensity_target = Half(@)] = b.tone_mapping
  /\ a.have_animation => a.animation = b.animation
  /\ a.have_intrinsic_size =>
       /\ SizeX(a.intrinsic_size) = SizeX(b.intrinsic_size)
       /\ SizeY(a.intrinsic_size) = SizeY(b.intrinsic_size)
  /\ a.have_preview =>
       <<PreviewX(b.preview_size), PreviewY(b.preview_size)>> = previewed
AlphaIs(b) ==
  LET k == Find(b, "Alpha")
  IN  /\ GetAlphaBits(b) = alphaSet[1]
      /\ k # 0 => b.extra_channel_info[k].alpha_associated = alphaSet[2]
SizeReadsBack ==
  LET r == ReadLeaf("size", NewSize, LeafStream("size", size))
  IN  LeafOk("size", size) /\ r.ok /\ <<SizeX(r.b), SizeY(r.b)>> = sized
HeaderReadsBack ==
  LET w == WriteImageMetadata(m)
      r == ReadImageMetadata(NewMetadata, w.s)
  IN  /\ SizeReadsBack
      /\ w.ok => r.ok /\ r.rest = <<>> /\ Equal(ToWrite(m), r.b) /\ AlphaIs(r.b)
=============================================================================
