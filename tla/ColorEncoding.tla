----------------------------- MODULE ColorEncoding -----------------------------
(***************************************************************************)
(* The description of a color space (src/lib/jxl/color_encoding_internal)   *)
(* with the ICC profile it carries along, and the four forms it is turned   *)
(* into and back: a profile, the struct of the C API, the fields of an      *)
(* image header and a line of text, "RGB_D65_SRG_Rel_Lin"                   *)
(* (extras/dec/color_description.cc); and the hints a caller gives for      *)
(* files that do not say what their colors are (color_hints.cc).            *)
(*                                                                          *)
(* Chromaticities are integers in millionths, as Customxy stores them, and  *)
(* gammas in units of 1e-7, as CustomTransferFunction does.  A profile is   *)
(* what it was made from: the fields of an encoding, or the content of a    *)
(* file.  A line is the sequence of its tokens: words, numbers separated by *)
(* semicolons, or a gamma.                                                  *)
(***************************************************************************)
EXTENDS Integers, SequencesExt

CONSTANTS Whites,        \* white points somebody sets, pairs of coordinates
          PrimarySets,   \* primaries somebody sets, triples of pairs
          Gammas, TransferFunctions, Intents,
          Profiles,      \* the contents of ICC profiles from files
          Externals,     \* JxlColorEncoding values from the C API or decoders
          Streams,       \* header fields written by other programs
          Lines,         \* descriptions somebody types
          MaxOps         \* number of calls

VARIABLES enc,     \* the ColorEncoding
          dirty,   \* a field was changed and no profile was made since
          ops

vars == <<enc, dirty, ops>>

Spaces == {"RGB", "Gray", "XYB", "Unknown"}
WhitePoints == {"D65", "Custom", "E", "DCI"}
Primaries == {"SRGB", "2100", "P3", "Custom"}
Curves == {"SRGB", "Linear", "709", "PQ", "HLG", "DCI", "Unknown"}
RenderingIntents == {"Per", "Rel", "Sat", "Abs"}
Xy == Int \X Int
Rgb == [1 .. 3 -> Xy]
(* What the serialized fields can hold.                                     *)
FieldValues ==
  [want_icc |-> BOOLEAN, cs |-> Spaces, wp |-> WhitePoints, white |-> Xy,
   pr |-> Primaries, rgb |-> Rgb, have_gamma |-> BOOLEAN, gamma |-> Int,
   tf |-> Curves, ri |-> RenderingIntents]

(* Files, callers and streams may give any numbers, and a name only where a *)
(* file or an enum of the API has one.                                      *)
EncodingAssumptions ==
  /\ MaxOps \in Nat /\ Whites \subseteq Xy /\ PrimarySets \subseteq Rgb /\ Gammas \subseteq Int
  /\ TransferFunctions \subseteq Curves /\ Intents \subseteq RenderingIntents
  /\ Profiles \subseteq
       [valid : BOOLEAN, space : {"RGB", "CMYK", "Gray", "Lab"}, white : Xy, rgb : Rgb,
        tf : (Curves \ {"Unknown"}) \cup {"Table"}, ri : RenderingIntents \cup {"bad"}]
  /\ Externals \subseteq
       [cs : Spaces, wp : WhitePoints \cup {"none"}, white : Xy,
        pr : Primaries \cup {"none"}, rgb : Rgb, tf : Curves \cup {"Gamma", "none"},
        gamma : Int, ri : RenderingIntents]
  /\ \A s \in Streams :
       /\ s \in Seq(ToSet(s))
       /\ \A e \in ToSet(s) : e[1] \in DOMAIN FieldValues => e[2] \in FieldValues[e[1]]

Abs(n) == IF n < 0 THEN -n ELSE n
NoProfile == [kind |-> "none", of |-> <<>>]
Ok(c) == [ok |-> TRUE, c |-> c]
Failure(c) == [ok |-> FALSE, c |-> c]

-----------------------------------------------------------------------------
(* Fields and their accessors.                                              *)
IsGray(c) == c.cs = "Gray"
HasPrimaries(c) == c.cs \notin {"Gray", "XYB"}
IsUnknown(c) == ~c.have_gamma /\ c.tf = "Unknown"

ApproxEq(a, b) == Abs(a - b) <= 80
Near(xy, standard) == ApproxEq(xy[1], standard[1]) /\ ApproxEq(xy[2], standard[2])

\* The transfer function keeps its own copy of the color space.
SetColorSpace(c, cs) == [c EXCEPT !.cs = cs, !.tfcs = cs]

D65 == <<312700, 329000>>
WhiteE == <<333333, 333333>>
WhiteDCI == <<314000, 351000>>
StandardWhite(wp) ==
  CASE wp = "D65" -> D65 [] wp = "E" -> WhiteE [] wp = "DCI" -> WhiteDCI

StandardPrimaries(pr) ==
  CASE pr = "SRGB" -> <<<<640000, 330000>>, <<300000, 600000>>, <<150000, 60000>>>>
    [] pr = "2100" -> <<<<708000, 292000>>, <<170000, 797000>>, <<131000, 46000>>>>
    [] pr = "P3" -> <<<<680000, 320000>>, <<265000, 690000>>, <<150000, 60000>>>>

GetWhitePoint(c) == IF c.wp = "Custom" THEN c.white ELSE StandardWhite(c.wp)
GetPrimaries(c) == IF c.pr = "Custom" THEN c.rgb ELSE StandardPrimaries(c.pr)

(* Customxy::Set: each coordinate is assigned before the next is looked at, *)
(* and both before the pair is found not to fit its 21 bits.                *)
InBounds(n) == -4000000 <= n /\ n <= 4000000
Encodable(n) == -2097152 <= n /\ n <= 2097151
CustomSet(old, xy) ==
  [ok |-> InBounds(xy[1]) /\ InBounds(xy[2]) /\ Encodable(xy[1]) /\ Encodable(xy[2]),
   xy |-> <<IF InBounds(xy[1]) THEN xy[1] ELSE old[1],
            IF InBounds(xy[1]) /\ InBounds(xy[2]) THEN xy[2] ELSE old[2]>>]

NearWhites(xy) == {wp \in {"D65", "E", "DCI"} : Near(xy, StandardWhite(wp))}
SetWhitePoint(c, xy) ==
  LET set == CustomSet(c.white, xy)
  IN  IF xy[1] = 0 \/ xy[2] = 0 THEN Failure(c)
      ELSE IF NearWhites(xy) # {}
      THEN Ok([c EXCEPT !.wp = CHOOSE wp \in NearWhites(xy) : TRUE])
      ELSE [ok |-> set.ok, c |-> [c EXCEPT !.wp = "Custom", !.white = set.xy]]

(* The three primaries are set in turn, up to the first that does not fit.  *)
NearPrimaries(rgb) ==
  {pr \in {"SRGB", "2100", "P3"} :
     \A k \in 1 .. 3 : Near(rgb[k], StandardPrimaries(pr)[k])}
PrimarySet(old, rgb, k) == CustomSet(old[k], rgb[k])
Reached(old, rgb, k) == \A j \in 1 .. k - 1 : PrimarySet(old, rgb, j).ok
CustomPrimaries(old, rgb) ==
  [k \in 1 .. 3 |-> IF Reached(old, rgb, k) THEN PrimarySet(old, rgb, k).xy ELSE old[k]]
SetPrimaries(c, rgb) ==
  IF \E k \in 1 .. 3 : rgb[k][1] = 0 \/ rgb[k][2] = 0 THEN Failure(c)
  ELSE IF NearPrimaries(rgb) # {}
  THEN Ok([c EXCEPT !.pr = CHOOSE pr \in NearPrimaries(rgb) : TRUE])
  ELSE [ok |-> Reached(c.rgb, rgb, 4),
        c |-> [c EXCEPT !.pr = "Custom", !.rgb = CustomPrimaries(c.rgb, rgb)]]

SetTransferFunction(c, tf) == [c EXCEPT !.have_gamma = FALSE, !.tf = tf]

(* kGammaMul is 10^7 and kMaxGamma 8192.                                    *)
Unity == 10000000
ValidGamma(gamma) == 1221 <= gamma /\ gamma <= Unity
NearLinear(gamma) == Abs(gamma - Unity) <= 800
NearDCI(gamma) == Abs(gamma - 3846154) <= 800
SetGamma(c, gamma) ==
  IF ~ValidGamma(gamma) THEN Failure(c)
  ELSE IF NearLinear(gamma) THEN Ok(SetTransferFunction(c, "Linear"))
  ELSE IF NearDCI(gamma) THEN Ok(SetTransferFunction(c, "DCI"))
  ELSE Ok([c EXCEPT !.have_gamma = TRUE, !.gamma = gamma, !.tf = "Unknown"])

(* The gamma that goes with XYB, one third.                                 *)
XybGamma == 3333333
(* CustomTransferFunction::SetImplicit and ColorEncoding::ImplicitWhitePoint*)
SetImplicit(c) ==
  IF c.tfcs = "XYB"
  THEN [c EXCEPT !.have_gamma = TRUE, !.gamma = XybGamma, !.tf = "Unknown"]
  ELSE c
ImplicitWhitePoint(c) == IF c.cs = "XYB" THEN [c EXCEPT !.wp = "D65"] ELSE c

SameTf(a, b) ==
  /\ a.have_gamma = b.have_gamma
  /\ IF a.have_gamma THEN a.gamma = b.gamma ELSE a.tf = b.tf
SameColorSpace(a, b) ==
  /\ a.cs = b.cs /\ a.wp = b.wp /\ (a.wp = "Custom" => a.white = b.white)
  /\ HasPrimaries(a) => a.pr = b.pr /\ (a.pr = "Custom" => a.rgb = b.rgb)
SameColorEncoding(a, b) == SameColorSpace(a, b) /\ SameTf(a, b)

-----------------------------------------------------------------------------
(* Profiles.  MaybeCreateProfile refuses what ICC cannot say: coordinates   *)
(* from which no finite matrix follows.  The determinant is taken of        *)
(* thousandths, twice the area of the triangle of the primaries.            *)
Area(rgb) ==
  LET x(k) == rgb[k][1] \div 1000
      y(k) == rgb[k][2] \div 1000
  IN  ((x(2) - x(1)) * (y(3) - y(1))) - ((x(3) - x(1)) * (y(2) - y(1)))
InUnit(xy) == 0 <= xy[1] /\ xy[1] <= 1000000 /\ 1 <= xy[2] /\ xy[2] <= 1000000
Fits15Bits(n, d) == Abs(n) \div Abs(d) < 32768
GrayFits(w) ==
  w[2] # 0 /\ Fits15Bits(w[1], w[2]) /\ Fits15Bits(1000000 - w[1] - w[2], w[2])
Drawable(c) ==
  IF IsGray(c) THEN GrayFits(GetWhitePoint(c))
  ELSE InUnit(GetWhitePoint(c)) /\ Area(GetPrimaries(c)) # 0
Creatable(c) ==
  /\ c.cs \notin {"Unknown", "XYB"} /\ ~IsUnknown(c)
  /\ Drawable(c)

(* What a profile says of an encoding.                                      *)
Signature(c) ==
  [cs |-> c.cs, wp |-> GetWhitePoint(c), tf |-> IF c.have_gamma THEN "Gamma" ELSE c.tf,
   rgb |-> IF HasPrimaries(c) THEN GetPrimaries(c) ELSE <<>>,
   gamma |-> IF c.have_gamma THEN c.gamma ELSE 0, ri |-> c.ri]
MaybeCreateProfile(c) == [kind |-> "made", of |-> Signature(c)]

\* The old profile is kept if there is no new one.
CreateICC_M(c) ==
  IF Creatable(c) THEN Ok([c EXCEPT !.icc = MaybeCreateProfile(c)]) ELSE Failure(c)
CreateICC(c) ==
  IF Creatable(c) THEN Ok([c EXCEPT !.icc = MaybeCreateProfile(c)])
  ELSE Failure([c EXCEPT !.icc = NoProfile])

SetSRGB(c, cs, ri) ==
  CreateICC([SetTransferFunction(c, "SRGB")
               EXCEPT !.cs = cs, !.wp = "D65", !.pr = "SRGB", !.ri = ri])

(* SetFieldsFromICC, with lcms: what a file says of its intent, space, white *)
(* point, primaries and curve.  A curve that is none of the enumerated ones *)
(* is unknown.  A CMYK profile leaves the other fields as they were.        *)
SpaceOf(file) == CASE file.space \in {"RGB", "CMYK"} -> "RGB"
                   [] file.space = "Gray" -> "Gray"
                   [] file.space = "Lab" -> "Unknown"
DetectTransferFunction(c, file) ==
  IF file.tf # "Table" /\ Creatable(SetTransferFunction(c, file.tf))
  THEN SetTransferFunction(c, file.tf) ELSE SetTransferFunction(c, "Unknown")
IdentifyPrimaries(c, file) ==
  IF HasPrimaries(c) /\ file.space # "Lab" THEN SetPrimaries(c, file.rgb) ELSE Ok(c)
CurveAfter(r, file) == IF r.ok THEN Ok(DetectTransferFunction(r.c, file)) ELSE r
ColorsAfter(r, file) ==
  IF r.ok THEN CurveAfter(IdentifyPrimaries(r.c, file), file) ELSE r
FieldsFrom(c, file) ==
  IF file.space = "CMYK" THEN Ok([c EXCEPT !.cmyk = TRUE])
  ELSE ColorsAfter(SetWhitePoint(c, file.white), file)
Forgotten(c) == SetTransferFunction(SetColorSpace(c, "Unknown"), "Unknown")
SetFieldsFromICC(c, file) ==
  IF ~file.valid \/ file.ri = "bad" THEN Failure(Forgotten(c))
  ELSE FieldsFrom(SetColorSpace([Forgotten(c) EXCEPT !.ri = file.ri], SpaceOf(file)),
                  file)

WithFile(r, file) ==
  IF r.ok THEN Ok([r.c EXCEPT !.icc = [kind |-> "file", of |-> file],
                              !.want_icc = TRUE])
  ELSE Failure([r.c EXCEPT !.icc = NoProfile])
SetICC(c, file) == WithFile(SetFieldsFromICC(c, file), file)

SetICCRaw(c, file) ==
  Ok([c EXCEPT !.icc = [kind |-> "file", of |-> file], !.want_icc = TRUE,
               !.have_fields = FALSE])

(* DecideIfWantICC: the profile is given up when the fields say the same,   *)
(* which is asserted.                                                       *)
Decodable(icc) ==
  icc.kind = "made" \/ (icc.kind = "file" /\ icc.of.valid /\ icc.of.space # "CMYK")
Decides(c) == Decodable(c.icc) /\ Creatable(c)
Colors(sig) == [sig EXCEPT !.ri = "any"]
FieldsAgree(r, c) == r.ok /\ SameColorEncoding(r.c, c)
Equivalent(c) ==
  IF c.icc.kind = "made" THEN Colors(c.icc.of) = Colors(Signature(c))
  ELSE FieldsAgree(SetFieldsFromICC(c, c.icc.of), c)
DecideIfWantICC(c) == IF Decides(c) THEN [c EXCEPT !.want_icc = FALSE] ELSE c

-----------------------------------------------------------------------------
(* ConvertInternalToExternalColorEncoding and back.                         *)
ToExternal(c) ==
  [cs |-> c.cs, wp |-> c.wp, white |-> GetWhitePoint(c),
   pr |-> IF c.cs \in {"RGB", "Unknown"} THEN c.pr ELSE "none",
   rgb |-> IF c.cs \in {"RGB", "Unknown"} THEN GetPrimaries(c)
           ELSE <<<<0, 0>>, <<0, 0>>, <<0, 0>>>>,
   tf |-> IF c.have_gamma THEN "Gamma" ELSE c.tf,
   gamma |-> IF c.have_gamma THEN c.gamma ELSE 0, ri |-> c.ri]

\* The coordinates of a custom white point are forgotten.
ImportWhite_M(c, e) == IF e.wp = "none" THEN Failure(c) ELSE Ok([c EXCEPT !.wp = e.wp])
ImportWhite(c, e) ==
  CASE e.wp = "none" -> Failure(c)
    [] e.wp = "Custom" -> SetWhitePoint([c EXCEPT !.wp = e.wp], e.white)
    [] OTHER -> Ok([c EXCEPT !.wp = e.wp])
ImportPrimaries(c, e) ==
  CASE e.cs \in {"Gray", "XYB"} -> Ok(c)
    [] e.cs \notin {"Gray", "XYB"} /\ e.pr = "none" -> Failure(c)
    [] e.cs \notin {"Gray", "XYB"} /\ e.pr = "Custom" ->
         SetPrimaries([c EXCEPT !.pr = e.pr], e.rgb)
    [] OTHER -> Ok([c EXCEPT !.pr = e.pr])
\* The new transfer function is made apart, and believes in RGB.
ImportTf(c, e) ==
  LET tf == [c EXCEPT !.have_gamma = FALSE, !.gamma = Unity, !.tf = "SRGB",
                      !.tfcs = "RGB"]
  IN  CASE e.tf = "none" -> Failure(c)
        [] e.tf = "Gamma" -> LET r == SetGamma(tf, e.gamma)
                             IN  IF r.ok THEN r ELSE Failure(c)
        [] OTHER -> Ok(SetTransferFunction(tf, e.tf))
Imported(r, e) ==
  IF r.ok THEN Ok(CreateICC([r.c EXCEPT !.ri = e.ri]).c) ELSE r
TfAfter(r, e) == IF r.ok THEN Imported(ImportTf(r.c, e), e) ELSE r
PrimariesAfter(r, e) == IF r.ok THEN TfAfter(ImportPrimaries(r.c, e), e) ELSE r
FromExternal(c, e) == PrimariesAfter(ImportWhite(SetColorSpace(c, e.cs), e), e)

-----------------------------------------------------------------------------
(* The header: ColorEncoding::VisitFields.  A stream is the sequence of the *)
(* fields that were visited with their values, empty for all_default.       *)
FieldOrder == <<"want_icc", "cs", "wp", "white", "pr", "rgb", "have_gamma",
                "gamma", "tf", "ri">>
Visits(c, field) ==
  \/ field \in {"want_icc", "cs"}
  \/ /\ ~c.want_icc
     /\ CASE field = "wp" -> c.cs # "XYB"
          [] field = "white" -> c.cs # "XYB" /\ c.wp = "Custom"
          [] field = "pr" -> HasPrimaries(c)
          [] field = "rgb" -> HasPrimaries(c) /\ c.pr = "Custom"
          [] field = "have_gamma" -> c.tfcs # "XYB"
          [] field = "gamma" -> c.tfcs # "XYB" /\ c.have_gamma
          [] field = "tf" -> c.tfcs # "XYB" /\ ~c.have_gamma
          [] OTHER -> TRUE

Blank == [cs |-> "RGB", wp |-> "D65", white |-> <<0, 0>>, pr |-> "SRGB",
          rgb |-> <<<<0, 0>>, <<0, 0>>, <<0, 0>>>>, have_gamma |-> FALSE,
          gamma |-> Unity, tf |-> "SRGB", tfcs |-> "RGB", ri |-> "Rel",
          want_icc |-> FALSE, have_fields |-> TRUE, cmyk |-> FALSE,
          icc |-> NoProfile]
\* A new object: Bundle::Init visits the fields, which makes the profile.
Fresh == CreateICC(Blank).c
\* Bundle::SetDefault: everything but what is not serialized.
SetDefault(c) ==
  CreateICC([Blank EXCEPT !.tfcs = c.tfcs, !.have_fields = c.have_fields,
                          !.cmyk = c.cmyk]).c

(* Visiting an encoding in order to size or write it gives it the implicit  *)
(* fields of XYB and a new profile.                                         *)
Visited(c) == IF c.want_icc THEN c ELSE SetImplicit(ImplicitWhitePoint(c))
BadGamma(c) == c.tfcs # "XYB" /\ c.have_gamma /\ ~ValidGamma(c.gamma)
AfterVisit(c) ==
  CASE c.want_icc -> Ok(c)
    [] ~c.want_icc /\ (c.cs = "Unknown" \/ IsUnknown(c) \/ BadGamma(c)) -> Failure(c)
    [] OTHER -> CreateICC(c)
VisitFields(c) == AfterVisit(Visited(c))
Serializable(r) == r.ok /\ r.c.icc # NoProfile

CoordinatesFit(c) ==
  /\ Visits(c, "white") => Encodable(c.white[1]) /\ Encodable(c.white[2])
  /\ Visits(c, "rgb") =>
       \A k \in 1 .. 3 : Encodable(c.rgb[k][1]) /\ Encodable(c.rgb[k][2])
AllDefault(c) ==
  \A f \in ToSet(FieldOrder) : Visits(c, f) => c[f] = Blank[f]
Sent(c, field) == IF Visits(c, field) THEN <<<<field, c[field]>>>> ELSE <<>>
SentFrom(c) ==
  [k \in 1 .. Len(FieldOrder) |-> Sent(c, FieldOrder[k])]
Stream(c) == IF AllDefault(c) THEN <<>> ELSE FlattenSeq(SentFrom(c))

(* Bundle::Read.  The reader asks for the fields in the same order, and     *)
(* which it asks for depends on those it has; the name of an invalid enum   *)
(* in a stream is no field.                                                 *)
ReadField(r, field) ==
  IF ~r.ok \/ ~Visits(r.c, field) THEN r
  ELSE IF r.rest = <<>> \/ Head(r.rest)[1] # field
  THEN [r EXCEPT !.ok = FALSE]
  ELSE [c |-> [r.c EXCEPT ![field] = Head(r.rest)[2]], rest |-> Tail(r.rest),
        ok |-> field = "gamma" => ValidGamma(Head(r.rest)[2])]
ReadFields(c, s) ==
  LET read[k \in 0 .. Len(FieldOrder)] ==
        IF k = 0 THEN [ok |-> TRUE, c |-> c, rest |-> s]
        ELSE ReadField(read[k - 1], FieldOrder[k])
  IN  read[Len(FieldOrder)]
ReadEnded(r) ==
  CASE ~r.ok -> Failure(r.c)
    [] r.ok /\ r.c.want_icc -> Ok(r.c)
    [] r.ok /\ ~r.c.want_icc -> VisitFields(r.c)
Read(c, s) ==
  IF s = <<>> THEN Ok(SetDefault(c))
  ELSE ReadEnded(ReadFields(c, s))

-----------------------------------------------------------------------------
(* The calls.  The setters leave the profile to CreateICC, which "must be   *)
(* called after modifying fields".                                          *)
Init == enc = Fresh /\ dirty = FALSE /\ ops = 0

Become(c, stale) ==
  ops < MaxOps /\ ops' = ops + 1 /\ enc' = c /\ dirty' = stale
Stale(c) == dirty \/ c # enc
Assign(c) == enc.have_fields /\ Become(c, Stale(c))
Remake(r) == Become(r.c, FALSE)
\* A call that gives up on its way leaves the profile to the fields it has set.
Replace(r) == Become(r.c, ~r.ok /\ Stale(r.c))

AssignSpace == \E cs \in Spaces : Assign(SetColorSpace(enc, cs))
AssignWhite == \E xy \in Whites : Assign(SetWhitePoint(enc, xy).c)
AssignPrimaries ==
  HasPrimaries(enc) /\ \E rgb \in PrimarySets : Assign(SetPrimaries(enc, rgb).c)
AssignTransferFunction ==
  \E tf \in TransferFunctions : Assign(SetTransferFunction(enc, tf))
AssignGamma == \E gamma \in Gammas : Assign(SetGamma(enc, gamma).c)
AssignIntent == \E ri \in Intents : Assign([enc EXCEPT !.ri = ri])

MakeProfile == enc.have_fields /\ Remake(CreateICC(enc))
BecomeSRGB ==
  \E cs \in {"RGB", "Gray"}, ri \in Intents : Remake(SetSRGB(enc, cs, ri))
TakeProfile == \E file \in Profiles : Remake(SetICC(enc, file))
TakeRawProfile == \E file \in Profiles : Remake(SetICCRaw(enc, file))
Decide ==
  ~dirty /\ enc.have_fields /\ Become(DecideIfWantICC(enc), FALSE)
Import == \E e \in Externals : Replace(FromExternal(enc, e))
\* With want_icc the profile is still to come from the caller.
ReadHeader ==
  \E s \in Streams :
    LET r == Read(enc, s)
    IN  Become(r.c, IF r.ok THEN r.c.want_icc ELSE Stale(r.c))
\* Sizing an encoding that cannot be written aborts.
WriteHeader ==
  /\ Serializable(VisitFields(enc))
  /\ Become(VisitFields(enc).c, enc.want_icc /\ dirty)

Next == \/ AssignSpace \/ AssignWhite \/ AssignPrimaries \/ AssignTransferFunction
        \/ AssignGamma \/ AssignIntent \/ MakeProfile \/ BecomeSRGB
        \/ TakeProfile \/ TakeRawProfile \/ Decide \/ Import \/ ReadHeader
        \/ WriteHeader

-----------------------------------------------------------------------------
TypeOK ==
  /\ \A f \in DOMAIN FieldValues : enc[f] \in FieldValues[f]
  /\ enc.tfcs \in Spaces /\ enc.have_fields \in BOOLEAN /\ enc.cmyk \in BOOLEAN
  /\ enc.icc.kind \in {"none", "made", "file"}
  /\ enc.icc.kind = "file" => enc.icc.of \in Profiles
  /\ dirty \in BOOLEAN /\ ops \in 0 .. MaxOps

(* The profile is one the fields describe: made from them, or that of the   *)
(* file they were taken from.  That holds after every call, failed or not,  *)
(* unless a field has changed since the last profile was made, set or       *)
(* dropped, and only these calls change one and keep an older profile: a    *)
(* setter, whose caller has to call CreateICC; the conversion of a struct   *)
(* of the C API or of a line that gives up after its first field            *)
(* (color_encoding_internal.cc:612-646); and a read that gives up, or that  *)
(* says that a profile will follow.  A SetICC, SetSRGB or CreateICC that    *)
(* fails leaves no profile at all.  The profile that DecideIfWantICC gives  *)
(* up is equivalent to the one made from the fields, as it asserts          *)
(* (color_encoding_internal.h:238-265, .cc:418-424,                         *)
(* enc_color_management.cc:934).                                            *)
ProfileDescribesFields ==
  /\ ~dirty /\ enc.icc.kind = "made" => enc.icc.of = Signature(enc)
  /\ ~dirty /\ enc.icc.kind = "file" /\ enc.have_fields =>
       LET r == SetFieldsFromICC(enc, enc.icc.of)
       IN  r.ok /\ SameColorEncoding(r.c, enc) /\ r.c.ri = enc.ri
  /\ ~dirty /\ enc.have_fields /\ Decides(enc) => Equivalent(enc)

-----------------------------------------------------------------------------
(* The tolerance of ApproxEq applies to each number that is set again.      *)
CloseXy(a, b) == ApproxEq(a[1], b[1]) /\ ApproxEq(a[2], b[2])
CloseTf(a, b) ==
  \/ SameTf(a, b)
  \/ a.have_gamma /\ ~b.have_gamma /\ b.tf \in {"Linear", "DCI"}
CloseEncoding(a, b) ==
  /\ a.cs = b.cs /\ a.ri = b.ri /\ CloseTf(a, b)
  /\ CloseXy(GetWhitePoint(a), GetWhitePoint(b))
  /\ HasPrimaries(a) =>
       \A k \in 1 .. 3 : CloseXy(GetPrimaries(a)[k], GetPrimaries(b)[k])
Settable(xy) == xy[1] # 0 /\ xy[2] # 0 /\ Encodable(xy[1]) /\ Encodable(xy[2])
FieldsSettable(c) ==
  /\ c.have_fields /\ Settable(GetWhitePoint(c)) /\ (c.have_gamma => ValidGamma(c.gamma))
  /\ HasPrimaries(c) => \A k \in 1 .. 3 : Settable(GetPrimaries(c)[k])
ExternalReadsBack ==
  FieldsSettable(enc) =>
    LET r == FromExternal(Fresh, ToExternal(enc))
    IN  r.ok /\ CloseEncoding(enc, r.c)

(* The transfer function's copy of the color space is kept by every call    *)
(* but SetSRGB, FromExternal and the reader, which leave it at "RGB" or at  *)
(* what it was.  What is written then depends only on whether it is XYB.    *)
InSync(c) == (c.cs = "XYB") = (c.tfcs = "XYB")
SerializedReadsBack ==
  LET w == VisitFields(enc)
      r == Read(Fresh, Stream(w.c))
  IN  Serializable(w) /\ CoordinatesFit(w.c) /\ InSync(enc) =>
        /\ r.ok /\ r.c.want_icc = enc.want_icc /\ r.c.cs = enc.cs
        /\ ~enc.want_icc => /\ SameColorEncoding(r.c, enc) /\ r.c.ri = enc.ri
                            /\ r.c.icc = w.c.icc

-----------------------------------------------------------------------------
(* Lines of text: their tokens.                                             *)
Word(s) == [kind |-> "word", word |-> s]
Numbers(s) == [kind |-> "numbers", numbers |-> s]
GammaToken(n) == [kind |-> "gamma", gamma |-> n]
Tokens ==
  [kind : {"word"}, word : STRING] \cup [kind : {"numbers"}, numbers : Seq(Int) \ {<<>>}]
    \cup [kind : {"gamma"}, gamma : Int]
DescriptionAssumptions == EncodingAssumptions /\ Lines \subseteq Seq(Tokens) \ {<<>>}

-----------------------------------------------------------------------------
(* Description.                                                             *)
SpaceName == [RGB |-> "RGB", Gray |-> "Gra", XYB |-> "XYB", Unknown |-> "CS?"]
WhiteName == [D65 |-> "D65", Custom |-> "Cst", E |-> "EER", DCI |-> "DCI"]
PrimariesName ==
  [p \in {"SRGB", "2100", "P3", "Custom"} |->
     CASE p = "SRGB" -> "SRG" [] p = "2100" -> "202" [] p = "P3" -> "DCI"
       [] p = "Custom" -> "Cst"]
TfName ==
  [t \in {"SRGB", "Linear", "709", "PQ", "HLG", "DCI", "Unknown"} |->
     CASE t = "SRGB" -> "SRG" [] t = "Linear" -> "Lin" [] t = "PQ" -> "PeQ"
       [] t = "Unknown" -> "TF?" [] t \in {"709", "HLG", "DCI"} -> t]
IntentName == [Per |-> "Per", Rel |-> "Rel", Sat |-> "Sat", Abs |-> "Abs"]

\* %g keeps six significant digits.
Rounded(n, unit) == (((2 * n) + unit) \div (2 * unit)) * unit
Printed(n) == IF Abs(n) < 1000000 THEN n
              ELSE IF n < 0 THEN -Rounded(-n, 10) ELSE Rounded(n, 10)
PrintedGamma(n) == IF n < 1000000 THEN n ELSE Rounded(n, 10)

WhiteToken(c) ==
  IF c.wp = "Custom"
  THEN Numbers(<<Printed(GetWhitePoint(c)[1]), Printed(GetWhitePoint(c)[2])>>)
  ELSE Word(WhiteName[c.wp])
PrimariesToken(c) ==
  IF c.pr = "Custom"
  THEN Numbers(FlattenSeq([k \in 1 .. 3 |->
                 <<Printed(GetPrimaries(c)[k][1]), Printed(GetPrimaries(c)[k][2])>>]))
  ELSE Word(PrimariesName[c.pr])
TfToken(c) == IF c.have_gamma THEN GammaToken(PrintedGamma(c.gamma))
              ELSE Word(TfName[c.tf])

If(cond, token) == IF cond THEN <<token>> ELSE <<>>
Description(c) ==
  <<Word(SpaceName[c.cs])>> \o If(c.cs # "XYB", WhiteToken(c))
    \o If(HasPrimaries(c), PrimariesToken(c)) \o <<Word(IntentName[c.ri])>>
    \o If(c.tfcs # "XYB", TfToken(c))

-----------------------------------------------------------------------------
(* ParseDescription.  After its last token a Tokenizer starts again with    *)
(* the first.                                                               *)
Token(line, i) == line[((i - 1) % Len(line)) + 1]

Means(token, names) == token.kind = "word" /\ \E n \in DOMAIN names : names[n] = token.word
Meaning(token, names) == CHOOSE n \in DOMAIN names : names[n] = token.word

NoEncoding ==
  [cs |-> "RGB", wp |-> "none", white |-> <<0, 0>>, pr |-> "none",
   rgb |-> <<<<0, 0>>, <<0, 0>>, <<0, 0>>>>, tf |-> "none", gamma |-> 0,
   ri |-> "Per"]
Parsing(line) == [ok |-> TRUE, e |-> NoEncoding, line |-> line, next |-> 1]

ParseColorSpace(p, token) ==
  IF Means(token, SpaceName)
  THEN [p EXCEPT !.e.cs = Meaning(token, SpaceName), !.next = @ + 1]
  ELSE [p EXCEPT !.ok = FALSE]

ParseWhitePoint(p, token) ==
  CASE p.e.cs = "XYB" -> [p EXCEPT !.e.wp = "D65"]
    [] p.e.cs # "XYB" /\ Means(token, WhiteName) ->
         [p EXCEPT !.e.wp = Meaning(token, WhiteName), !.next = @ + 1]
    [] p.e.cs # "XYB" /\ token.kind = "numbers" ->
         [p EXCEPT !.e.wp = "Custom", !.next = @ + 1,
                   !.e.white = <<Token(token.numbers, 1), Token(token.numbers, 2)>>]
    [] OTHER -> [p EXCEPT !.e.wp = "Custom", !.ok = FALSE]

\* Six numbers are stored, and refused all the same.
ParsePrimaries(p, token) ==
  CASE p.e.cs \in {"Gray", "XYB"} -> p
    [] p.e.cs \notin {"Gray", "XYB"} /\ Means(token, PrimariesName) ->
         [p EXCEPT !.e.pr = Meaning(token, PrimariesName), !.next = @ + 1]
    [] p.e.cs \notin {"Gray", "XYB"} /\ token.kind = "numbers" ->
         [p EXCEPT !.ok = FALSE, !.e.pr = "Custom",
                   !.e.rgb = [k \in 1 .. 3 |-> <<Token(token.numbers, (2 * k) - 1),
                                                Token(token.numbers, 2 * k)>>]]
    [] OTHER -> [p EXCEPT !.ok = FALSE]

ParseRenderingIntent(p, token) ==
  IF Means(token, IntentName)
  THEN [p EXCEPT !.e.ri = Meaning(token, IntentName), !.next = @ + 1]
  ELSE [p EXCEPT !.ok = FALSE]

ParseTransferFunction(p, token) ==
  CASE p.e.cs = "XYB" -> [p EXCEPT !.e.tf = "Gamma", !.e.gamma = XybGamma]
    [] p.e.cs # "XYB" /\ Means(token, TfName) ->
         [p EXCEPT !.e.tf = Meaning(token, TfName), !.next = @ + 1]
    [] p.e.cs # "XYB" /\ token.kind = "gamma" ->
         [p EXCEPT !.e.tf = "Gamma", !.e.gamma = token.gamma, !.next = @ + 1]
    [] OTHER -> [p EXCEPT !.ok = FALSE]

\* Each part is parsed only when the ones before it were.
ParseDescription(line) ==
  LET Then(p, Parse(_, _)) == IF p.ok THEN Parse(p, Token(p.line, p.next)) ELSE p
  IN  Then(Then(Then(Then(Then(Parsing(line), ParseColorSpace), ParseWhitePoint),
                     ParsePrimaries), ParseRenderingIntent), ParseTransferFunction)

-----------------------------------------------------------------------------
(* ApplyColorHints, for a file that was found to be gray or not.  A hint is *)
(* a line, the content of an ICC file, or something unknown.                *)
ApplyHint(r, hint, gray) ==
  CASE ~r.ok \/ hint.key = "other" -> r
    [] r.ok /\ hint.key = "color_space" ->
         LET p == ParseDescription(hint.line)
         IN  IF ~p.ok THEN [r EXCEPT !.ok = FALSE]
             ELSE [r EXCEPT !.e = p.e, !.got = TRUE, !.ok = (gray = (p.e.cs = "Gray"))]
    [] r.ok /\ hint.key = "icc_pathname" -> [r EXCEPT !.icc = hint.file, !.got = TRUE]
AssumeSRGB(r, gray) ==
  IF ~r.ok \/ r.got THEN r
  ELSE [r EXCEPT !.e.cs = IF gray THEN "Gray" ELSE "RGB", !.e.wp = "D65",
                 !.e.pr = "SRGB", !.e.tf = "SRGB"]
ApplyColorHints(hints, already, gray) ==
  LET start == [ok |-> TRUE, got |-> FALSE, e |-> NoEncoding, icc |-> "none"]
      applied[k \in 0 .. Len(hints)] ==
        IF k = 0 THEN start ELSE ApplyHint(applied[k - 1], hints[k], gray)
  IN  IF already THEN start ELSE AssumeSRGB(applied[Len(hints)], gray)

-----------------------------------------------------------------------------
(* A description a caller types becomes the encoding.                       *)
TakeLine ==
  \E line \in Lines :
    LET p == ParseDescription(line)
    IN  IF p.ok THEN Replace(FromExternal(enc, p.e)) ELSE Become(enc, dirty)
NextWithText == Next \/ TakeLine

-----------------------------------------------------------------------------
PrintedAs(a, b) ==
  /\ a.cs = b.cs /\ a.ri = b.ri
  /\ a.cs # "XYB" => /\ CloseTf([a EXCEPT !.gamma = PrintedGamma(@)], b)
                     /\ CloseXy(GetWhitePoint(a), GetWhitePoint(b))
  /\ HasPrimaries(a) =>
       \A k \in 1 .. 3 : CloseXy(GetPrimaries(a)[k], GetPrimaries(b)[k])
ReadFromLine(c) ==
  LET p == ParseDescription(Description(c))
  IN  IF p.ok THEN FromExternal(Fresh, p.e) ELSE Failure(c)

(* "Verify ParseDescription(Description) yields the same ColorEncoding"     *)
(* (color_description_test.cc:14), for every encoding the accessors can     *)
(* make: it does not when the primaries are custom, and after SetSRGB has   *)
(* replaced an XYB encoding.                                                *)
DescriptionReadsBack ==
  FieldsSettable(enc) => ReadFromLine(enc).ok /\ PrintedAs(enc, ReadFromLine(enc).c)

(* Otherwise a description reads back, up to the digits that are printed.   *)
StandardReadsBack ==
  InSync(enc) /\ (HasPrimaries(enc) => enc.pr # "Custom") => DescriptionReadsBack

(* Whatever hints a caller gives, a file that did not say what its colors   *)
(* are ends up with a profile or a complete encoding as gray as the file    *)
(* is, which can be used unless its white point, its gamma or primaries     *)
(* that are only called custom cannot; and hints never override the file    *)
(* (color_hints.cc:15-63).                                                  *)
Usable(e) ==
  \/ FromExternal(Fresh, e).ok \/ e.wp = "Custom" \/ e.pr = "Custom"
  \/ e.tf = "Gamma" /\ ~ValidGamma(e.gamma)
HintOk(hints, gray) ==
  LET r == ApplyColorHints(hints, FALSE, gray)
  IN  /\ r.ok /\ r.icc = "none" =>
           /\ (r.e.cs = "Gray") = gray /\ r.e.wp # "none" /\ r.e.tf # "none"
           /\ Usable(r.e)
      /\ ApplyColorHints(hints, TRUE, gray).e = NoEncoding
HintsApply ==
  LET hints == {[key |-> "color_space", line |-> l] : l \in Lines}
                 \cup {[key |-> "icc_pathname", file |-> "file"], [key |-> "other"]}
  IN  ops = 0 =>
        \A gray \in BOOLEAN :
          /\ HintOk(<<>>, gray)
          /\ \A a \in hints : HintOk(<<a>>, gray) /\ \A b \in hints : HintOk(<<a, b>>, gray)

(* A color encoding survives the three forms it is passed on in: the struct *)
(* of the C API, the fields of a header, and a line of text, which also is  *)
(* what a hint gives.                                                       *)
EncodingReadsBack ==
  ExternalReadsBack /\ SerializedReadsBack /\ StandardReadsBack /\ HintsApply
=============================================================================
