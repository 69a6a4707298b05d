----------------------------- MODULE ColorTransform -----------------------------
(***************************************************************************)
(* Converting the pixels of an image bundle to another color space: what    *)
(* the metric does before it compares (src/ssimulacra2.cc:437-443), with    *)
(* TransformTo, TransformIfNeeded and ToXYB, and the conversion itself      *)
(* (enc_color_management.cc): the plan JxlCmsInit makes, and the rows that   *)
(* threads convert at the same time, each in buffers of its own.            *)
(*                                                                          *)
(* A row of pixels is what its numbers mean: which row they are of, in      *)
(* which space and with which curve, as light of the scene or of the        *)
(* display, and inks in units or percent.  A step that is given anything    *)
(* but what it expects makes nonsense of them.  The profiles are those that *)
(* describe the fields (ColorEncoding).                                     *)
(***************************************************************************)
EXTENDS Integers, FiniteSets

CONSTANTS Thread, Rows,
          Spaces,        \* white points and primaries; "709" is that of sRGB
          Curves

(* Images have rows.                                                        *)
Assumptions == Rows \in Nat \ {0}

VARIABLES c_current, desired, call,   \* what is asked for
          target,                     \* intensity: 300, 10000 or another
          metadataBlack, hasBlack,    \* the black channel: declared, there
          color,                      \* the pixels of the bundle or its store
          t,                          \* the JxlCms
          nextRow, row, step,         \* of the pool; of each thread
          buf_src, buf_dst,           \* of each thread
          ok, status, xyb

vars == <<c_current, desired, call, target, metadataBlack, hasBlack, color, t,
          nextRow, row, step, buf_src, buf_dst, ok, status, xyb>>

None == [kind |-> "none"]
Encoding(gray, space, tf, cmyk) ==
  [gray |-> gray, space |-> space, tf |-> tf, cmyk |-> cmyk]
LinearSRGB(gray) == Encoding(gray, "709", "Linear", FALSE)
(* A CMYK profile sets no field but the color space, so that the rest is    *)
(* what a new encoding has, and the curve is unknown.                       *)
CMYK == Encoding(FALSE, "709", "Unknown", TRUE)
Encodings ==
  [gray : BOOLEAN, space : Spaces, tf : Curves, cmyk : {FALSE}] \cup {CMYK}

SameColorSpace(a, b) == a.gray = b.gray /\ a.space = b.space
SameColorEncoding(a, b) == SameColorSpace(a, b) /\ a.tf = b.tf
IsSRGB(c) == c.space = "709" /\ c.tf = "SRGB"
Channels(c) == IF c.gray THEN 1 ELSE 3

-----------------------------------------------------------------------------
(* What numbers mean.                                                       *)
NearUnity == target = 300
LightOf(c) == IF c.tf = "HLG" /\ ~NearUnity THEN "scene" ELSE "display"
Meaning(c, y) ==
  [kind |-> "pixels", row |-> y, c |-> c, light |-> LightOf(c), percent |-> FALSE]
Nonsense(v) == [v EXCEPT !.kind = "nonsense"]
Decoded(v, tf) == IF v.c.tf = tf THEN [v EXCEPT !.c.tf = "Linear"] ELSE Nonsense(v)
Encoded(v, tf) == IF v.c.tf = "Linear" THEN [v EXCEPT !.c.tf = tf] ELSE Nonsense(v)

(* ApplyHlgOotf, with the luminances of the primaries of the HLG encoding.  *)
Lit(v, from, to) ==
  IF v.c.tf = "Linear" /\ v.light = from /\ SameColorSpace(v.c, t.hlg)
  THEN [v EXCEPT !.light = to] ELSE Nonsense(v)
ApplyHlgOotf(v, forward) ==
  IF NearUnity THEN v
  ELSE IF forward THEN Lit(v, "scene", "display") ELSE Lit(v, "display", "scene")

(* lcms reads its input by one profile and writes by the other; it takes    *)
(* inks in percent.                                                         *)
cmsDoTransform(v) ==
  IF v.c = t.profile_src /\ v.percent = t.profile_src.cmyk
  THEN [v EXCEPT !.c = t.profile_dst, !.percent = FALSE] ELSE Nonsense(v)

-----------------------------------------------------------------------------
(* The plan of a JxlCmsInit that succeeds (TransformRefused stands for the  *)
(* others).  A profile of the same color space with a linear curve is made: *)
(* the curve it replaces was recognised by making such a profile, so that   *)
(* only memory could be missing.  The code would then go on with the old    *)
(* profile if no OOTF is needed; that path is left out.                     *)
Linear(c) == [c EXCEPT !.tf = "Linear"]
\* The OOTF whenever HLG is involved, even on both sides.
AppliesOotf_M(src, dst) == src.tf = "HLG" \/ dst.tf = "HLG"
AppliesOotf(src, dst) == (src.tf = "HLG") # (dst.tf = "HLG")
Special(c, other, linear) ==
  c.tf \in {"PQ", "HLG"} \/ (c.tf = "SRGB" /\ linear /\ SameColorSpace(c, other))
Plan(src, dst, first, linear, last) ==
  [kind |-> "cms", src |-> src, dst |-> dst,
   apply_hlg_ootf |-> AppliesOotf(src, dst), hlg |-> IF src.tf = "HLG" THEN src ELSE dst,
   preprocess |-> IF first # src THEN src.tf ELSE "None",
   postprocess |-> IF last # dst THEN dst.tf ELSE "None",
   profile_src |-> first, profile_dst |-> last,
   skip_lcms |-> SameColorEncoding(src, dst) \/ SameColorEncoding(first, last),
   channels_src |-> IF src.cmyk THEN 4 ELSE Channels(src), channels_dst |-> Channels(dst)]
PlanTo(src, dst, first, linear) ==
  Plan(src, dst, first, linear,
       IF Special(dst, first, linear) THEN Linear(dst) ELSE dst)
PlanFrom(src, dst, first) ==
  PlanTo(src, dst, first, src.tf = "Linear" \/ first # src)
JxlCmsInit(src, dst) ==
  PlanFrom(src, dst, IF Special(src, dst, dst.tf = "Linear") THEN Linear(src) ELSE src)

(* DoColorSpaceTransform on the numbers of one row.                         *)
BeforeTransform(v) ==
  CASE t.preprocess = "None" -> v
    [] t.preprocess = "HLG" /\ t.apply_hlg_ootf -> ApplyHlgOotf(Decoded(v, "HLG"), TRUE)
    [] OTHER -> Decoded(v, t.preprocess)
InkPercent(v) ==
  IF t.channels_src = 4 /\ ~t.skip_lcms THEN [v EXCEPT !.percent = ~@] ELSE v
Transform(v) == IF t.skip_lcms THEN v ELSE cmsDoTransform(v)
AfterTransform(v) ==
  CASE t.postprocess = "None" -> v
    [] t.postprocess = "HLG" /\ t.apply_hlg_ootf -> Encoded(ApplyHlgOotf(v, FALSE), "HLG")
    [] OTHER -> Encoded(v, t.postprocess)
DoColorSpaceTransform(v) == AfterTransform(Transform(InkPercent(BeforeTransform(v))))

-----------------------------------------------------------------------------
NoRows == [th \in Thread |-> None]
(* The program converts only to encodings whose curves it knows.            *)
Init ==
  /\ c_current \in Encodings /\ call \in {"TransformTo", "ToXYB"}
  /\ desired \in {d \in Encodings : d.gray = c_current.gray}
  /\ call = "ToXYB" => desired = LinearSRGB(c_current.gray)
  /\ ~desired.cmyk => desired.tf # "Unknown"
  /\ target \in {255, 300, 10000}
  /\ metadataBlack \in BOOLEAN /\ hasBlack \in {FALSE, metadataBlack}
  /\ color = [y \in 0 .. Rows - 1 |-> Meaning(c_current, y)]
  /\ t = None /\ nextRow = 0 /\ row = [th \in Thread |-> 0]
  /\ step = [th \in Thread |-> "free"] /\ buf_src = NoRows /\ buf_dst = NoRows
  /\ ok = TRUE /\ status = "begin" /\ xyb = "none"

Asked == <<c_current, desired, call, target, metadataBlack, hasBlack>>
Threads == <<nextRow, row, step, buf_src, buf_dst, ok>>

(* ToXYB takes the pixels as they are if they are linear or sRGB; the       *)
(* general case copies them and converts the copy.                          *)
ToXYBDirectly ==
  /\ status = "begin" /\ call = "ToXYB"
  /\ SameColorEncoding(desired, c_current) \/ IsSRGB(c_current)
  /\ xyb' = IF SameColorEncoding(desired, c_current) THEN "Linear" ELSE "SRGB"
  /\ status' = "done"
  /\ UNCHANGED <<Asked, color, t, Threads>>

(* RunOnPool's init: the profiles are parsed and the buffers allocated.     *)
TransformInit ==
  /\ status = "begin" /\ ~desired.cmyk
  /\ call = "ToXYB" => ~SameColorEncoding(desired, c_current) /\ ~IsSRGB(c_current)
  /\ t' = JxlCmsInit(c_current, desired)
  /\ t'.channels_dst \in {t'.channels_src, t'.channels_src - 1}
  /\ status' = "running"
  /\ UNCHANGED <<Asked, color, Threads, xyb>>
(* Init fails: conversion to CMYK is not supported; a profile is not        *)
(* parsed, the luminances of HLG's primaries or the linear profile that the *)
(* OOTF needs are not to be had, or lcms makes no transform of the two      *)
(* profiles.  Which of them lcms and the profiles decide, for any encoding. *)
TransformRefused ==
  /\ status = "begin"
  /\ call = "ToXYB" => ~SameColorEncoding(desired, c_current) /\ ~IsSRGB(c_current)
  /\ status' = "failed"
  /\ UNCHANGED <<Asked, color, t, Threads, xyb>>

\* All threads work in the buffer of the first.
Buf_M(th) == CHOOSE a \in Thread : \A b \in Thread : a <= b
Buf(th) == th

(* A row is interleaved into the thread's buffer, a gray one read in place. *)
Interleave(th) ==
  /\ status = "running" /\ step[th] = "free" /\ nextRow < Rows
  /\ c_current.cmyk => metadataBlack /\ hasBlack
  /\ buf_src' = [buf_src EXCEPT ![Buf(th)] = color[nextRow]]
  /\ row' = [row EXCEPT ![th] = nextRow] /\ nextRow' = nextRow + 1
  /\ step' = [step EXCEPT ![th] = "run"]
  /\ UNCHANGED <<Asked, color, t, buf_dst, ok, status, xyb>>
\* No black channel: the row is given up.
InterleaveFails(th) ==
  /\ status = "running" /\ step[th] = "free" /\ nextRow < Rows
  /\ c_current.cmyk /\ ~metadataBlack
  /\ ok' = FALSE /\ nextRow' = nextRow + 1
  /\ UNCHANGED <<Asked, color, t, row, step, buf_src, buf_dst, status, xyb>>
\* black() asserts that the declared channel is there.
BlackAborts(th) ==
  /\ status = "running" /\ step[th] = "free" /\ nextRow < Rows
  /\ c_current.cmyk /\ metadataBlack /\ ~hasBlack
  /\ status' = "aborted"
  /\ UNCHANGED <<Asked, color, t, Threads, xyb>>

Source(th) == IF c_current.gray THEN color[row[th]] ELSE buf_src[Buf(th)]
RunRow(th) ==
  /\ status = "running" /\ step[th] = "run"
  /\ buf_src' = [buf_src EXCEPT ![Buf(th)] = BeforeTransform(Source(th))]
  /\ buf_dst' = [buf_dst EXCEPT ![Buf(th)] = DoColorSpaceTransform(Source(th))]
  /\ step' = [step EXCEPT ![th] = "copy"]
  /\ UNCHANGED <<Asked, color, t, nextRow, row, ok, status, xyb>>
Deinterleave(th) ==
  /\ status = "running" /\ step[th] = "copy"
  /\ color' = [color EXCEPT ![row[th]] = buf_dst[Buf(th)]]
  /\ step' = [step EXCEPT ![th] = "free"]
  /\ UNCHANGED <<Asked, t, nextRow, row, buf_src, buf_dst, ok, status, xyb>>

(* TransformTo records the new encoding only when every row succeeded; the  *)
(* callers in the metric and ToXYB check that it did.                       *)
Finish ==
  /\ status = "running" /\ nextRow = Rows /\ \A th \in Thread : step[th] = "free"
  /\ status' = IF ok THEN "done" ELSE "failed"
  /\ c_current' = IF ok THEN desired ELSE c_current
  /\ xyb' = IF call = "ToXYB" /\ ok THEN "Linear" ELSE xyb
  /\ UNCHANGED <<desired, call, target, metadataBlack, hasBlack, color, t, Threads>>

Next ==
  \/ ToXYBDirectly \/ TransformInit \/ TransformRefused \/ Finish
  \/ \E th \in Thread : \/ Interleave(th) \/ InterleaveFails(th) \/ BlackAborts(th)
                        \/ RunRow(th) \/ Deinterleave(th)

-----------------------------------------------------------------------------
LacksBlack == c_current.cmyk /\ ~(metadataBlack /\ hasBlack)

(* Every row of a converted bundle is that row of the original, converted   *)
(* exactly once, whatever the encodings, the path taken (curves undone and  *)
(* applied outside lcms, lcms skipped, HLG's change of light on one side)   *)
(* and the order the threads work in; the encoding the bundle declares is   *)
(* always that of its pixels, and what ToXYB is given as linear or sRGB is  *)
(* that.  A conversion that fails has converted nothing, though it works in *)
(* place: it was refused before the first row, or the image is CMYK without *)
(* its black channel, for which every row fails; no such image is ever      *)
(* converted (enc_color_management.cc:207-290, 950-1165,                    *)
(* enc_image_bundle.cc:27-152, enc_xyb.cc:202-279).                         *)
ConversionExact ==
  /\ status # "running" =>
       \A y \in 0 .. Rows - 1 :
         color[y] = Meaning(c_current, y)
  /\ status = "failed" => t = None \/ LacksBlack
  /\ status = "aborted" => LacksBlack
  /\ status = "done" =>
       /\ call = "TransformTo" => c_current = desired
       /\ t # None /\ t.src.cmyk => hasBlack
       /\ call = "ToXYB" => xyb = c_current.tf /\ c_current.space = "709"
=============================================================================
