------------------------------- MODULE Metric -------------------------------
(***************************************************************************)
(* ComputeSSIMULACRA2 and Msssim::Score (src/ssimulacra2.cc): the loop that *)
(* compares two image bundles at successively halved resolutions.           *)
(*                                                                          *)
(* Pixel arithmetic is abstracted to provenance.  The contents of an image  *)
(* buffer are a record that says which picture they come from and what has  *)
(* been done to it, so that a stale buffer, a skipped conversion or a swap  *)
(* of operands shows in the result.  Sizes are the real ones, because the   *)
(* code reuses five buffers across scales and several kernels check or      *)
(* silently rely on their operands having equal sizes.                      *)
(***************************************************************************)
EXTENDS Integers, Sequences

CONSTANTS NumScales,   \* kNumScales
          MinSide,     \* the smallest side that is still compared
          Unused       \* model value: a local variable out of scope

Assumptions == /\ NumScales \in Nat \ {0}
               /\ MinSide \in Nat \ {0}

VARIABLES mpc,           \* control point inside the call
          subject,       \* the two bundles and the background of this call
          scale,         \* the loop variable
          orig2, dist2,  \* working copies of the bundles
          img1, img2,    \* their XYB images, allocated once and shrunk
          mul,           \* scratch for pixel products, allocated once
          temp,          \* Blur::temp_, allocated once
          blurred,       \* the five blurred images of the current scale
          scales         \* Msssim::scales

metricVars == <<mpc, subject, scale, orig2, dist2, img1, img2, mul, temp,
                blurred, scales>>

NoBackground == "none"

Size(image) == <<image.w, image.h>>
\* Downsample rounds down.
Half_M(n) == n \div 2
Half(n) == (n + 1) \div 2

(* What an image buffer holds: the picture src, blended onto bg, halved     *)
(* `halved` times, converted to XYB if xyb, and rescaled by MakePositiveXYB *)
(* `positive` times.                                                        *)
Pixels(src, bg, halved, xyb, positive) ==
  [src |-> src, bg |-> bg, halved |-> halved, xyb |-> xyb,
   positive |-> positive]
Blank == Pixels("blank", NoBackground, 0, FALSE, 0)

Buffer(w, h, data) == [w |-> w, h |-> h, maxW |-> w, maxH |-> h, data |-> data]

(* Plane::ShrinkTo keeps the contents and the allocation.                   *)
Shrunk(buffer, w, h) == [buffer EXCEPT !.w = w, !.h = h]
Fits(buffer, w, h) == w <= buffer.maxW /\ h <= buffer.maxH

(* Downsample(in, 2, 2): both sides are rounded up.                         *)
Downsample(image) ==
  [w |-> Half(image.w), h |-> Half(image.h),
   data |-> [image.data EXCEPT !.halved = @ + 1]]

AlphaBlend(bundle, bg) ==
  [w |-> bundle.w, h |-> bundle.h,
   data |-> Pixels(bundle.src,
                   IF bundle.alpha THEN bg ELSE NoBackground, 0, FALSE, 0)]
(* ToXYB writes the whole of its output; its input must have the same size. *)
ToXYB(image) == [image.data EXCEPT !.xyb = TRUE]
MakePositiveXYB(data) == [data EXCEPT !.positive = @ + 1]

(* Multiply covers the area of its first operand.                           *)
Multiply(a, b) == <<a.data, b.data>>

-----------------------------------------------------------------------------
MetricIdle ==
  /\ mpc = "idle"
  /\ subject = Unused
  /\ scale = 0
  /\ orig2 = Unused /\ dist2 = Unused
  /\ img1 = Unused /\ img2 = Unused
  /\ mul = Unused /\ temp = Unused
  /\ blurred = [k \in {} |-> Unused]
  /\ scales = <<>>

(* Lines 421 to 449.  A bundle whose color encoding cannot be converted to  *)
(* linear sRGB aborts the process in JXL_CHECK, before ToXYB is reached.    *)
(* img2 takes the size of img1, so the second ToXYB aborts it when the      *)
(* bundles have different sizes.                                            *)
Converts(orig, dist) == orig.convertible /\ dist.convertible

\* The assertions are compiled out.
SameSizes_M(a, b) == TRUE
SameSizes(a, b) == Size(a) = Size(b)

Compute(orig, dist, bg) ==
  LET o == AlphaBlend(orig, bg)
      d == AlphaBlend(dist, bg)
      xyb(i) == MakePositiveXYB(ToXYB(i))
  IN  /\ mpc = "idle"
      /\ subject' = [orig |-> orig, dist |-> dist, bg |-> bg]
      /\ scale' = 0
      /\ orig2' = o
      /\ dist2' = d
      /\ img1' = Buffer(o.w, o.h, xyb(o))
      /\ img2' = Buffer(o.w, o.h, xyb(d))
      /\ mul' = Buffer(o.w, o.h, Blank)
      /\ temp' = Buffer(o.w, o.h, Blank)
      /\ blurred' = [k \in {} |-> Unused]
      /\ scales' = <<>>
      /\ mpc' = IF Converts(orig, dist) /\ SameSizes(o, d)
                THEN "loop" ELSE "aborted"

-----------------------------------------------------------------------------
TooSmall(image) == image.w < MinSide \/ image.h < MinSide

(* The loop condition and the break: the size that is tested is that of the *)
(* previous scale.                                                          *)
\* One iteration too many.
Another_M == scale <= NumScales /\ ~TooSmall(img1)
Another == scale < NumScales /\ ~TooSmall(img1)

EndLoop ==
  /\ mpc = "loop"
  /\ ~Another
  /\ mpc' = "done"
  /\ UNCHANGED <<subject, scale, orig2, dist2, img1, img2, mul, temp, blurred,
                 scales>>

(* Lines 455 to 466: from the second scale on, both pictures are halved and *)
(* converted again into the shrunk XYB buffers.                             *)
NextResolution(image) == IF scale = 0 THEN image ELSE Downsample(image)

\* Only the first conversion is followed by MakePositiveXYB.
Converted_M(buffer, image, like) ==
  IF scale = 0 THEN buffer
               ELSE [Shrunk(buffer, like.w, like.h)
                       EXCEPT !.data = ToXYB(image)]
Converted(buffer, image, like) ==
  IF scale = 0 THEN buffer
               ELSE [Shrunk(buffer, like.w, like.h)
                       EXCEPT !.data = MakePositiveXYB(ToXYB(image))]

\* The blur's buffer is not shrunk at every scale.
Scratch_M(buffer, w, h) == IF scale = 1 THEN buffer ELSE Shrunk(buffer, w, h)
Scratch(buffer, w, h) == Shrunk(buffer, w, h)

BeginScale ==
  LET o == NextResolution(orig2)
      d == NextResolution(dist2)
  IN  /\ mpc = "loop"
      /\ Another
      /\ orig2' = o
      /\ dist2' = d
      /\ img1' = Converted(img1, o, o)
      /\ img2' = Converted(img2, d, o)
      /\ mul' = Scratch(mul, o.w, o.h)
      /\ temp' = Scratch(temp, o.w, o.h)
      /\ blurred' = [k \in {} |-> Unused]
      /\ mpc' = IF /\ \A b \in {img1, img2, mul, temp} : Fits(b, o.w, o.h)
                   /\ SameSizes(d, img2')
                THEN "sigma1" ELSE "aborted"
      /\ UNCHANGED <<subject, scale, scales>>

(* Blur: the horizontal pass writes temp_ and checks that it has the size   *)
(* of its input; the result is a new image of that size.                    *)
BlurStep(in, name, next) ==
  /\ temp' = [temp EXCEPT !.data = Blank]
  /\ blurred' = [k \in DOMAIN blurred \cup {name} |->
                   IF k = name THEN [w |-> in.w, h |-> in.h, data |-> in.data]
                               ELSE blurred[k]]
  /\ mpc' = IF SameSizes(in, temp) THEN next ELSE "aborted"
  /\ UNCHANGED <<subject, scale, orig2, dist2, img1, img2, scales>>

(* Multiply into mul, then blur mul.                                        *)
Moment(a, b, name, next) ==
  /\ mul' = [mul EXCEPT !.data = Multiply(a, b)]
  /\ BlurStep(mul', name, next)

Sigma1Squared == mpc = "sigma1" /\ Moment(img1, img1, "sigma1_sq", "sigma2")
Sigma2Squared == mpc = "sigma2" /\ Moment(img2, img2, "sigma2_sq", "sigma12")
Sigma12 == mpc = "sigma12" /\ Moment(img1, img2, "sigma12", "mu1")
Mu1 == mpc = "mu1" /\ BlurStep(img1, "mu1", "mu2") /\ UNCHANGED mul
Mu2 == mpc = "mu2" /\ BlurStep(img2, "mu2", "maps") /\ UNCHANGED mul

(* SSIMMap and EdgeDiffMap walk the area of their first argument.           *)
SSIMMap(m1, m2, s11, s22, s12) ==
  [area |-> Size(m1), m1 |-> m1.data, m2 |-> m2.data,
   s11 |-> s11.data, s22 |-> s22.data, s12 |-> s12.data]
EdgeDiffMap(i1, m1, i2, m2) ==
  [area |-> Size(i1), img1 |-> i1.data, mu1 |-> m1.data,
   img2 |-> i2.data, mu2 |-> m2.data]

PushScale ==
  /\ mpc = "maps"
  /\ scales' =
       Append(scales,
         [ssim |-> SSIMMap(blurred["mu1"], blurred["mu2"],
                           blurred["sigma1_sq"], blurred["sigma2_sq"],
                           blurred["sigma12"]),
          edge |-> EdgeDiffMap(img1, blurred["mu1"], img2, blurred["mu2"])])
  /\ scale' = scale + 1
  /\ mpc' = "loop"
  /\ UNCHANGED <<subject, orig2, dist2, img1, img2, mul, temp, blurred>>

(* The caller takes the Msssim and lets the locals go.                      *)
Release ==
  /\ mpc = "done"
  /\ mpc' = "idle"
  /\ subject' = Unused
  /\ scale' = 0
  /\ orig2' = Unused /\ dist2' = Unused
  /\ img1' = Unused /\ img2' = Unused
  /\ mul' = Unused /\ temp' = Unused
  /\ blurred' = [k \in {} |-> Unused]
  /\ scales' = <<>>

MetricStep == \/ EndLoop \/ BeginScale
              \/ Sigma1Squared \/ Sigma2Squared \/ Sigma12
              \/ Mu1 \/ Mu2 \/ PushScale

-----------------------------------------------------------------------------
(* The result a call should have, computed from its arguments alone: a side *)
(* is halved once from each scale to the next.                              *)
Halved(n, k) ==
  LET side[i \in 0 .. NumScales] == IF i = 0 THEN n ELSE Half(side[i - 1])
  IN  side[k]

(* A picture blended and halved, and its conversion to XYB made positive.   *)
Blended(src, bg, k) == Pixels(src, bg, k, FALSE, 0)
Fresh(src, bg, k) == Pixels(src, bg, k, TRUE, 1)

HalvedSize(image, k) == <<Halved(image.w, k), Halved(image.h, k)>>
BackgroundOf(bundle, bg) == IF bundle.alpha THEN bg ELSE NoBackground

ScaleOf(s, k) ==
  LET o == Fresh("orig", BackgroundOf(s.orig, s.bg), k)
      d == Fresh("dist", BackgroundOf(s.dist, s.bg), k)
      area == HalvedSize(s.orig, k)
  IN  [ssim |-> [area |-> area, m1 |-> o, m2 |-> d, s11 |-> <<o, o>>,
                 s22 |-> <<d, d>>, s12 |-> <<o, d>>],
       edge |-> [area |-> area, img1 |-> o, mu1 |-> o,
                 img2 |-> d, mu2 |-> d]]

ExpectedScale(k) == ScaleOf(subject, k)

(* Each entry of Msssim::scales compares the two pictures of this call, at  *)
(* the resolution that belongs to its position, with every operand freshly  *)
(* converted: the five shared buffers never leak a previous scale, the      *)
(* other picture or another background into a result                        *)
(* (ComputeSSIMULACRA2, ssimulacra2.cc:451-486).                            *)
ScalesExact ==
  subject # Unused =>
    \A k \in 1 .. Len(scales) : scales[k] = ExpectedScale(k - 1)

(* The process is aborted only for bundles of different sizes, or for one   *)
(* that cannot be converted to linear sRGB (ssimulacra2.cc:438-441): no     *)
(* scale ever meets a buffer that is too small or has been left at the      *)
(* previous size (Plane::ShrinkTo, FastGaussianHorizontal, ToXYB).          *)
AbortsOnlyOnMismatch ==
  mpc = "aborted" =>
    \/ Size(subject.orig) # Size(subject.dist)
    \/ ~Converts(subject.orig, subject.dist)

-----------------------------------------------------------------------------
(***************************************************************************)
(* The inductive invariant of a call: everything in its buffers is the      *)
(* picture of this call at the resolution the loop is at.                   *)
(***************************************************************************)
InScale == mpc \in {"sigma1", "sigma2", "sigma12", "mu1", "mu2", "maps"}
InLoop == mpc = "loop" \/ InScale \/ mpc = "done"

(* How often the working copies have been halved.                           *)
Level == IF InScale \/ scale = 0 THEN scale ELSE scale - 1

SubjectOK ==
  /\ subject = [orig |-> subject.orig, dist |-> subject.dist, bg |-> subject.bg]
  /\ subject.orig.src = "orig" /\ subject.dist.src = "dist"
  /\ subject.orig.w \in Nat /\ subject.orig.h \in Nat

WorkingCopy(src, bundle) ==
  [w |-> Halved(subject.orig.w, Level), h |-> Halved(subject.orig.h, Level),
   data |-> Blended(src, BackgroundOf(bundle, subject.bg), Level)]
BufferWith(data) ==
  [w |-> Halved(subject.orig.w, Level), h |-> Halved(subject.orig.h, Level),
   maxW |-> subject.orig.w, maxH |-> subject.orig.h, data |-> data]
OrigPixels == Fresh("orig", BackgroundOf(subject.orig, subject.bg), Level)
DistPixels == Fresh("dist", BackgroundOf(subject.dist, subject.bg), Level)

BuffersInv ==
  /\ orig2 = WorkingCopy("orig", subject.orig)
  /\ dist2 = WorkingCopy("dist", subject.dist)
  /\ img1 = BufferWith(OrigPixels)
  /\ img2 = BufferWith(DistPixels)
  /\ mul = BufferWith(mul.data)
  /\ temp = BufferWith(temp.data)

(* The images blurred so far in this scale.                                 *)
HasBlurred(name, data) ==
  /\ name \in DOMAIN blurred
  /\ blurred[name] = [w |-> Halved(subject.orig.w, Level),
                      h |-> Halved(subject.orig.h, Level), data |-> data]
BlurredInv ==
  /\ mpc \in {"sigma2", "sigma12", "mu1", "mu2", "maps"} =>
       HasBlurred("sigma1_sq", <<OrigPixels, OrigPixels>>)
  /\ mpc \in {"sigma12", "mu1", "mu2", "maps"} =>
       HasBlurred("sigma2_sq", <<DistPixels, DistPixels>>)
  /\ mpc \in {"mu1", "mu2", "maps"} =>
       HasBlurred("sigma12", <<OrigPixels, DistPixels>>)
  /\ mpc \in {"mu2", "maps"} => HasBlurred("mu1", OrigPixels)
  /\ mpc = "maps" => HasBlurred("mu2", DistPixels)

(* Whether the loop goes on at its k-th test: the side it looks at is that  *)
(* of the resolution before.                                                *)
GoesOn(image, k) ==
  LET level == IF k = 0 THEN 0 ELSE k - 1
  IN  /\ k < NumScales
      /\ Halved(image.w, level) >= MinSide /\ Halved(image.h, level) >= MinSide

MetricInv ==
  /\ mpc = "idle" \/ InLoop \/ mpc = "aborted"
  /\ scale \in 0 .. NumScales
  /\ mpc = "idle" => scale = 0
  /\ scales = [k \in 1 .. scale |-> ExpectedScale(k - 1)]
  /\ mpc # "idle" => SubjectOK
  /\ AbortsOnlyOnMismatch
  /\ InLoop =>
       /\ Size(subject.orig) = Size(subject.dist)
       /\ BuffersInv
       /\ \A k \in 0 .. scale - 1 : GoesOn(subject.orig, k)
  /\ InScale => BlurredInv /\ GoesOn(subject.orig, scale)
  /\ mpc = "done" => ~GoesOn(subject.orig, scale)
=============================================================================
