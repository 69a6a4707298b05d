----------------------------- MODULE ProgramProofs -----------------------------
(***************************************************************************)
(* Proofs about Metric and Program, for every number of scales, smallest    *)
(* side, set of pictures and backgrounds, and any number of calls.          *)
(***************************************************************************)
EXTENDS Program, SequenceTheorems, WellFoundedInduction, TLAPS

(* A set of naturals has a least element: what is proved by induction below *)
(* is proved by looking at the least number it fails for.                   *)
LEMMA LeastNatural ==
  ASSUME NEW S, S \subseteq Nat, S # {}
  PROVE  \E m \in S : \A k \in S : m <= k
<1>1. PICK m \in S : \A k \in S : ~ (<<k, m>> \in OpToRel(<, Nat))
  BY NatLessThanWellFounded, WFMin
<1>2. \A k \in S : ~ (k < m)
  BY <1>1 DEF OpToRel
<1> QED
  BY <1>2

(* Halving rounds up, and does not grow.                                    *)
LEMMA HalfType == ASSUME NEW n \in Nat PROVE Half(n) \in Nat /\ Half(n) <= n
  BY DEF Half

(* The function by which Halved is defined exists.                          *)
LEMMA SidesExist ==
  ASSUME NEW n \in Nat, NEW m \in Nat
  PROVE  \E f : f = [i \in 0 .. m |-> IF i = 0 THEN n ELSE Half(f[i - 1])]
<1> DEFINE Sides(f, k) == f = [i \in 0 .. k |-> IF i = 0 THEN n ELSE Half(f[i - 1])]
           Bad == {k \in Nat : ~ \E f : Sides(f, k)}
<1>1. SUFFICES ASSUME Bad # {} PROVE FALSE
  BY <1>1
<1>2. PICK k \in Bad : \A j \in Bad : k <= j
  BY <1>1, LeastNatural
<1> HIDE DEF Bad
<1>3. CASE k = 0
  <2>1. Sides([i \in 0 .. 0 |-> n], 0)
    OBVIOUS
  <2> QED
    BY <1>2, <1>3, <2>1 DEF Bad
<1>4. CASE k # 0
  <2>1. k \in Nat /\ k - 1 \in Nat
    BY <1>2, <1>4 DEF Bad
  <2>2. k - 1 \notin Bad
    BY <1>2, <2>1
  <2>3. PICK g : Sides(g, k - 1)
    BY <2>1, <2>2 DEF Bad
  <2> DEFINE f == [i \in 0 .. k |-> IF i = k THEN Half(g[k - 1]) ELSE g[i]]
  <2>4. \A i \in 0 .. k : f[i] = IF i = 0 THEN n ELSE Half(f[i - 1])
    BY <1>4, <2>1, <2>3
  <2>5. Sides(f, k)
    BY <2>4
  <2> QED
    BY <1>2, <2>5 DEF Bad
<1> QED
  BY <1>3, <1>4

(* A side is halved once from each scale to the next.                       *)
LEMMA HalvedRecursion ==
  ASSUME NEW n \in Nat
  PROVE  /\ Halved(n, 0) = n
         /\ \A k \in 1 .. NumScales : Halved(n, k) = Half(Halved(n, k - 1))
<1> DEFINE side == CHOOSE f : f = [i \in 0 .. NumScales |->
                                     IF i = 0 THEN n ELSE Half(f[i - 1])]
<1>1. NumScales \in Nat
  BY ConstantsAssumption DEF Assumptions
<1>2. side = [i \in 0 .. NumScales |-> IF i = 0 THEN n ELSE Half(side[i - 1])]
  BY <1>1, SidesExist
<1>3. \A k \in 0 .. NumScales : Halved(n, k) = side[k]
  BY DEF Halved
<1> HIDE DEF side
<1> QED
  BY <1>1, <1>2, <1>3

(* No side grows.                                                           *)
LEMMA HalvedType ==
  ASSUME NEW n \in Nat, NEW k \in 0 .. NumScales
  PROVE  Halved(n, k) \in Nat /\ Halved(n, k) <= n
<1> DEFINE Bad == {j \in Nat : j <= NumScales /\ ~ (Halved(n, j) \in Nat /\ Halved(n, j) <= n)}
<1>1. SUFFICES ASSUME Bad # {} PROVE FALSE
  BY <1>1, ConstantsAssumption DEF Assumptions
<1>2. PICK j \in Bad : \A i \in Bad : j <= i
  BY <1>1, LeastNatural
<1>3. j # 0
  BY HalvedRecursion
<1>4. j - 1 \in Nat /\ j - 1 \notin Bad /\ j \in 1 .. NumScales
  BY <1>2, <1>3, ConstantsAssumption DEF Assumptions
<1>5. Halved(n, j - 1) \in Nat /\ Halved(n, j - 1) <= n
  BY <1>4, ConstantsAssumption DEF Assumptions
<1>6. Halved(n, j) = Half(Halved(n, j - 1))
  BY <1>4, HalvedRecursion
<1> QED
  BY <1>5, <1>6, HalfType

-------------------------------------------------------------------------------
(***************************************************************************)
(* The scale loop.                                                          *)
(***************************************************************************)
(* The resolutions the loop uses are among those that Halved describes.     *)
LEMMA LevelType ==
  ASSUME MetricInv
  PROVE  /\ scale \in Nat /\ NumScales \in Nat /\ NumScales > 0 /\ scale <= NumScales
         /\ Level \in 0 .. NumScales /\ Level <= scale
BY ConstantsAssumption DEF MetricInv, Level, Assumptions

(* What is converted afresh is in XYB, made positive once.                  *)
LEMMA SetXYB ==
  ASSUME NEW src, NEW bg, NEW k, NEW x, NEW y, NEW p
  PROVE  [[src |-> src, bg |-> bg, halved |-> k, xyb |-> x, positive |-> p] EXCEPT !.xyb = y]
           = [src |-> src, bg |-> bg, halved |-> k, xyb |-> y, positive |-> p]
OBVIOUS

LEMMA SetPositive ==
  ASSUME NEW src, NEW bg, NEW k, NEW x
  PROVE  MakePositiveXYB(Pixels(src, bg, k, x, 0)) = Pixels(src, bg, k, x, 1)
BY DEF MakePositiveXYB, Pixels

LEMMA FreshPixels ==
  ASSUME NEW src, NEW bg, NEW k, NEW w, NEW h
  PROVE  MakePositiveXYB(ToXYB([w |-> w, h |-> h, data |-> Blended(src, bg, k)]))
           = Fresh(src, bg, k)
<1> DEFINE P == Blended(src, bg, k)
           Becomes(x, y) ==
             [[src |-> src, bg |-> bg, halved |-> k, xyb |-> x, positive |-> 0] EXCEPT !.xyb = y]
               = [src |-> src, bg |-> bg, halved |-> k, xyb |-> y, positive |-> 0]
<1>1. ToXYB([w |-> w, h |-> h, data |-> P]) = [P EXCEPT !.xyb = TRUE]
  <2> HIDE DEF P
  <2> QED
    BY DEF ToXYB
<1>2. [P EXCEPT !.xyb = TRUE] = Pixels(src, bg, k, TRUE, 0)
  <2>1. \A x, y : Becomes(x, y)
    BY SetXYB
  <2> HIDE DEF Becomes
  <2>2. Becomes(FALSE, TRUE)
    BY <2>1, Zenon
  <2> QED
    BY <2>2, Zenon DEF Blended, Pixels, Becomes
<1>3. MakePositiveXYB(Pixels(src, bg, k, TRUE, 0)) = Fresh(src, bg, k)
  <2>1. \A x : MakePositiveXYB(Pixels(src, bg, k, x, 0)) = Pixels(src, bg, k, x, 1)
    BY SetPositive
  <2> QED
    BY <2>1, Zenon DEF Fresh
<1> QED
  BY <1>1, <1>2, <1>3, Zenon

(* A call that begins.                                                      *)
LEMMA ComputeKeeps ==
  ASSUME MetricInv, NEW orig, NEW dist, NEW bg, Compute(orig, dist, bg),
         orig.src = "orig", dist.src = "dist", orig.w \in Nat, orig.h \in Nat
  PROVE  MetricInv' /\ mpc' # "idle" /\ subject' = [orig |-> orig, dist |-> dist, bg |-> bg]
<1> USE DEF MetricInv, AbortsOnlyOnMismatch, InScale, InLoop, Level
<1>1. /\ subject' = [orig |-> orig, dist |-> dist, bg |-> bg] /\ scale' = 0 /\ scales' = <<>>
      /\ mpc' = IF Converts(orig, dist) /\ SameSizes(AlphaBlend(orig, bg), AlphaBlend(dist, bg))
                THEN "loop" ELSE "aborted"
  BY DEF Compute
<1>2. SameSizes(AlphaBlend(orig, bg), AlphaBlend(dist, bg)) <=> Size(orig) = Size(dist)
  BY DEF SameSizes, AlphaBlend, Size
<1>3. SubjectOK'
  BY <1>1 DEF SubjectOK
<1>4. Halved(orig.w, 0) = orig.w /\ Halved(orig.h, 0) = orig.h
  BY HalvedRecursion
<1>5. mpc' = "loop" => BuffersInv'
  <2> SUFFICES ASSUME mpc' = "loop" PROVE BuffersInv'
    OBVIOUS
  <2> DEFINE o == AlphaBlend(orig, bg)
             d == AlphaBlend(dist, bg)
  <2>1. Level' = 0 /\ Size(orig) = Size(dist)
    BY <1>1, <1>2
  <2>2. /\ o = [w |-> orig.w, h |-> orig.h,
                data |-> Blended("orig", BackgroundOf(orig, bg), 0)]
        /\ d = [w |-> orig.w, h |-> orig.h,
                data |-> Blended("dist", BackgroundOf(dist, bg), 0)]
    BY <2>1, Zenon DEF AlphaBlend, BackgroundOf, Size, Blended
  <2> HIDE DEF o, d
  <2>3. /\ MakePositiveXYB(ToXYB(o)) = Fresh("orig", BackgroundOf(orig, bg), 0)
        /\ MakePositiveXYB(ToXYB(d)) = Fresh("dist", BackgroundOf(dist, bg), 0)
    BY <2>2, FreshPixels
  <2>4. o.w = orig.w /\ o.h = orig.h
    BY <2>2
  <2>5. /\ orig2' = o /\ dist2' = d
        /\ img1' = Buffer(orig.w, orig.h, Fresh("orig", BackgroundOf(orig, bg), 0))
        /\ img2' = Buffer(orig.w, orig.h, Fresh("dist", BackgroundOf(dist, bg), 0))
        /\ mul' = Buffer(orig.w, orig.h, Blank) /\ temp' = Buffer(orig.w, orig.h, Blank)
    BY <2>3, <2>4 DEF Compute, o, d
  <2>6. /\ WorkingCopy("orig", subject.orig)' = o /\ WorkingCopy("dist", subject.dist)' = d
        /\ OrigPixels' = Fresh("orig", BackgroundOf(orig, bg), 0)
        /\ DistPixels' = Fresh("dist", BackgroundOf(dist, bg), 0)
    BY <1>1, <1>4, <2>1, <2>2 DEF WorkingCopy, OrigPixels, DistPixels
  <2> QED
    BY <1>1, <1>4, <2>1, <2>5, <2>6 DEF BuffersInv, BufferWith, Buffer
<1>6. scales' = [k \in 1 .. scale' |-> ExpectedScale(k - 1)']
  BY <1>1
<1> QED
  BY <1>1, <1>2, <1>3, <1>5, <1>6, ConstantsAssumption DEF Assumptions

(* Nothing running.                                                         *)
LEMMA IdleInv == MetricIdle => MetricInv
<1> SUFFICES ASSUME MetricIdle PROVE MetricInv
  OBVIOUS
<1>1. scales = [k \in 1 .. scale |-> ExpectedScale(k - 1)]
  BY DEF MetricIdle
<1> QED
  BY <1>1, ConstantsAssumption
     DEF MetricIdle, MetricInv, InLoop, InScale, AbortsOnlyOnMismatch, Assumptions

LEMMA ReleaseKeeps == Release => MetricInv'
<1>1. Release => MetricIdle'
  BY DEF Release, MetricIdle
<1>2. MetricIdle' => MetricInv'
  BY IdleInv, PTL
<1> QED
  BY <1>1, <1>2

(* What the unchanged part of the state determines.                         *)
LEMMA Framed ==
  ASSUME SubjectOK, subject' = subject, Level' = Level
  PROVE  /\ SubjectOK'
         /\ \A k : ExpectedScale(k)' = ExpectedScale(k)
         /\ \A src, b : WorkingCopy(src, b)' = WorkingCopy(src, b)
         /\ \A data : BufferWith(data)' = BufferWith(data)
         /\ OrigPixels' = OrigPixels /\ DistPixels' = DistPixels
         /\ \A k : GoesOn(subject.orig, k)' <=> GoesOn(subject.orig, k)
BY DEF SubjectOK, ExpectedScale, WorkingCopy, BufferWith, OrigPixels, DistPixels

(* The loop tests the size of the resolution before.                        *)
LEMMA LoopTest ==
  ASSUME MetricInv, mpc = "loop"
  PROVE  /\ Another <=> GoesOn(subject.orig, scale)
         /\ Level = IF scale = 0 THEN 0 ELSE scale - 1
<1>1. Level = IF scale = 0 THEN 0 ELSE scale - 1
  BY DEF Level, InScale
<1>2. img1.w = Halved(subject.orig.w, Level) /\ img1.h = Halved(subject.orig.h, Level)
  BY DEF MetricInv, InLoop, BuffersInv, BufferWith
<1>3. Halved(subject.orig.w, Level) \in Nat /\ Halved(subject.orig.h, Level) \in Nat
  BY LevelType, HalvedType DEF MetricInv, SubjectOK
<1>4. MinSide \in Nat
  BY ConstantsAssumption DEF Assumptions
<1> QED
  BY <1>1, <1>2, <1>3, <1>4 DEF Another, GoesOn, TooSmall

LEMMA EndLoopKeeps == MetricInv /\ EndLoop => MetricInv'
<1> SUFFICES ASSUME MetricInv, EndLoop PROVE MetricInv'
  OBVIOUS
<1>1. mpc = "loop" /\ mpc' = "done" /\ ~Another
  BY DEF EndLoop
<1>2. /\ subject' = subject /\ scale' = scale /\ scales' = scales /\ orig2' = orig2
      /\ dist2' = dist2 /\ img1' = img1 /\ img2' = img2 /\ mul' = mul /\ temp' = temp
  BY DEF EndLoop
<1>3. Level' = Level
  BY <1>1, <1>2 DEF Level, InScale
<1>4. SubjectOK
  BY <1>1 DEF MetricInv
<1>5. BuffersInv'
  BY <1>1, <1>2, <1>3, <1>4, Framed DEF MetricInv, InLoop, BuffersInv
<1>6. ~GoesOn(subject.orig, scale)
  BY <1>1, LoopTest
<1>7. scales' = [k \in 1 .. scale' |-> ExpectedScale(k - 1)']
  BY <1>2, <1>3, <1>4, Framed DEF MetricInv
<1> QED
  BY <1>1, <1>2, <1>3, <1>4, <1>5, <1>6, <1>7, Framed
     DEF MetricInv, InLoop, InScale, AbortsOnlyOnMismatch

(* The working copies at the resolution of the scale that begins.           *)
LEMMA NextWorkingCopy ==
  ASSUME MetricInv, mpc = "loop", Another, NEW src, NEW bundle, NEW image,
         image = WorkingCopy(src, bundle)
  PROVE  NextResolution(image)
           = [w |-> Halved(subject.orig.w, scale), h |-> Halved(subject.orig.h, scale),
              data |-> Blended(src, BackgroundOf(bundle, subject.bg), scale)]
<1> DEFINE pixels(k) == Blended(src, BackgroundOf(bundle, subject.bg), k)
<1>1. CASE scale = 0
  BY <1>1, LoopTest DEF NextResolution, WorkingCopy
<1>2. CASE scale # 0
  <2>1. scale \in 1 .. NumScales /\ Level = scale - 1
    BY <1>2, LoopTest, LevelType
  <2>2. /\ Half(Halved(subject.orig.w, Level)) = Halved(subject.orig.w, scale)
        /\ Half(Halved(subject.orig.h, Level)) = Halved(subject.orig.h, scale)
    BY <2>1, HalvedRecursion DEF MetricInv, SubjectOK
  <2>3. [pixels(scale - 1) EXCEPT !.halved = @ + 1] = pixels(scale)
    <3>1. \A b, x : [Pixels(src, b, scale - 1, x, 0) EXCEPT !.halved = @ + 1]
                      = Pixels(src, b, scale, x, 0)
      BY <2>1, LevelType DEF Pixels
    <3> QED
      BY <3>1, Zenon DEF Blended
  <2>4. /\ image.w = Halved(subject.orig.w, Level) /\ image.h = Halved(subject.orig.h, Level)
        /\ image.data = pixels(scale - 1)
    BY <2>1 DEF WorkingCopy
  <2> HIDE DEF pixels
  <2>5. Downsample(image) = [w |-> Halved(subject.orig.w, scale),
                             h |-> Halved(subject.orig.h, scale), data |-> pixels(scale)]
    BY <2>2, <2>3, <2>4 DEF Downsample
  <2> QED
    BY <1>2, <2>5 DEF NextResolution, pixels
<1> QED
  BY <1>1, <1>2

(* A reused buffer, shrunk, and with its contents converted again.          *)
LEMMA NextBuffer ==
  ASSUME NEW w, NEW h, NEW mw, NEW mh, NEW data, NEW nw, NEW nh, NEW new
  PROVE  LET b == [w |-> w, h |-> h, maxW |-> mw, maxH |-> mh, data |-> data]
         IN  /\ Shrunk(b, nw, nh) = [w |-> nw, h |-> nh, maxW |-> mw, maxH |-> mh, data |-> data]
             /\ [b EXCEPT !.data = new] = [w |-> w, h |-> h, maxW |-> mw, maxH |-> mh, data |-> new]
<1> DEFINE b == [w |-> w, h |-> h, maxW |-> mw, maxH |-> mh, data |-> data]
<1>1. Shrunk(b, nw, nh) = [[b EXCEPT !.w = nw] EXCEPT !.h = nh]
  BY DEF Shrunk
<1>2. [b EXCEPT !.w = nw] = [w |-> nw, h |-> h, maxW |-> mw, maxH |-> mh, data |-> data]
  OBVIOUS
<1>3. [[w |-> nw, h |-> h, maxW |-> mw, maxH |-> mh, data |-> data] EXCEPT !.h = nh]
        = [w |-> nw, h |-> nh, maxW |-> mw, maxH |-> mh, data |-> data]
  OBVIOUS
<1>4. [b EXCEPT !.data = new] = [w |-> w, h |-> h, maxW |-> mw, maxH |-> mh, data |-> new]
  OBVIOUS
<1> QED
  BY <1>1, <1>2, <1>3, <1>4

LEMMA NextConverted ==
  ASSUME MetricInv, mpc = "loop", NEW src, NEW bundle, NEW buffer, NEW image, NEW like,
         buffer = BufferWith(Fresh(src, BackgroundOf(bundle, subject.bg), Level)),
         image = [w |-> Halved(subject.orig.w, scale), h |-> Halved(subject.orig.h, scale),
                  data |-> Blended(src, BackgroundOf(bundle, subject.bg), scale)],
         like.w = Halved(subject.orig.w, scale), like.h = Halved(subject.orig.h, scale)
  PROVE  Converted(buffer, image, like)
           = [w |-> Halved(subject.orig.w, scale), h |-> Halved(subject.orig.h, scale),
              maxW |-> subject.orig.w, maxH |-> subject.orig.h,
              data |-> Fresh(src, BackgroundOf(bundle, subject.bg), scale)]
<1> DEFINE bg == BackgroundOf(bundle, subject.bg)
           fresh(k) == Fresh(src, bg, k)
<1>1. MakePositiveXYB(ToXYB(image)) = fresh(scale)
  BY FreshPixels
<1>2. buffer = BufferWith(fresh(Level))
  OBVIOUS
<1> HIDE DEF fresh
<1>3. CASE scale = 0
  BY <1>2, <1>3, LoopTest DEF Converted, BufferWith, fresh
<1>4. CASE scale # 0
  <2>1. Shrunk(buffer, like.w, like.h)
          = [w |-> Halved(subject.orig.w, scale), h |-> Halved(subject.orig.h, scale),
             maxW |-> subject.orig.w, maxH |-> subject.orig.h, data |-> fresh(Level)]
    BY <1>2, NextBuffer DEF BufferWith
  <2>2. Converted(buffer, image, like)
          = [Shrunk(buffer, like.w, like.h) EXCEPT !.data = fresh(scale)]
    BY <1>1, <1>4, Zenon DEF Converted
  <2>3. Converted(buffer, image, like)
          = [w |-> Halved(subject.orig.w, scale), h |-> Halved(subject.orig.h, scale),
             maxW |-> subject.orig.w, maxH |-> subject.orig.h, data |-> fresh(scale)]
    BY <2>1, <2>2, NextBuffer
  <2> QED
    BY <2>3 DEF fresh
<1> QED
  BY <1>3, <1>4

LEMMA BeginScaleKeeps == MetricInv /\ BeginScale => MetricInv'
<1> SUFFICES ASSUME MetricInv, BeginScale PROVE MetricInv'
  OBVIOUS
<1> DEFINE W == Halved(subject.orig.w, scale)
           H == Halved(subject.orig.h, scale)
           o == NextResolution(orig2)
           d == NextResolution(dist2)
           ob == BackgroundOf(subject.orig, subject.bg)
           db == BackgroundOf(subject.dist, subject.bg)
<1>1. mpc = "loop" /\ Another /\ SubjectOK /\ BuffersInv
  BY DEF BeginScale, MetricInv, InLoop
<1>2. /\ subject' = subject /\ scale' = scale /\ scales' = scales
      /\ orig2' = o /\ dist2' = d
      /\ img1' = Converted(img1, o, o) /\ img2' = Converted(img2, d, o)
      /\ mul' = Shrunk(mul, o.w, o.h) /\ temp' = Shrunk(temp, o.w, o.h)
      /\ mpc' = IF /\ \A b \in {img1, img2, mul, temp} : Fits(b, o.w, o.h)
                   /\ SameSizes(d, img2')
                THEN "sigma1" ELSE "aborted"
  BY DEF BeginScale, Scratch
<1>3. o = [w |-> W, h |-> H, data |-> Blended("orig", ob, scale)]
  BY <1>1, NextWorkingCopy DEF BuffersInv
<1>4. d = [w |-> W, h |-> H, data |-> Blended("dist", db, scale)]
  BY <1>1, NextWorkingCopy DEF BuffersInv
<1> HIDE DEF o, d
<1>5. /\ o.w = W /\ o.h = H /\ d.w = W /\ d.h = H
  BY <1>3, <1>4
<1>6. /\ img1 = BufferWith(Fresh("orig", BackgroundOf(subject.orig, subject.bg), Level))
       /\ img2 = BufferWith(Fresh("dist", BackgroundOf(subject.dist, subject.bg), Level))
  BY <1>1 DEF BuffersInv, OrigPixels, DistPixels
<1>7. img1' = [w |-> W, h |-> H, maxW |-> subject.orig.w, maxH |-> subject.orig.h,
               data |-> Fresh("orig", ob, scale)]
  BY <1>1, <1>2, <1>3, <1>5, <1>6, NextConverted
<1>8. img2' = [w |-> W, h |-> H, maxW |-> subject.orig.w, maxH |-> subject.orig.h,
               data |-> Fresh("dist", db, scale)]
  BY <1>1, <1>2, <1>4, <1>5, <1>6, NextConverted
<1>9. /\ mul' = [w |-> W, h |-> H, maxW |-> subject.orig.w, maxH |-> subject.orig.h,
                 data |-> mul.data]
      /\ temp' = [w |-> W, h |-> H, maxW |-> subject.orig.w, maxH |-> subject.orig.h,
                  data |-> temp.data]
  BY <1>1, <1>2, <1>5, NextBuffer DEF BuffersInv, BufferWith
<1>10. scale \in 0 .. NumScales
  BY LevelType
<1>11. W <= subject.orig.w /\ H <= subject.orig.h
  BY <1>1, <1>10, HalvedType DEF SubjectOK
<1>12. mpc' = "sigma1"
  <2>1. \A b \in {img1, img2, mul, temp} : b.maxW = subject.orig.w /\ b.maxH = subject.orig.h
    BY <1>1 DEF BuffersInv, BufferWith
  <2>2. \A b \in {img1, img2, mul, temp} : Fits(b, o.w, o.h)
    BY <1>5, <1>11, <2>1 DEF Fits
  <2>3. img2'.w = W /\ img2'.h = H
    BY <1>8
  <2>4. SameSizes(d, img2')
    BY <1>5, <2>3 DEF SameSizes, Size
  <2> QED
    BY <1>2, <2>2, <2>4
<1>13. Level' = scale
  BY <1>2, <1>12 DEF Level, InScale
<1>14. BuffersInv'
  <2>1. /\ WorkingCopy("orig", subject.orig)' = o /\ WorkingCopy("dist", subject.dist)' = d
    BY <1>2, <1>3, <1>4, <1>13 DEF WorkingCopy
  <2>2. \A data : BufferWith(data)'
                    = [w |-> W, h |-> H, maxW |-> subject.orig.w, maxH |-> subject.orig.h,
                       data |-> data]
    BY <1>2, <1>13 DEF BufferWith
  <2>3. /\ OrigPixels' = Fresh("orig", ob, scale)
        /\ DistPixels' = Fresh("dist", db, scale)
    BY <1>2, <1>13 DEF OrigPixels, DistPixels
  <2>4. img1' = BufferWith(OrigPixels)' /\ img2' = BufferWith(DistPixels)'
    BY <1>7, <1>8, <2>2, <2>3
  <2>5. mul' = BufferWith(mul.data)' /\ temp' = BufferWith(temp.data)'
    BY <1>9, <2>2
  <2> QED
    BY <1>2, <2>1, <2>4, <2>5 DEF BuffersInv
<1>15. GoesOn(subject.orig, scale)
  BY <1>1, LoopTest
<1>16. SubjectOK' /\ scales' = [k \in 1 .. scale' |-> ExpectedScale(k - 1)']
  BY <1>1, <1>2 DEF MetricInv, SubjectOK, ExpectedScale
<1>17. Size(subject.orig) = Size(subject.dist) /\ \A k \in 0 .. scale - 1 : GoesOn(subject.orig, k)
  BY <1>1 DEF MetricInv, InLoop
<1>18. BlurredInv'
  BY <1>12 DEF BlurredInv
<1> QED
  BY <1>2, <1>12, <1>14, <1>15, <1>16, <1>17, <1>18, LevelType
     DEF MetricInv, InLoop, InScale, AbortsOnlyOnMismatch

(* Blurring an image of the size of this scale.                             *)
LEMMA BlurEffect ==
  ASSUME MetricInv, InScale, NEW in, NEW name, NEW next, BlurStep(in, name, next),
         in.w = Halved(subject.orig.w, Level), in.h = Halved(subject.orig.h, Level),
         next \in {"sigma2", "sigma12", "mu1", "mu2", "maps"}
  PROVE  /\ mpc' = next /\ InScale' /\ Level' = Level
         /\ subject' = subject /\ scale' = scale
         /\ mul' = BufferWith(mul'.data) /\ BlurredInv' => MetricInv'
         /\ HasBlurred(name, in.data)'
         /\ \A n, data : n # name /\ HasBlurred(n, data) => HasBlurred(n, data)'
<1>1. /\ temp' = [temp EXCEPT !.data = Blank]
      /\ blurred' = [k \in DOMAIN blurred \cup {name} |->
                       IF k = name THEN [w |-> in.w, h |-> in.h, data |-> in.data]
                                   ELSE blurred[k]]
      /\ mpc' = IF SameSizes(in, temp) THEN next ELSE "aborted"
      /\ subject' = subject /\ scale' = scale /\ scales' = scales
      /\ orig2' = orig2 /\ dist2' = dist2 /\ img1' = img1 /\ img2' = img2
  BY DEF BlurStep
<1>2. SubjectOK /\ BuffersInv /\ InLoop
  BY DEF MetricInv, InLoop, InScale
<1>3. mpc' = next
  BY <1>1, <1>2 DEF BuffersInv, BufferWith, SameSizes, Size
<1>4. InScale' /\ Level' = Level
  BY <1>1, <1>3 DEF InScale, Level
<1>5. temp' = BufferWith(Blank)
  BY <1>1, <1>2, NextBuffer DEF BuffersInv, BufferWith
<1>6. HasBlurred(name, in.data)'
  BY <1>1, <1>4 DEF HasBlurred
<1>7. ASSUME NEW n, NEW data, n # name, HasBlurred(n, data)
      PROVE  HasBlurred(n, data)'
  BY <1>1, <1>4, <1>7 DEF HasBlurred
<1>8. ASSUME mul' = BufferWith(mul'.data), BlurredInv'
      PROVE  MetricInv'
  <2>1. temp'.data = Blank
    BY <1>5 DEF BufferWith
  <2>2. mul' = BufferWith(mul.data)' /\ temp' = BufferWith(temp.data)'
    BY <1>2, <1>1, <1>4, <1>5, <1>8, <2>1 DEF BufferWith
  <2>3. BuffersInv'
    BY <1>1, <1>2, <1>4, <2>2, Framed DEF BuffersInv
  <2>4. scales' = [k \in 1 .. scale' |-> ExpectedScale(k - 1)']
    BY <1>1, <1>2, <1>4, Framed DEF MetricInv
  <2> QED
    BY <1>1, <1>2, <1>3, <1>4, <1>8, <2>3, <2>4, Framed
       DEF MetricInv, InLoop, InScale, AbortsOnlyOnMismatch
<1> QED
  BY <1>1, <1>3, <1>4, <1>6, <1>7, <1>8

(* The five blurred images, one after the other.                            *)
LEMMA Sigma1SquaredKeeps ==
  MetricInv /\ Sigma1Squared => MetricInv' /\ mpc' # "idle" /\ subject' = subject
<1> SUFFICES ASSUME MetricInv, Sigma1Squared PROVE MetricInv' /\ mpc' # "idle" /\ subject' = subject
  OBVIOUS
<1>1. mpc = "sigma1" /\ InScale /\ SubjectOK /\ BuffersInv /\ BlurredInv
  BY DEF Sigma1Squared, MetricInv, InLoop, InScale
<1>2. PICK in : /\ in = [mul EXCEPT !.data = Multiply(img1, img1)]
                /\ mul' = in
  BY DEF Sigma1Squared, Moment
<1>3. BlurStep(in, "sigma1_sq", "sigma2")
  BY <1>2 DEF Sigma1Squared, Moment
<1>4. in = BufferWith(<<OrigPixels, OrigPixels>>)
  BY <1>1, <1>2, NextBuffer DEF BuffersInv, BufferWith, Multiply
<1>5. /\ in.w = Halved(subject.orig.w, Level) /\ in.h = Halved(subject.orig.h, Level)
      /\ in.data = <<OrigPixels, OrigPixels>>
  BY <1>4 DEF BufferWith
<1>6. /\ mpc' = "sigma2" /\ Level' = Level /\ subject' = subject /\ InScale'
      /\ mul' = BufferWith(mul'.data) /\ BlurredInv' => MetricInv'
      /\ HasBlurred("sigma1_sq", in.data)'
      /\ \A n, data : n # "sigma1_sq" /\ HasBlurred(n, data) => HasBlurred(n, data)'
  BY <1>1, <1>3, <1>5, BlurEffect
<1>7. mul' = BufferWith(mul'.data)
  BY <1>2, <1>4, <1>5
<1>8. OrigPixels' = OrigPixels /\ DistPixels' = DistPixels
  BY <1>1, <1>6, Framed
<1>9. BlurredInv'
  BY <1>1, <1>5, <1>6, <1>8 DEF BlurredInv
<1> QED
  BY <1>6, <1>7, <1>9

LEMMA Sigma2SquaredKeeps ==
  MetricInv /\ Sigma2Squared => MetricInv' /\ mpc' # "idle" /\ subject' = subject
<1> SUFFICES ASSUME MetricInv, Sigma2Squared PROVE MetricInv' /\ mpc' # "idle" /\ subject' = subject
  OBVIOUS
<1>1. mpc = "sigma2" /\ InScale /\ SubjectOK /\ BuffersInv /\ BlurredInv
  BY DEF Sigma2Squared, MetricInv, InLoop, InScale
<1>2. PICK in : /\ in = [mul EXCEPT !.data = Multiply(img2, img2)]
                /\ mul' = in
  BY DEF Sigma2Squared, Moment
<1>3. BlurStep(in, "sigma2_sq", "sigma12")
  BY <1>2 DEF Sigma2Squared, Moment
<1>4. in = BufferWith(<<DistPixels, DistPixels>>)
  BY <1>1, <1>2, NextBuffer DEF BuffersInv, BufferWith, Multiply
<1>5. /\ in.w = Halved(subject.orig.w, Level) /\ in.h = Halved(subject.orig.h, Level)
      /\ in.data = <<DistPixels, DistPixels>>
  BY <1>4 DEF BufferWith
<1>6. /\ mpc' = "sigma12" /\ Level' = Level /\ subject' = subject /\ InScale'
      /\ mul' = BufferWith(mul'.data) /\ BlurredInv' => MetricInv'
      /\ HasBlurred("sigma2_sq", in.data)'
      /\ \A n, data : n # "sigma2_sq" /\ HasBlurred(n, data) => HasBlurred(n, data)'
  BY <1>1, <1>3, <1>5, BlurEffect
<1>7. mul' = BufferWith(mul'.data)
  BY <1>2, <1>4, <1>5
<1>8. OrigPixels' = OrigPixels /\ DistPixels' = DistPixels
  BY <1>1, <1>6, Framed
<1>9. BlurredInv'
  BY <1>1, <1>5, <1>6, <1>8 DEF BlurredInv
<1> QED
  BY <1>6, <1>7, <1>9

LEMMA Sigma12Keeps == MetricInv /\ Sigma12 => MetricInv' /\ mpc' # "idle" /\ subject' = subject
<1> SUFFICES ASSUME MetricInv, Sigma12 PROVE MetricInv' /\ mpc' # "idle" /\ subject' = subject
  OBVIOUS
<1>1. mpc = "sigma12" /\ InScale /\ SubjectOK /\ BuffersInv /\ BlurredInv
  BY DEF Sigma12, MetricInv, InLoop, InScale
<1>2. PICK in : /\ in = [mul EXCEPT !.data = Multiply(img1, img2)]
                /\ mul' = in
  BY DEF Sigma12, Moment
<1>3. BlurStep(in, "sigma12", "mu1")
  BY <1>2 DEF Sigma12, Moment
<1>4. in = BufferWith(<<OrigPixels, DistPixels>>)
  BY <1>1, <1>2, NextBuffer DEF BuffersInv, BufferWith, Multiply
<1>5. /\ in.w = Halved(subject.orig.w, Level) /\ in.h = Halved(subject.orig.h, Level)
      /\ in.data = <<OrigPixels, DistPixels>>
  BY <1>4 DEF BufferWith
<1>6. /\ mpc' = "mu1" /\ Level' = Level /\ subject' = subject /\ InScale'
      /\ mul' = BufferWith(mul'.data) /\ BlurredInv' => MetricInv'
      /\ HasBlurred("sigma12", in.data)'
      /\ \A n, data : n # "sigma12" /\ HasBlurred(n, data) => HasBlurred(n, data)'
  BY <1>1, <1>3, <1>5, BlurEffect
<1>7. mul' = BufferWith(mul'.data)
  BY <1>2, <1>4, <1>5
<1>8. OrigPixels' = OrigPixels /\ DistPixels' = DistPixels
  BY <1>1, <1>6, Framed
<1>9. BlurredInv'
  BY <1>1, <1>5, <1>6, <1>8 DEF BlurredInv
<1> QED
  BY <1>6, <1>7, <1>9

LEMMA Mu1Keeps == MetricInv /\ Mu1 => MetricInv' /\ mpc' # "idle" /\ subject' = subject
<1> SUFFICES ASSUME MetricInv, Mu1 PROVE MetricInv' /\ mpc' # "idle" /\ subject' = subject
  OBVIOUS
<1>1. mpc = "mu1" /\ InScale /\ SubjectOK /\ BuffersInv /\ BlurredInv
  BY DEF Mu1, MetricInv, InLoop, InScale
<1>2. PICK in : in = img1
  OBVIOUS
<1>3. BlurStep(in, "mu1", "mu2") /\ mul' = mul
  BY <1>2 DEF Mu1
<1>4. in = BufferWith(OrigPixels)
  BY <1>1, <1>2 DEF BuffersInv
<1>5. /\ in.w = Halved(subject.orig.w, Level) /\ in.h = Halved(subject.orig.h, Level)
      /\ in.data = OrigPixels
  BY <1>4 DEF BufferWith
<1>6. /\ mpc' = "mu2" /\ Level' = Level /\ subject' = subject /\ InScale'
      /\ mul' = BufferWith(mul'.data) /\ BlurredInv' => MetricInv'
      /\ HasBlurred("mu1", in.data)'
      /\ \A n, data : n # "mu1" /\ HasBlurred(n, data) => HasBlurred(n, data)'
  BY <1>1, <1>3, <1>5, BlurEffect
<1>7. mul' = BufferWith(mul'.data)
  BY <1>1, <1>3, Zenon DEF BuffersInv
<1>8. OrigPixels' = OrigPixels /\ DistPixels' = DistPixels
  BY <1>1, <1>6, Framed
<1>9. BlurredInv'
  BY <1>1, <1>5, <1>6, <1>8 DEF BlurredInv
<1> QED
  BY <1>6, <1>7, <1>9

LEMMA Mu2Keeps == MetricInv /\ Mu2 => MetricInv' /\ mpc' # "idle" /\ subject' = subject
<1> SUFFICES ASSUME MetricInv, Mu2 PROVE MetricInv' /\ mpc' # "idle" /\ subject' = subject
  OBVIOUS
<1>1. mpc = "mu2" /\ InScale /\ SubjectOK /\ BuffersInv /\ BlurredInv
  BY DEF Mu2, MetricInv, InLoop, InScale
<1>2. PICK in : in = img2
  OBVIOUS
<1>3. BlurStep(in, "mu2", "maps") /\ mul' = mul
  BY <1>2 DEF Mu2
<1>4. in = BufferWith(DistPixels)
  BY <1>1, <1>2 DEF BuffersInv
<1>5. /\ in.w = Halved(subject.orig.w, Level) /\ in.h = Halved(subject.orig.h, Level)
      /\ in.data = DistPixels
  BY <1>4 DEF BufferWith
<1>6. /\ mpc' = "maps" /\ Level' = Level /\ subject' = subject /\ InScale'
      /\ mul' = BufferWith(mul'.data) /\ BlurredInv' => MetricInv'
      /\ HasBlurred("mu2", in.data)'
      /\ \A n, data : n # "mu2" /\ HasBlurred(n, data) => HasBlurred(n, data)'
  BY <1>1, <1>3, <1>5, BlurEffect
<1>7. mul' = BufferWith(mul'.data)
  BY <1>1, <1>3, Zenon DEF BuffersInv
<1>8. OrigPixels' = OrigPixels /\ DistPixels' = DistPixels
  BY <1>1, <1>6, Framed
<1>9. BlurredInv'
  BY <1>1, <1>5, <1>6, <1>8 DEF BlurredInv
<1> QED
  BY <1>6, <1>7, <1>9

(* The comparison pushed at the end of a scale is the one it should be.     *)
LEMMA PushedScale ==
  ASSUME MetricInv, mpc = "maps"
  PROVE  [ssim |-> SSIMMap(blurred["mu1"], blurred["mu2"], blurred["sigma1_sq"],
                           blurred["sigma2_sq"], blurred["sigma12"]),
          edge |-> EdgeDiffMap(img1, blurred["mu1"], img2, blurred["mu2"])]
            = ExpectedScale(scale)
<1>1. InScale /\ BuffersInv /\ BlurredInv
  BY DEF MetricInv, InLoop, InScale
<1>2. Level = scale
  BY <1>1 DEF Level
<1> DEFINE area == HalvedSize(subject.orig, scale)
<1>3. /\ Size(img1) = area /\ img1.data = OrigPixels /\ img2.data = DistPixels
  BY <1>1, <1>2 DEF BuffersInv, BufferWith, Size, HalvedSize
<1>4. /\ HasBlurred("mu1", OrigPixels) /\ HasBlurred("mu2", DistPixels)
      /\ HasBlurred("sigma1_sq", <<OrigPixels, OrigPixels>>)
      /\ HasBlurred("sigma2_sq", <<DistPixels, DistPixels>>)
      /\ HasBlurred("sigma12", <<OrigPixels, DistPixels>>)
  BY <1>1 DEF BlurredInv
<1>5. /\ blurred["mu1"].data = OrigPixels /\ blurred["mu2"].data = DistPixels
      /\ blurred["sigma1_sq"].data = <<OrigPixels, OrigPixels>>
      /\ blurred["sigma2_sq"].data = <<DistPixels, DistPixels>>
      /\ blurred["sigma12"].data = <<OrigPixels, DistPixels>>
  BY <1>4 DEF HasBlurred
<1>6. Size(blurred["mu1"]) = area
  BY <1>2, <1>4 DEF HasBlurred, Size, HalvedSize
<1>7. SSIMMap(blurred["mu1"], blurred["mu2"], blurred["sigma1_sq"],
              blurred["sigma2_sq"], blurred["sigma12"])
        = [area |-> area, m1 |-> OrigPixels, m2 |-> DistPixels,
           s11 |-> <<OrigPixels, OrigPixels>>, s22 |-> <<DistPixels, DistPixels>>,
           s12 |-> <<OrigPixels, DistPixels>>]
  BY <1>5, <1>6 DEF SSIMMap
<1>8. EdgeDiffMap(img1, blurred["mu1"], img2, blurred["mu2"])
        = [area |-> area, img1 |-> OrigPixels, mu1 |-> OrigPixels,
           img2 |-> DistPixels, mu2 |-> DistPixels]
  BY <1>3, <1>5 DEF EdgeDiffMap
<1>9. /\ OrigPixels = Fresh("orig", BackgroundOf(subject.orig, subject.bg), scale)
      /\ DistPixels = Fresh("dist", BackgroundOf(subject.dist, subject.bg), scale)
  BY <1>2 DEF OrigPixels, DistPixels
<1> QED
  BY <1>7, <1>8, <1>9 DEF ExpectedScale, ScaleOf

LEMMA PushScaleKeeps == MetricInv /\ PushScale => MetricInv'
<1> SUFFICES ASSUME MetricInv, PushScale PROVE MetricInv'
  OBVIOUS
<1>1. mpc = "maps" /\ mpc' = "loop" /\ scale' = scale + 1
  BY DEF PushScale
<1>2. /\ subject' = subject /\ orig2' = orig2 /\ dist2' = dist2
      /\ img1' = img1 /\ img2' = img2 /\ mul' = mul /\ temp' = temp
  BY DEF PushScale
<1>3. InScale /\ InLoop /\ SubjectOK /\ BuffersInv /\ GoesOn(subject.orig, scale)
  BY <1>1 DEF MetricInv, InLoop, InScale
<1>4. scale \in Nat /\ scale' \in 0 .. NumScales
  BY <1>1, <1>3, LevelType DEF GoesOn
<1>5. Level' = Level
  BY <1>1, <1>3, <1>4 DEF Level, InScale
<1>6. scales' = Append(scales, ExpectedScale(scale))
  BY <1>1, PushedScale DEF PushScale
<1>7. scales' = [k \in 1 .. scale' |-> ExpectedScale(k - 1)']
  <2> DEFINE S == {ExpectedScale(k) : k \in Nat}
  <2>1. scales = [k \in 1 .. scale |-> ExpectedScale(k - 1)]
    BY DEF MetricInv
  <2> HIDE DEF MetricInv
  <2>2. scales \in Seq(S) /\ Len(scales) = scale
    <3>1. \A k \in 1 .. scale : ExpectedScale(k - 1) \in S
      BY <1>4
    <3> HIDE DEF S
    <3> QED
      BY <1>4, <2>1, <3>1
  <2>3. ExpectedScale(scale) \in S
    BY <1>4
  <2> HIDE DEF S
  <2>4. /\ Append(scales, ExpectedScale(scale)) \in Seq(S)
        /\ Len(scales') = scale + 1
        /\ \A k \in 1 .. scale : scales'[k] = scales[k]
        /\ scales'[scale + 1] = ExpectedScale(scale)
    BY <1>6, <2>2, <2>3, AppendProperties
  <2>5. scales' = [k \in 1 .. scale + 1 |-> ExpectedScale(k - 1)]
    <3>1. scales' \in Seq(S)
      BY <1>6, <2>4
    <3>2. DOMAIN scales' = 1 .. scale + 1
      BY <2>4, <3>1, LenProperties
    <3>3. \A k \in 1 .. scale + 1 : scales'[k] = ExpectedScale(k - 1)
      BY <1>4, <2>1, <2>4
    <3>4. scales' = [k \in DOMAIN scales' |-> scales'[k]]
      BY <3>1
    <3> QED
      BY <3>2, <3>3, <3>4
  <2> QED
    BY <1>1, <1>2, <2>5 DEF ExpectedScale
<1>8. BuffersInv'
  BY <1>2, <1>3, <1>5, Framed DEF BuffersInv
<1>9. \A k \in 0 .. scale' - 1 : GoesOn(subject.orig, k)'
  BY <1>1, <1>2, <1>3, <1>4, <1>5, Framed DEF MetricInv
<1> QED
  BY <1>1, <1>2, <1>3, <1>4, <1>5, <1>7, <1>8, <1>9, Framed
     DEF MetricInv, InLoop, InScale, AbortsOnlyOnMismatch

(* Every step inside a call.                                                *)
LEMMA MetricStepKeeps ==
  ASSUME MetricInv, MetricStep
  PROVE  MetricInv' /\ mpc' # "idle" /\ subject' = subject
<1>1. CASE EndLoop
  BY <1>1, EndLoopKeeps DEF EndLoop
<1>2. CASE BeginScale
  BY <1>2, BeginScaleKeeps DEF BeginScale
<1>3. CASE PushScale
  BY <1>3, PushScaleKeeps DEF PushScale
<1>4. CASE Sigma1Squared
  BY <1>4, Sigma1SquaredKeeps
<1>5. CASE Sigma2Squared
  BY <1>5, Sigma2SquaredKeeps
<1>6. CASE Sigma12
  BY <1>6, Sigma12Keeps
<1>7. CASE Mu1
  BY <1>7, Mu1Keeps
<1>8. CASE Mu2
  BY <1>8, Mu2Keeps
<1> QED
  BY <1>1, <1>2, <1>3, <1>4, <1>5, <1>6, <1>7, <1>8 DEF MetricStep

LEMMA StutterKeeps == MetricInv /\ UNCHANGED metricVars => MetricInv'
BY DEF metricVars, MetricInv, InLoop, InScale, AbortsOnlyOnMismatch, BuffersInv, BlurredInv,
       SubjectOK, HasBlurred, WorkingCopy, BufferWith, OrigPixels, DistPixels, ExpectedScale,
       Level

(* What a finished call returns.                                            *)
LEMMA DoneIsExact ==
  ASSUME MetricInv, mpc = "done"
  PROVE  /\ Size(subject.orig) = Size(subject.dist)
         /\ scale \in 0 .. NumScales
         /\ scales = [k \in 1 .. scale |-> ScaleOf(subject, k - 1)]
         /\ ~GoesOn(subject.orig, scale)
         /\ \A k \in 0 .. scale - 1 : GoesOn(subject.orig, k)
BY DEF MetricInv, InLoop, ExpectedScale

-------------------------------------------------------------------------------
(***************************************************************************)
(* The calls.                                                               *)
(***************************************************************************)
(* The loop stops at one scale only: the number of scales is determined.    *)
LEMMA OneScaleCount ==
  ASSUME NEW image, NEW n \in 0 .. NumScales,
         ~GoesOn(image, n), \A k \in 0 .. n - 1 : GoesOn(image, k)
  PROVE  n = ScaleCount(image)
<1>1. NumScales \in Nat
  BY ConstantsAssumption DEF Assumptions
<1> DEFINE Stops(m) == ~GoesOn(image, m) /\ \A k \in 0 .. m - 1 : GoesOn(image, k)
<1>2. \A m \in 0 .. NumScales : Stops(m) => m = n
  <2> SUFFICES ASSUME NEW m \in 0 .. NumScales, Stops(m) PROVE m = n
    OBVIOUS
  <2>1. m < n => m \in 0 .. n - 1
    BY <1>1
  <2>2. n < m => n \in 0 .. m - 1
    BY <1>1
  <2> HIDE DEF GoesOn
  <2> QED
    BY <1>1, <2>1, <2>2
<1>3. Stops(n)
  OBVIOUS
<1> HIDE DEF Stops
<1>4. (CHOOSE m \in 0 .. NumScales : Stops(m)) = n
  BY <1>2, <1>3
<1> QED
  BY <1>4 DEF ScaleCount, Stops

(* The frame a picture is represented by is one of its frames.              *)
LEMMA MainType ==
  ASSUME NEW p \in Pictures, p.status = "ok", NEW src
  PROVE  /\ Main(p, src).src = src /\ Main(p, src).alpha = p.alpha
         /\ Main(p, src).w \in Nat /\ Main(p, src).h \in Nat
<1> DEFINE shown == {i \in DOMAIN p.frames : p.frames[i].duration > 0}
           F == [w : Nat, h : Nat, duration : Nat]
<1>1. p.frames \in Seq(F) /\ p.frames # <<>>
  BY PicturesAssumption
<1>2. DOMAIN p.frames = 1 .. Len(p.frames) /\ Len(p.frames) \in Nat \ {0}
  BY <1>1
<1>3. LastStillFrame(p) \in DOMAIN p.frames
  <2>1. CASE shown = {}
    BY <1>2, <2>1 DEF LastStillFrame
  <2>2. CASE shown # {}
    <3>1. shown \subseteq Nat
      BY <1>2
    <3>2. \E i \in shown : \A j \in shown : i <= j
      BY <2>2, <3>1, LeastNatural
    <3>3. (CHOOSE i \in shown : \A j \in shown : i <= j) \in shown
      <4> HIDE DEF shown
      <4> QED
        BY <3>2
    <3>4. LastStillFrame(p) \in shown
      BY <2>2, <3>3 DEF LastStillFrame
    <3> QED
      BY <3>4
  <2> QED
    BY <2>1, <2>2
<1>4. p.frames[LastStillFrame(p)] \in F
  BY <1>1, <1>2, <1>3, ElementOfSeq
<1> QED
  BY <1>4 DEF Main

(* What depends on the two pictures only.                                   *)
LEMMA FilesFramed ==
  ASSUME files' = files
  PROVE  /\ Comparable' <=> Comparable
         /\ SameFrames' <=> SameFrames
         /\ \A c : Backdrops(c)' = Backdrops(c)
         /\ \A bg : PassOn(bg)' = PassOn(bg)
         /\ \A bg : SubjectFor(bg)' = SubjectFor(bg)
         /\ \A r : Justified(r)' <=> Justified(r)
BY DEF Comparable, SameFrames, Backdrops, PassOn, SubjectFor, Justified, PassesOf

LEMMA FileTypes ==
  ASSUME ProgramInv
  PROVE  /\ files[1] \in Pictures /\ files[2] \in Pictures
         /\ \A i \in 1 .. 2 : files[i].status \in {"ok", "missing", "undecodable", "throws"}
BY PicturesAssumption DEF ProgramInv

(* The passes of a call: one, or two.                                       *)
LEMMA BackdropsType ==
  ASSUME NEW c
  PROVE  /\ DOMAIN Backdrops(c) = 1 .. Len(Backdrops(c))
         /\ Len(Backdrops(c)) \in 1 .. 2
         /\ Backdrops(c) \in Seq({"0.1", "0.5", "0.9", c.bg})
<1>1. Backdrops(c) \in {<<"0.1", "0.9">>, <<"0.5">>, <<c.bg>>}
  BY DEF Backdrops, PassesFor
<1>2. CASE Backdrops(c) = <<"0.1", "0.9">>
  BY <1>2
<1>3. CASE Backdrops(c) = <<"0.5">>
  BY <1>3
<1>4. CASE Backdrops(c) = <<c.bg>>
  BY <1>4
<1> QED
  BY <1>1, <1>2, <1>3, <1>4

(* A call that returns adds one entry to the log.                           *)
LEMMA LogGrows ==
  ASSUME LogInv, files' = files, NEW r, log' = Append(log, r), Justified(r)
  PROVE  LogInv'
<1> DEFINE S == {log[i] : i \in DOMAIN log} \cup {r}
<1>1. log \in Seq(S) /\ Len(log) \in Nat /\ DOMAIN log = 1 .. Len(log)
  BY LenProperties DEF LogInv
<1>2. /\ log' \in Seq(S) /\ Len(log') = Len(log) + 1
      /\ \A i \in 1 .. Len(log) : log'[i] = log[i]
      /\ log'[Len(log) + 1] = r
  <2> r \in S
    OBVIOUS
  <2> HIDE DEF S
  <2> QED
    BY <1>1, AppendProperties
<1> HIDE DEF S
<1>3. DOMAIN log' = 1 .. Len(log) + 1
  BY <1>2, LenProperties
<1>4. \A i \in DOMAIN log' : Justified(log'[i])
  BY <1>1, <1>2, <1>3 DEF LogInv
<1>5. log' \in Seq({log'[i] : i \in DOMAIN log'})
  BY <1>2, <1>3
<1> QED
  BY <1>4, <1>5, FilesFramed DEF LogInv

LEMMA LogStays == LogInv /\ files' = files /\ log' = log => LogInv'
BY FilesFramed DEF LogInv

(* Returning, with a score or without one.                                  *)
LEMMA ReportKeeps ==
  ASSUME ProgramInv, mpc' = "idle", files' = files,
         NEW result, NEW kind, NEW passes, Report(result, kind, passes),
         Justified([entry |-> call.entry, bg |-> call.bg,
                    result |-> result, kind |-> kind, passes |-> passes])
  PROVE  ProgramInv'
<1>1. LogInv'
  BY LogGrows DEF Report, ProgramInv
<1> QED
  BY <1>1 DEF Report, ProgramInv, CallInv, LoadedInv, PassesInv

LEMMA FailKeeps ==
  ASSUME ProgramInv, mpc = "idle", UNCHANGED <<metricVars, files>>,
         NEW code, Fail(code), call.entry \in Plain => ~Comparable
  PROVE  ProgramInv'
<1>1. PICK result : Report(result, "no_score", <<>>)
  BY DEF Fail
<1>2. Justified([entry |-> call.entry, bg |-> call.bg,
                 result |-> result, kind |-> "no_score", passes |-> <<>>])
  BY DEF Justified
<1> QED
  BY <1>1, <1>2, ReportKeeps DEF metricVars

LEMMA DieKeeps ==
  ASSUME ProgramInv, files' = files, Die
  PROVE  ProgramInv'
<1>1. LogInv'
  BY LogStays DEF Die, ProgramInv
<1> QED
  BY <1>1 DEF Die, ProgramInv, CallInv, LoadedInv, PassesInv

LEMMA BeginKeeps ==
  ASSUME ProgramInv, NEW entry, NEW bg, Begin(entry, bg),
         entry \in Plain => bg = NoBackground
  PROVE  ProgramInv'
<1>1. LogInv'
  BY LogStays DEF Begin, ProgramInv
<1> QED
  BY <1>1 DEF Begin, metricVars, ProgramInv, CallInv, LoadedInv, PassesInv

LEMMA CheckArgumentsKeeps == ProgramInv /\ CheckArguments => ProgramInv'
<1> SUFFICES ASSUME ProgramInv, CheckArguments PROVE ProgramInv'
  OBVIOUS
<1>1. ppc = "check" /\ mpc = "idle" /\ UNCHANGED <<metricVars, files>>
  BY DEF CheckArguments, ProgramInv
<1>2. CASE InvalidInput(call.entry, call.bg) /\ Fail("INVALID_INPUT")
  <2>1. call.entry \in Plain => \E i \in 1 .. 2 : files[i].status = "missing"
    BY <1>1, <1>2 DEF InvalidInput, ProgramInv, CallInv, NoBackground, OutOfRange
  <2>2. call.entry \in Plain => ~Comparable
    BY <2>1 DEF Comparable
  <2> QED
    BY <1>1, <1>2, <2>2, FailKeeps
<1>3. CASE /\ ~InvalidInput(call.entry, call.bg)
           /\ ppc' = "load1"
           /\ UNCHANGED <<call, io1, io2, pending, scored, log>>
  <2>1. LogInv'
    BY <1>1, <1>3, LogStays DEF ProgramInv
  <2>2. ~InvalidInput(call.entry, call.bg)'
    BY <1>1, <1>3 DEF InvalidInput
  <2> QED
    BY <1>1, <1>3, <2>1, <2>2 DEF metricVars, ProgramInv, CallInv, LoadedInv, PassesInv
<1> QED
  BY <1>2, <1>3 DEF CheckArguments

(* The outcomes of loading a picture.                                       *)
LEMMA LoadOutcome ==
  ASSUME ProgramInv, ppc \in {"load1", "load2"}, NEW i \in 1 .. 2, NEW next, Load(i, next),
         i = 2 => ~CanvasTooSmall(files[1])
  PROVE  \/ Die
         \/ \E code : Fail(code) /\ (call.entry \in Plain => ~Comparable)
         \/ next /\ files[i].status = "ok" /\ (i = 1 => ~CanvasTooSmall(files[i]))
<1>1. files[i].status \in {"ok", "missing", "undecodable", "throws"}
  BY FileTypes
<1>2. i = 2 /\ CanvasTooSmall(files[2]) => ~Comparable
  BY DEF Comparable, CanvasTooSmall, Size
<1>3. CASE call.entry = "cli"
  <2>1. LoadByTool(i, next)
    BY <1>3 DEF Load
  <2> QED
    BY <1>1, <1>2, <2>1 DEF LoadByTool, Comparable
<1>4. CASE call.entry # "cli"
  <2>1. LoadByApi(i, next)
    BY <1>4 DEF Load
  <2>2. call.entry \in FromMemory => files[i].status # "missing"
    BY DEF ProgramInv, CallInv, InvalidInput
  <2>3. LoadImage(call.entry, files[i]) = "OK"
          => files[i].status = "ok" /\ ~CanvasTooSmall(files[i])
    BY <1>1, <2>2 DEF LoadImage, LoadImageFromFile, LoadImageFromMemory
  <2>4. LoadImage(call.entry, files[i]) # "OK" => ~Comparable
    BY <1>1, <1>2, <2>2 DEF LoadImage, LoadImageFromFile, LoadImageFromMemory, Comparable
  <2> QED
    BY <2>1, <2>3, <2>4 DEF LoadByApi
<1> QED
  BY <1>3, <1>4

LEMMA LoadOriginalKeeps == ProgramInv /\ LoadOriginal => ProgramInv'
<1> SUFFICES ASSUME ProgramInv, LoadOriginal PROVE ProgramInv'
  OBVIOUS
<1> DEFINE next == /\ io1' = files[1]
                   /\ ppc' = "load2"
                   /\ UNCHANGED <<call, io2, pending, scored, log>>
<1>1. ppc = "load1" /\ mpc = "idle" /\ UNCHANGED <<metricVars, files>> /\ Load(1, next)
  BY DEF LoadOriginal, Load, ProgramInv
<1>2. \/ Die
      \/ \E code : Fail(code) /\ (call.entry \in Plain => ~Comparable)
      \/ next /\ files[1].status = "ok" /\ ~CanvasTooSmall(files[1])
  <2> HIDE DEF next
  <2> QED
    BY <1>1, LoadOutcome
<1>3. CASE Die
  BY <1>1, <1>3, DieKeeps
<1>4. CASE \E code : Fail(code) /\ (call.entry \in Plain => ~Comparable)
  BY <1>1, <1>4, FailKeeps
<1>5. CASE next /\ files[1].status = "ok" /\ ~CanvasTooSmall(files[1])
  <2>1. LogInv'
    BY <1>1, <1>5, LogStays DEF ProgramInv
  <2>2. InvalidInput(call.entry, call.bg)' <=> InvalidInput(call.entry, call.bg)
    BY <1>1, <1>5 DEF InvalidInput
  <2>3. ~CanvasTooSmall(files[1])'
    BY <1>1, <1>5 DEF CanvasTooSmall
  <2> QED
    BY <1>1, <1>5, <2>1, <2>2, <2>3 DEF metricVars, ProgramInv, CallInv, LoadedInv, PassesInv
<1> QED
  BY <1>2, <1>3, <1>4, <1>5

LEMMA LoadDistortedKeeps == ProgramInv /\ LoadDistorted => ProgramInv'
<1> SUFFICES ASSUME ProgramInv, LoadDistorted PROVE ProgramInv'
  OBVIOUS
<1> DEFINE next == /\ io2' = files[2]
                   /\ ppc' = "compare"
                   /\ UNCHANGED <<call, io1, pending, scored, log>>
<1>1. ppc = "load2" /\ mpc = "idle" /\ UNCHANGED <<metricVars, files>> /\ Load(2, next)
  BY DEF LoadDistorted, Load, ProgramInv
<1>2. io1 = files[1] /\ files[1].status = "ok" /\ ~CanvasTooSmall(files[1])
  BY <1>1 DEF ProgramInv, LoadedInv
<1>3. \/ Die
      \/ \E code : Fail(code) /\ (call.entry \in Plain => ~Comparable)
      \/ next /\ files[2].status = "ok"
  <2> HIDE DEF next
  <2> QED
    BY <1>1, <1>2, LoadOutcome
<1>4. CASE Die
  BY <1>1, <1>4, DieKeeps
<1>5. CASE \E code : Fail(code) /\ (call.entry \in Plain => ~Comparable)
  BY <1>1, <1>5, FailKeeps
<1>6. CASE next /\ files[2].status = "ok"
  <2>1. LogInv'
    BY <1>1, <1>6, LogStays DEF ProgramInv
  <2>2. ~CanvasTooSmall(files[1])'
    BY <1>1, <1>2 DEF CanvasTooSmall
  <2> QED
    BY <1>1, <1>2, <1>6, <2>1, <2>2 DEF metricVars, ProgramInv, CallInv, LoadedInv, PassesInv
<1> QED
  BY <1>3, <1>4, <1>5, <1>6

LEMMA CompareSizesKeeps == ProgramInv /\ CompareSizes => ProgramInv'
<1> SUFFICES ASSUME ProgramInv, CompareSizes PROVE ProgramInv'
  OBVIOUS
<1>1. ppc = "compare" /\ mpc = "idle" /\ UNCHANGED <<metricVars, files>>
  BY DEF CompareSizes, ProgramInv
<1>2. /\ io1 = files[1] /\ files[1].status = "ok" /\ ~CanvasTooSmall(files[1])
      /\ io2 = files[2] /\ files[2].status = "ok" /\ scored = <<>>
  BY <1>1 DEF ProgramInv, LoadedInv, PassesInv
<1>3. CASE Size(io1) # Size(io2) /\ Fail("SIZE_MISMATCH")
  BY <1>1, <1>2, <1>3, FailKeeps DEF Comparable
<1>4. CASE /\ Size(io1) = Size(io2)
           /\ pending' = IF call.entry \in Plain THEN PassesFor(io1) ELSE <<call.bg>>
           /\ ppc' = "score"
           /\ UNCHANGED <<call, io1, io2, scored, log>>
  <2> DEFINE B == Backdrops(call)
  <2>1. LogInv'
    BY <1>1, <1>4, LogStays DEF ProgramInv
  <2>2. Comparable /\ Comparable'
    BY <1>1, <1>2, <1>4, FilesFramed DEF Comparable
  <2>3. pending' = B /\ Backdrops(call)' = B
    BY <1>1, <1>2, <1>4 DEF Backdrops, PassesFor
  <2>4. B \in Seq({"0.1", "0.5", "0.9", call.bg}) /\ Len(B) \in 1 .. 2
    BY BackdropsType
  <2> HIDE DEF B
  <2>5. pending' = SubSeq(B, 1, Len(B))
    BY <2>3, <2>4, SubSeqFull
  <2>6. scored' = [k \in 1 .. 0 |-> PassOn(B[k])']
    BY <1>2, <1>4
  <2>7. PassesInv'
    BY <1>4, <2>3, <2>4, <2>5, <2>6 DEF PassesInv
  <2>8. ~CanvasTooSmall(files[1])'
    BY <1>1, <1>2 DEF CanvasTooSmall
  <2> QED
    BY <1>1, <1>2, <1>4, <2>1, <2>2, <2>7, <2>8 DEF metricVars, ProgramInv, CallInv, LoadedInv
<1> QED
  BY <1>3, <1>4 DEF CompareSizes

(* Where the running call is in its passes.                                 *)
LEMMA PassesAt ==
  ASSUME ProgramInv, ppc \in {"score", "computing"}
  PROVE  \E n \in 0 .. Len(Backdrops(call)) :
           /\ pending = SubSeq(Backdrops(call), n + 1, Len(Backdrops(call)))
           /\ scored = [k \in 1 .. n |-> PassOn(Backdrops(call)[k])]
           /\ n > 0 => SameFrames
           /\ ppc = "computing" => n < Len(Backdrops(call))
           /\ pending # <<>> <=> n < Len(Backdrops(call))
           /\ n < Len(Backdrops(call)) =>
                /\ Head(pending) = Backdrops(call)[n + 1]
                /\ Tail(pending) = SubSeq(Backdrops(call), n + 2, Len(Backdrops(call)))
<1> DEFINE B == Backdrops(call)
           S == {"0.1", "0.5", "0.9", call.bg}
<1>1. B \in Seq(S) /\ Len(B) \in 1 .. 2
  BY BackdropsType
<1>2. PICK n \in 0 .. Len(B) :
        /\ pending = SubSeq(B, n + 1, Len(B))
        /\ scored = [k \in 1 .. n |-> PassOn(B[k])]
        /\ n > 0 => SameFrames
        /\ ppc = "computing" => n < Len(B)
  BY DEF ProgramInv, PassesInv
<1> HIDE DEF B, S
<1>3. /\ pending \in Seq(S) /\ Len(pending) = Len(B) - n
      /\ \A i \in 1 .. Len(pending) : pending[i] = B[n + i]
  BY <1>1, <1>2, SubSeqProperties
<1>4. pending # <<>> <=> n < Len(B)
  <2>1. pending # <<>> => Len(pending) # 0
    BY <1>3, EmptySeq
  <2>2. pending = <<>> => Len(pending) = 0
    BY EmptySeq
  <2>3. Len(B) - n # 0 <=> n < Len(B)
    BY <1>1, <1>2
  <2> QED
    BY <1>3, <2>1, <2>2, <2>3
<1>5. ASSUME n < Len(B)
      PROVE  Head(pending) = B[n + 1] /\ Tail(pending) = SubSeq(B, n + 2, Len(B))
  <2>1. Head(pending) = B[n + 1]
    BY <1>1, <1>3, <1>4, <1>5, HeadTailProperties
  <2>2. Tail(pending) = SubSeq(B, n + 2, Len(B))
    <3>1. /\ Tail(pending) \in Seq(S) /\ Len(Tail(pending)) = Len(pending) - 1
          /\ \A i \in 1 .. Len(Tail(pending)) : Tail(pending)[i] = pending[i + 1]
      BY <1>3, <1>4, <1>5, HeadTailProperties
    <3>2. /\ SubSeq(B, n + 2, Len(B)) \in Seq(S) /\ Len(SubSeq(B, n + 2, Len(B))) = Len(B) - n - 1
          /\ \A i \in 1 .. Len(B) - n - 1 : SubSeq(B, n + 2, Len(B))[i] = B[n + 1 + i]
      BY <1>1, <1>2, <1>5, SubSeqProperties
    <3>3. \A i \in 1 .. Len(B) - n - 1 : Tail(pending)[i] = B[n + 1 + i]
      BY <1>1, <1>2, <1>3, <3>1
    <3> QED
      BY <1>1, <1>2, <1>3, <3>1, <3>2, <3>3, SeqEqual
  <2> QED
    BY <2>1, <2>2
<1> QED
  BY <1>2, <1>4, <1>5 DEF B

LEMMA StartPassKeeps == IInv /\ StartPass => IInv'
<1> SUFFICES ASSUME MetricInv, ProgramInv, StartPass PROVE IInv'
  BY DEF IInv
<1>1. /\ ppc = "score" /\ ppc' = "computing" /\ pending # <<>>
      /\ Compute(Main(io1, "orig"), Main(io2, "dist"), Head(pending))
      /\ call' = call /\ files' = files /\ io1' = io1 /\ io2' = io2
      /\ pending' = pending /\ scored' = scored /\ log' = log
  BY DEF StartPass
<1>2. /\ io1 = files[1] /\ io2 = files[2] /\ ~CanvasTooSmall(files[1]) /\ Comparable
      /\ files[1].status = "ok" /\ files[2].status = "ok"
  BY <1>1 DEF ProgramInv, LoadedInv
<1>3. files[1] \in Pictures /\ files[2] \in Pictures
  BY FileTypes
<1> DEFINE orig == Main(files[1], "orig")
           dist == Main(files[2], "dist")
<1>4. /\ orig.src = "orig" /\ orig.w \in Nat /\ orig.h \in Nat /\ dist.src = "dist"
  BY <1>2, <1>3, MainType
<1>5. MetricInv' /\ mpc' # "idle"
      /\ subject' = [orig |-> orig, dist |-> dist, bg |-> Head(pending)]
  <2>1. Compute(orig, dist, Head(pending))
    BY <1>1, <1>2
  <2> HIDE DEF orig, dist
  <2> QED
    BY <1>4, <2>1, ComputeKeeps
<1>6. subject' = SubjectFor(Head(pending))'
  BY <1>1, <1>5 DEF SubjectFor
<1>7. LogInv'
  BY <1>1, LogStays DEF ProgramInv
<1>8. PassesInv'
  <2>1. PICK n \in 0 .. Len(Backdrops(call)) :
          /\ pending = SubSeq(Backdrops(call), n + 1, Len(Backdrops(call)))
          /\ scored = [k \in 1 .. n |-> PassOn(Backdrops(call)[k])]
          /\ n > 0 => SameFrames
          /\ pending # <<>> <=> n < Len(Backdrops(call))
    BY <1>1, PassesAt
  <2>2. /\ Backdrops(call)' = Backdrops(call) /\ (SameFrames' <=> SameFrames)
        /\ \A bg : PassOn(bg)' = PassOn(bg)
    BY <1>1, FilesFramed DEF Backdrops
  <2> QED
    BY <1>1, <2>1, <2>2 DEF PassesInv
<1>9. CanvasTooSmall(files[1])' <=> CanvasTooSmall(files[1])
  BY <1>1 DEF CanvasTooSmall
<1>10. ProgramInv'
  BY <1>1, <1>2, <1>5, <1>6, <1>7, <1>8, <1>9, FilesFramed DEF ProgramInv, CallInv, LoadedInv
<1> QED
  BY <1>5, <1>10 DEF IInv

LEMMA ComputeStepKeeps == IInv /\ ComputeStep => IInv'
<1> SUFFICES ASSUME MetricInv, ProgramInv, ComputeStep PROVE IInv'
  BY DEF IInv
<1>1. /\ ppc = "computing" /\ MetricStep
      /\ ppc' = ppc /\ call' = call /\ files' = files /\ io1' = io1 /\ io2' = io2
      /\ pending' = pending /\ scored' = scored /\ log' = log
  BY DEF ComputeStep, programVars
<1>2. MetricInv' /\ mpc' # "idle" /\ subject' = subject
  BY <1>1, MetricStepKeeps
<1>3. LogInv'
  BY <1>1, LogStays DEF ProgramInv
<1>4. /\ Backdrops(call)' = Backdrops(call) /\ (SameFrames' <=> SameFrames)
      /\ Comparable' <=> Comparable
      /\ SubjectFor(Head(pending))' = SubjectFor(Head(pending))
  BY <1>1, FilesFramed DEF Backdrops, SubjectFor
<1>5. PassesInv'
  <2>1. PICK n \in 0 .. Len(Backdrops(call)) :
          /\ pending = SubSeq(Backdrops(call), n + 1, Len(Backdrops(call)))
          /\ scored = [k \in 1 .. n |-> PassOn(Backdrops(call)[k])]
          /\ n > 0 => SameFrames
          /\ n < Len(Backdrops(call))
    BY <1>1, PassesAt
  <2>2. \A bg : PassOn(bg)' = PassOn(bg)
    BY <1>1, FilesFramed
  <2> QED
    BY <1>1, <1>4, <2>1, <2>2 DEF PassesInv
<1>6. CanvasTooSmall(files[1])' <=> CanvasTooSmall(files[1])
  BY <1>1 DEF CanvasTooSmall
<1>7. ProgramInv'
  BY <1>1, <1>2, <1>3, <1>4, <1>5, <1>6 DEF ProgramInv, CallInv, LoadedInv
<1> QED
  BY <1>2, <1>7 DEF IInv

LEMMA FinishPassKeeps == IInv /\ FinishPass => IInv'
<1> SUFFICES ASSUME MetricInv, ProgramInv, FinishPass PROVE IInv'
  BY DEF IInv
<1>1. /\ ppc = "computing" /\ ppc' = "score" /\ mpc = "done" /\ Release
      /\ call' = call /\ files' = files /\ io1' = io1 /\ io2' = io2 /\ log' = log
      /\ scored' = Append(scored, [bg |-> Head(pending), scales |-> scales])
      /\ pending' = Tail(pending)
  BY DEF FinishPass
<1>2. MetricInv' /\ mpc' = "idle"
  BY <1>1, ReleaseKeeps DEF Release
<1>3. LogInv'
  BY <1>1, LogStays DEF ProgramInv
<1>4. PICK B : B = Backdrops(call)
  OBVIOUS
<1>5. PICK n \in 0 .. Len(B) :
        /\ scored = [k \in 1 .. n |-> PassOn(B[k])]
        /\ n < Len(B)
        /\ Head(pending) = B[n + 1]
        /\ Tail(pending) = SubSeq(B, n + 2, Len(B))
  BY <1>1, <1>4, PassesAt
<1>6. Backdrops(call)' = B /\ (SameFrames' <=> SameFrames) /\ (Comparable' <=> Comparable)
  BY <1>1, <1>4, FilesFramed DEF Backdrops
<1>7. Len(B) \in 1 .. 2
  BY <1>4, BackdropsType
<1>8. subject = SubjectFor(B[n + 1])
  BY <1>1, <1>5 DEF ProgramInv
<1>9. SameFrames
  BY <1>1, <1>8, DoneIsExact DEF SubjectFor, SameFrames
<1>10. [bg |-> Head(pending), scales |-> scales] = PassOn(B[n + 1])
  <2>1. subject.orig = Main(files[1], "orig")
    BY <1>8 DEF SubjectFor
  <2>2. scale = ScaleCount(Main(files[1], "orig"))
    BY <1>1, <2>1, DoneIsExact, OneScaleCount
  <2>3. scales = [k \in 1 .. scale |-> ScaleOf(subject, k - 1)]
    BY <1>1, DoneIsExact
  <2> QED
    BY <1>5, <1>8, <2>2, <2>3 DEF PassOn
<1>11. scored' = [k \in 1 .. n + 1 |-> PassOn(B[k])]
  <2> DEFINE S == {PassOn(B[k]) : k \in Nat}
  <2>1. scored \in Seq(S) /\ Len(scored) = n
    <3>1. \A k \in 1 .. n : PassOn(B[k]) \in S
      OBVIOUS
    <3> HIDE DEF S
    <3> QED
      BY <1>5, <1>7, <3>1
  <2>2. PassOn(B[n + 1]) \in S
    BY <1>7
  <2> HIDE DEF S
  <2>3. /\ scored' \in Seq(S) /\ Len(scored') = n + 1
        /\ \A k \in 1 .. n : scored'[k] = scored[k]
        /\ scored'[n + 1] = PassOn(B[n + 1])
    BY <1>1, <1>10, <2>1, <2>2, AppendProperties
  <2>4. DOMAIN scored' = 1 .. n + 1
    BY <2>3, LenProperties
  <2>5. \A k \in 1 .. n + 1 : scored'[k] = PassOn(B[k])
    BY <1>5, <1>7, <2>3
  <2>6. scored' = [k \in DOMAIN scored' |-> scored'[k]]
    BY <2>3
  <2> QED
    BY <2>4, <2>5, <2>6
<1>12. PassesInv'
  <2>1. \A bg : PassOn(bg)' = PassOn(bg)
    BY <1>1, FilesFramed
  <2>2. n + 1 \in 0 .. Len(B) /\ (n + 1) + 1 = n + 2
    BY <1>5, <1>7
  <2>3. pending' = SubSeq(B, (n + 1) + 1, Len(B))
    BY <1>1, <1>5, <2>2
  <2>4. scored' = [k \in 1 .. n + 1 |-> PassOn(B[k])']
    BY <1>11, <2>1
  <2> QED
    BY <1>1, <1>6, <1>9, <2>2, <2>3, <2>4 DEF PassesInv
<1>13. CanvasTooSmall(files[1])' <=> CanvasTooSmall(files[1])
  BY <1>1 DEF CanvasTooSmall
<1>14. ProgramInv'
  BY <1>1, <1>2, <1>3, <1>6, <1>12, <1>13 DEF ProgramInv, CallInv, LoadedInv
<1> QED
  BY <1>2, <1>14 DEF IInv

LEMMA AbortInMetricKeeps == ProgramInv /\ AbortInMetric => ProgramInv'
BY DieKeeps DEF AbortInMetric

LEMMA ReturnScoreKeeps == ProgramInv /\ ReturnScore => ProgramInv'
<1> SUFFICES ASSUME ProgramInv, ReturnScore PROVE ProgramInv'
  OBVIOUS
<1>1. /\ ppc = "score" /\ pending = <<>> /\ mpc = "idle" /\ UNCHANGED <<metricVars, files>>
  BY DEF ReturnScore, ProgramInv
<1>2. PICK result : Report(result, "score", scored)
  BY DEF ReturnScore
<1> DEFINE r == [entry |-> call.entry, bg |-> call.bg,
                 result |-> result, kind |-> "score", passes |-> scored]
<1>3. PICK n \in 0 .. Len(Backdrops(call)) :
        /\ scored = [k \in 1 .. n |-> PassOn(Backdrops(call)[k])]
        /\ n > 0 => SameFrames
        /\ pending # <<>> <=> n < Len(Backdrops(call))
  BY <1>1, PassesAt
<1>4. n = Len(Backdrops(call)) /\ SameFrames
  <2>1. Len(Backdrops(call)) \in 1 .. 2 /\ ~ (n < Len(Backdrops(call)))
    BY <1>1, <1>3, BackdropsType
  <2> QED
    BY <1>3, <2>1
<1>5. Backdrops(r) = Backdrops(call)
  BY DEF Backdrops
<1>6. scored = PassesOf(r)
  BY <1>3, <1>4, <1>5, BackdropsType DEF PassesOf
<1>7. Comparable
  BY <1>1 DEF ProgramInv, LoadedInv
<1>8. Justified(r)
  <2>1. r.kind = "score" /\ r.passes = scored
    OBVIOUS
  <2> HIDE DEF r
  <2> QED
    BY <1>4, <1>6, <1>7, <2>1 DEF Justified
<1> QED
  BY <1>1, <1>2, <1>8, ReportKeeps DEF metricVars

LEMMA InitIInv == Init => IInv
<1> SUFFICES ASSUME Init PROVE IInv
  OBVIOUS
<1>1. LogInv
  BY DEF Init, LogInv
<1>2. ProgramInv
  BY <1>1 DEF Init, MetricIdle, ProgramInv, CallInv, LoadedInv, PassesInv
<1> QED
  BY <1>2, IdleInv DEF Init, IInv

LEMMA NextIInv == IInv /\ [Next]_vars => IInv'
<1> SUFFICES ASSUME MetricInv, ProgramInv, [Next]_vars PROVE IInv'
  BY DEF IInv
<1>1. ASSUME ProgramInv', UNCHANGED metricVars PROVE IInv'
  BY <1>1, StutterKeeps DEF IInv
<1>2. CASE \E e \in Plain : Begin(e, NoBackground)
  BY <1>1, <1>2, BeginKeeps DEF Begin
<1>3. ASSUME NEW e \in WithBackground, NEW bg \in Backgrounds \cup {OutOfRange}, Begin(e, bg)
      PROVE  IInv'
  <2>1. e \notin Plain
    BY DEF Plain, WithBackground
  <2> QED
    BY <1>1, <1>3, <2>1, BeginKeeps DEF Begin
<1>4. CASE CheckArguments
  BY <1>1, <1>4, CheckArgumentsKeeps DEF CheckArguments
<1>5. CASE LoadOriginal
  BY <1>1, <1>5, LoadOriginalKeeps DEF LoadOriginal, Load
<1>6. CASE LoadDistorted
  BY <1>1, <1>6, LoadDistortedKeeps DEF LoadDistorted, Load
<1>7. CASE CompareSizes
  BY <1>1, <1>7, CompareSizesKeeps DEF CompareSizes
<1>8. CASE StartPass
  BY <1>8, StartPassKeeps DEF IInv
<1>9. CASE ComputeStep
  BY <1>9, ComputeStepKeeps DEF IInv
<1>10. CASE FinishPass
  BY <1>10, FinishPassKeeps DEF IInv
<1>11. CASE AbortInMetric
  BY <1>1, <1>11, AbortInMetricKeeps DEF AbortInMetric
<1>12. CASE ReturnScore
  BY <1>1, <1>12, ReturnScoreKeeps DEF ReturnScore
<1>13. CASE UNCHANGED vars
  <2>1. UNCHANGED <<ppc, call, files, io1, io2, pending, scored, log>> /\ UNCHANGED metricVars
    BY <1>13 DEF vars, programVars
  <2>2. MetricInv'
    BY <2>1, StutterKeeps
  <2>3. mpc' = mpc /\ subject' = subject
    BY <2>1 DEF metricVars
  <2>4. /\ LogInv' /\ PassesInv' /\ CallInv' /\ LoadedInv'
        /\ SubjectFor(Head(pending))' = SubjectFor(Head(pending))
    BY <2>1, LogStays, FilesFramed DEF ProgramInv, PassesInv, CallInv, LoadedInv, InvalidInput,
       Backdrops, PassOn, SubjectFor, Comparable, CanvasTooSmall, SameFrames
  <2> QED
    BY <2>1, <2>2, <2>3, <2>4 DEF IInv, ProgramInv
<1> QED
  BY <1>2, <1>3, <1>4, <1>5, <1>6, <1>7, <1>8, <1>9, <1>10, <1>11, <1>12, <1>13 DEF Next

-------------------------------------------------------------------------------
(***************************************************************************)
(* What the invariant says of what is computed and reported.                *)
(***************************************************************************)
(* Every state of the program satisfies the inductive invariant: a running  *)
(* call is at the resolution its loop counter says in each of its buffers,  *)
(* and the front end has loaded, scored and reported what its two pictures  *)
(* determine (ssimulacra2.cc:421-496, ssimulacra2_c_api.cc:82-205).          *)
THEOREM ProgramIsSound == Spec => []IInv
<1>1. Init => IInv
  BY InitIInv
<1>2. IInv /\ [Next]_vars => IInv'
  BY NextIInv
<1> QED
  BY <1>1, <1>2, PTL DEF Spec

(* Each entry of Msssim::scales compares the two pictures of its call at    *)
(* the resolution of its position, with freshly converted operands          *)
(* (ssimulacra2.cc:451-486).                                                *)
THEOREM ScalesAreExact == Spec => []ScalesExact
<1>1. IInv => ScalesExact
  <2> SUFFICES ASSUME MetricInv, NEW k \in 1 .. Len(scales) PROVE scales[k] = ExpectedScale(k - 1)
    BY DEF IInv, ScalesExact
  <2>1. scales = [j \in 1 .. scale |-> ExpectedScale(j - 1)] /\ scale \in Nat
    BY LevelType DEF MetricInv
  <2>2. Len(scales) = scale
    BY <2>1
  <2> QED
    BY <2>1, <2>2
<1> QED
  BY <1>1, ProgramIsSound, PTL

(* The checks inside the kernels fail for bundles of different sizes only   *)
(* (enc_xyb.cc:209, image.h:57-58, gauss_blur.cc:381, 599).                   *)
THEOREM AbortsOnMismatchOnly == Spec => []AbortsOnlyOnMismatch
<1>1. IInv => AbortsOnlyOnMismatch
  BY DEF IInv, MetricInv
<1> QED
  BY <1>1, ProgramIsSound, PTL

(* The tool and both ways into the library report the same score, or none,  *)
(* for the same two pictures (ssimulacra2_main.cc:85-114,                    *)
(* ssimulacra2_c_api.cc:82-205).                                             *)
THEOREM EntryPointsReportTheSame == Spec => []EntryPointsAgree
<1>1. IInv => EntryPointsAgree
  <2> SUFFICES ASSUME LogInv, NEW i \in DOMAIN log, NEW j \in DOMAIN log,
                      log[i].entry \in Plain, log[j].entry \in Plain
               PROVE  log[i].kind = log[j].kind /\ log[i].passes = log[j].passes
    BY DEF IInv, ProgramInv, EntryPointsAgree
  <2>1. Justified(log[i]) /\ Justified(log[j])
    BY DEF LogInv
  <2>2. PassesOf(log[i]) = PassesOf(log[j])
    BY DEF PassesOf, Backdrops
  <2> QED
    BY <2>1, <2>2 DEF Justified
<1> QED
  BY <1>1, ProgramIsSound, PTL

(* A score is reported only for two main frames of one size, although the   *)
(* front ends compare canvases (ssimulacra2_main.cc:100, enc_xyb.cc:209).    *)
THEOREM ScoresCompareEqualFrames == Spec => []ScoreComparesEqualFrames
<1>1. IInv => ScoreComparesEqualFrames
  BY DEF IInv, ProgramInv, LogInv, Justified, ScoreComparesEqualFrames, SameFrames
<1> QED
  BY <1>1, ProgramIsSound, PTL

(* A picture has a number of scales.                                        *)
LEMMA ScaleCountType ==
  ASSUME NEW image
  PROVE  LET n == ScaleCount(image)
         IN  n \in 0 .. NumScales /\ ~GoesOn(image, n) /\ \A k \in 0 .. n - 1 : GoesOn(image, k)
<1> DEFINE S == {n \in Nat : ~GoesOn(image, n)}
<1>1. NumScales \in Nat
  BY ConstantsAssumption DEF Assumptions
<1>2. NumScales \in S
  BY <1>1 DEF GoesOn
<1>3. PICK n \in S : \A k \in S : n <= k
  <2> HIDE DEF S
  <2> QED
    BY <1>2, LeastNatural DEF S
<1>4. n \in 0 .. NumScales /\ ~GoesOn(image, n) /\ \A k \in 0 .. n - 1 : GoesOn(image, k)
  <2>1. n \in Nat /\ n <= NumScales /\ ~GoesOn(image, n)
    BY <1>1, <1>2, <1>3
  <2>2. ASSUME NEW k \in 0 .. n - 1, ~GoesOn(image, k) PROVE FALSE
    <3>1. k \in S
      BY <2>2
    <3> HIDE DEF S
    <3> QED
      BY <1>3, <2>1, <3>1
  <2> QED
    BY <1>1, <2>1, <2>2
<1>5. n = ScaleCount(image)
  BY <1>4, OneScaleCount
<1> QED
  BY <1>4, <1>5

LEMMA PassLength ==
  ASSUME NEW bg
  PROVE  Len(PassOn(bg).scales) = ScaleCount(Main(files[1], "orig"))
<1> DEFINE n == ScaleCount(Main(files[1], "orig"))
<1>1. n \in 0 .. NumScales /\ NumScales \in Nat
  BY ScaleCountType, ConstantsAssumption DEF Assumptions
<1> HIDE DEF n
<1>2. Len([k \in 1 .. n |-> ScaleOf(SubjectFor(bg), k - 1)]) = n
  BY <1>1
<1> QED
  BY <1>2 DEF PassOn, n

(* The powers of two up to 2 ^ NumScales.                                   *)
LEMMA PowersExist ==
  ASSUME NEW m \in Nat
  PROVE  \E f : f = [i \in 0 .. m |-> IF i = 0 THEN 1 ELSE 2 * f[i - 1]]
<1> DEFINE Powers(f, k) == f = [i \in 0 .. k |-> IF i = 0 THEN 1 ELSE 2 * f[i - 1]]
           Bad == {k \in Nat : ~ \E f : Powers(f, k)}
<1>1. SUFFICES ASSUME Bad # {} PROVE FALSE
  BY <1>1
<1>2. PICK k \in Bad : \A j \in Bad : k <= j
  BY <1>1, LeastNatural
<1> HIDE DEF Bad
<1>3. CASE k = 0
  <2>1. Powers([i \in 0 .. 0 |-> 1], 0)
    OBVIOUS
  <2> QED
    BY <1>2, <1>3, <2>1 DEF Bad
<1>4. CASE k # 0
  <2>1. k \in Nat /\ k - 1 \in Nat
    BY <1>2, <1>4 DEF Bad
  <2>2. k - 1 \notin Bad
    BY <1>2, <2>1
  <2>3. PICK g : Powers(g, k - 1)
    BY <2>1, <2>2 DEF Bad
  <2> DEFINE f == [i \in 0 .. k |-> IF i = k THEN 2 * g[k - 1] ELSE g[i]]
  <2>4. \A i \in 0 .. k : f[i] = IF i = 0 THEN 1 ELSE 2 * f[i - 1]
    BY <1>4, <2>1, <2>3
  <2>5. Powers(f, k)
    BY <2>4
  <2> QED
    BY <1>2, <2>5 DEF Bad
<1> QED
  BY <1>3, <1>4

LEMMA PowerRecursion ==
  /\ PowerOfTwo(0) = 1
  /\ \A k \in 1 .. NumScales : PowerOfTwo(k) = 2 * PowerOfTwo(k - 1)
<1> DEFINE power == CHOOSE f : f = [i \in 0 .. NumScales |-> IF i = 0 THEN 1 ELSE 2 * f[i - 1]]
<1>1. NumScales \in Nat
  BY ConstantsAssumption DEF Assumptions
<1>2. power = [i \in 0 .. NumScales |-> IF i = 0 THEN 1 ELSE 2 * power[i - 1]]
  BY <1>1, PowersExist
<1>3. \A k \in 0 .. NumScales : PowerOfTwo(k) = power[k]
  BY DEF PowerOfTwo
<1> HIDE DEF power
<1> QED
  BY <1>1, <1>2, <1>3

LEMMA PowerType == ASSUME NEW k \in 0 .. NumScales PROVE PowerOfTwo(k) \in Nat
<1> DEFINE Bad == {j \in Nat : j <= NumScales /\ ~ (PowerOfTwo(j) \in Nat)}
<1>1. SUFFICES ASSUME Bad # {} PROVE FALSE
  BY <1>1, ConstantsAssumption DEF Assumptions
<1>2. PICK j \in Bad : \A i \in Bad : j <= i
  BY <1>1, LeastNatural
<1>3. j # 0
  BY PowerRecursion
<1>4. j - 1 \in Nat /\ j - 1 \notin Bad /\ j \in 1 .. NumScales
  BY <1>2, <1>3, ConstantsAssumption DEF Assumptions
<1>5. PowerOfTwo(j - 1) \in Nat
  BY <1>4, ConstantsAssumption DEF Assumptions
<1> QED
  BY <1>4, <1>5, PowerRecursion

(* Halving k times with rounding up reaches m exactly from (m - 1) * 2 ^ k  *)
(* + 1 on.                                                                  *)
LEMMA HalvedReaches ==
  ASSUME NEW n \in Nat, NEW k \in 0 .. NumScales, NEW m \in Nat \ {0}
  PROVE  Halved(n, k) >= m <=> n >= ((m - 1) * PowerOfTwo(k)) + 1
<1> DEFINE Reaches(j) == \A i \in Nat \ {0} :
                           Halved(n, j) >= i <=> n >= ((i - 1) * PowerOfTwo(j)) + 1
           Bad == {j \in Nat : j <= NumScales /\ ~Reaches(j)}
<1>1. SUFFICES ASSUME Bad # {} PROVE FALSE
  BY <1>1, ConstantsAssumption DEF Assumptions
<1>2. PICK j \in Bad : \A i \in Bad : j <= i
  <2> HIDE DEF Reaches
  <2> QED
    BY <1>1, LeastNatural
<1>3. Reaches(0)
  BY HalvedRecursion, PowerRecursion
<1>4. j - 1 \in Nat /\ j - 1 \notin Bad /\ j \in 1 .. NumScales
  <2> HIDE DEF Reaches
  <2> QED
    BY <1>2, <1>3, ConstantsAssumption DEF Assumptions
<1>5. Reaches(j - 1)
  <2> HIDE DEF Reaches
  <2> QED
    BY <1>4, ConstantsAssumption DEF Assumptions
<1>6. Halved(n, j) = Half(Halved(n, j - 1)) /\ PowerOfTwo(j) = 2 * PowerOfTwo(j - 1)
  BY <1>4, HalvedRecursion, PowerRecursion
<1>7. Halved(n, j - 1) \in Nat /\ PowerOfTwo(j - 1) \in Nat
  <2> j - 1 \in 0 .. NumScales
    BY <1>4, ConstantsAssumption DEF Assumptions
  <2> QED
    BY HalvedType, PowerType
<1>8. ASSUME NEW i \in Nat \ {0}
      PROVE  Halved(n, j) >= i <=> n >= ((i - 1) * PowerOfTwo(j)) + 1
  <2>1. Halved(n, j) >= i <=> Halved(n, j - 1) >= 2 * i - 1
    BY <1>6, <1>7 DEF Half
  <2>2. Halved(n, j - 1) >= 2 * i - 1 <=> n >= ((2 * i - 2) * PowerOfTwo(j - 1)) + 1
    <3>1. 2 * i - 1 \in Nat \ {0} /\ (2 * i - 1) - 1 = 2 * i - 2
      OBVIOUS
    <3> QED
      BY <1>5, <3>1
  <2>3. \A a, p \in Nat : (2 * a) * p = a * (2 * p)
    OBVIOUS
  <2>4. (2 * i - 2) * PowerOfTwo(j - 1) = (i - 1) * PowerOfTwo(j)
    <3>1. 2 * i - 2 = 2 * (i - 1) /\ i - 1 \in Nat
      OBVIOUS
    <3> QED
      BY <1>6, <1>7, <2>3, <3>1
  <2> QED
    BY <2>1, <2>2, <2>4
<1> QED
  BY <1>2, <1>8

(* The sides of a picture do not grow from scale to scale.                  *)
LEMMA HalvedShrinks ==
  ASSUME NEW n \in Nat, NEW k \in 0 .. NumScales, NEW j \in 0 .. k
  PROVE  Halved(n, k) <= Halved(n, j)
<1> DEFINE Bad == {i \in Nat : i <= k /\ j <= i /\ ~ (Halved(n, i) <= Halved(n, j))}
<1>1. SUFFICES ASSUME Bad # {} PROVE FALSE
  BY <1>1, ConstantsAssumption DEF Assumptions
<1>2. PICK i \in Bad : \A l \in Bad : i <= l
  BY <1>1, LeastNatural
<1>3. i \in 0 .. NumScales /\ j \in 0 .. NumScales
  BY <1>2, ConstantsAssumption DEF Assumptions
<1>4. Halved(n, i) \in Nat /\ Halved(n, j) \in Nat
  BY <1>3, HalvedType
<1>5. i # j
  BY <1>2, <1>4
<1>6. i - 1 \in Nat /\ i - 1 \notin Bad /\ i \in 1 .. NumScales /\ i - 1 \in 0 .. NumScales
  BY <1>2, <1>3, <1>5, ConstantsAssumption DEF Assumptions
<1>7. Halved(n, i - 1) <= Halved(n, j) /\ Halved(n, i - 1) \in Nat
  BY <1>2, <1>5, <1>6, HalvedType
<1>8. Halved(n, i) <= Halved(n, i - 1)
  BY <1>6, <1>7, HalvedRecursion, HalfType
<1> QED
  BY <1>2, <1>4, <1>7, <1>8

LEMMA AllScales ==
  ASSUME NEW image, image.w \in Nat, image.h \in Nat, NumScales > 1
  PROVE  ScaleCount(image) = NumScales
           <=> image.w >= FullScaleThreshold /\ image.h >= FullScaleThreshold
<1> DEFINE n == ScaleCount(image)
           last == NumScales - 2
<1>1. NumScales \in Nat /\ MinSide \in Nat \ {0} /\ last \in 0 .. NumScales /\ last \in Nat
  BY ConstantsAssumption DEF Assumptions
<1>2. n \in 0 .. NumScales /\ ~GoesOn(image, n) /\ \A k \in 0 .. n - 1 : GoesOn(image, k)
  BY ScaleCountType
<1> HIDE DEF n
<1>3. /\ Halved(image.w, last) >= MinSide <=> image.w >= FullScaleThreshold
      /\ Halved(image.h, last) >= MinSide <=> image.h >= FullScaleThreshold
  <2> HIDE DEF last
  <2> QED
    BY <1>1, HalvedReaches DEF FullScaleThreshold, last
<1>4. ASSUME n = NumScales
      PROVE  Halved(image.w, last) >= MinSide /\ Halved(image.h, last) >= MinSide
  <2>1. NumScales - 1 \in 0 .. n - 1 /\ NumScales - 1 # 0
    BY <1>1, <1>4
  <2>2. GoesOn(image, NumScales - 1) /\ (NumScales - 1) - 1 = last
    BY <1>1, <1>2, <2>1
  <2> QED
    BY <2>1, <2>2 DEF GoesOn
<1>5. ASSUME Halved(image.w, last) >= MinSide, Halved(image.h, last) >= MinSide
      PROVE  n = NumScales
  <2> SUFFICES ASSUME n # NumScales PROVE GoesOn(image, n)
    BY <1>2
  <2> DEFINE level == IF n = 0 THEN 0 ELSE n - 1
  <2>1. n < NumScales /\ level \in 0 .. last /\ level \in 0 .. NumScales
    BY <1>1, <1>2
  <2>2. /\ Halved(image.w, last) <= Halved(image.w, level)
        /\ Halved(image.h, last) <= Halved(image.h, level)
    BY <1>1, <2>1, HalvedShrinks
  <2>3. /\ Halved(image.w, last) \in Nat /\ Halved(image.h, last) \in Nat
        /\ Halved(image.w, level) \in Nat /\ Halved(image.h, level) \in Nat
    BY <1>1, <2>1, HalvedType
  <2>4. Halved(image.w, level) >= MinSide /\ Halved(image.h, level) >= MinSide
    BY <1>1, <1>5, <2>2, <2>3
  <2> QED
    BY <2>1, <2>4 DEF GoesOn
<1> QED
  BY <1>3, <1>4, <1>5 DEF n

(* A score uses all of the scales exactly when both sides of the main frame *)
(* reach (MinSide - 1) * 2 ^ (NumScales - 2) + 1, which is 113 for the six   *)
(* scales and eight pixels of the program (ssimulacra2.cc:46-48, 451-459).   *)
(* The tool has more than one scale.                                        *)
THEOREM FullScoreThreshold == ASSUME NumScales > 1 PROVE Spec => []FullScoreFromThreshold
<1>1. IInv => FullScoreFromThreshold
  <2> SUFFICES ASSUME ProgramInv, NEW i \in DOMAIN log, NEW k \in DOMAIN log[i].passes
               PROVE  LET main == Main(files[1], "orig")
                      IN  Len(log[i].passes[k].scales) = NumScales
                            <=> main.w >= FullScaleThreshold /\ main.h >= FullScaleThreshold
    BY DEF IInv, FullScoreFromThreshold
  <2>1. Justified(log[i])
    BY DEF ProgramInv, LogInv
  <2>2. Comparable /\ log[i].passes = PassesOf(log[i])
    BY <2>1 DEF Justified
  <2>3. log[i].passes[k] = PassOn(Backdrops(log[i])[k])
    BY <2>2 DEF PassesOf
  <2>4. Len(log[i].passes[k].scales) = ScaleCount(Main(files[1], "orig"))
    BY <2>3, PassLength
  <2>5. Main(files[1], "orig").w \in Nat /\ Main(files[1], "orig").h \in Nat
    BY <2>2, FileTypes, MainType DEF Comparable
  <2> QED
    BY <2>4, <2>5, AllScales
<1> QED
  BY <1>1, ProgramIsSound, PTL

(* The bright background in the description of a picture.                   *)
LEMMA BrightBackground ==
  ASSUME NEW src, NEW k
  PROVE  /\ Bright(Fresh(src, "0.1", k)) = Fresh(src, "0.9", k)
         /\ Bright(Fresh(src, NoBackground, k)) = Fresh(src, NoBackground, k)
         /\ \A b : Fresh(src, b, k).bg = b
<1>1. \A x, b, c : [Pixels(src, b, k, x, 1) EXCEPT !.bg = c] = Pixels(src, c, k, x, 1)
  BY DEF Pixels
<1>2. \A x, b : Pixels(src, b, k, x, 1).bg = b
  BY DEF Pixels
<1>3. \A b, c : /\ [Fresh(src, b, k) EXCEPT !.bg = c] = Fresh(src, c, k)
                /\ Fresh(src, b, k).bg = b
  BY <1>1, <1>2, Zenon DEF Fresh
<1>4. NoBackground # "0.1"
  BY DEF NoBackground
<1>5. \A b : Bright(Fresh(src, b, k)) = Fresh(src, IF b = "0.1" THEN "0.9" ELSE b, k)
  BY <1>3, Zenon DEF Bright
<1>6. Bright(Fresh(src, "0.1", k)) = Fresh(src, "0.9", k)
  BY <1>5
<1>7. Bright(Fresh(src, NoBackground, k)) = Fresh(src, NoBackground, k)
  BY <1>4, <1>5
<1> QED
  BY <1>3, <1>6, <1>7

(* What the backgrounds of a picture are in the two passes.                 *)
LEMMA BrightPicture ==
  ASSUME NEW bundle, NEW src, NEW k
  PROVE  Bright(Fresh(src, BackgroundOf(bundle, "0.1"), k))
           = Fresh(src, BackgroundOf(bundle, "0.9"), k)
<1>1. CASE bundle.alpha
  BY <1>1, BrightBackground, Zenon DEF BackgroundOf
<1>2. CASE ~bundle.alpha
  BY <1>2, BrightBackground, Zenon DEF BackgroundOf
<1> QED
  BY <1>1, <1>2

(* The same scale on the two backgrounds.                                   *)
LEMMA BrightScale ==
  ASSUME NEW k
  PROVE  ScaleOf(SubjectFor("0.9"), k) = Brightened(ScaleOf(SubjectFor("0.1"), k))
<1> DEFINE o(b) == Fresh("orig", BackgroundOf(Main(files[1], "orig"), b), k)
           d(b) == Fresh("dist", BackgroundOf(Main(files[2], "dist"), b), k)
           area == HalvedSize(Main(files[1], "orig"), k)
<1>1. \A b : ScaleOf(SubjectFor(b), k)
              = [ssim |-> [area |-> area, m1 |-> o(b), m2 |-> d(b), s11 |-> <<o(b), o(b)>>,
                           s22 |-> <<d(b), d(b)>>, s12 |-> <<o(b), d(b)>>],
                 edge |-> [area |-> area, img1 |-> o(b), mu1 |-> o(b),
                           img2 |-> d(b), mu2 |-> d(b)]]
  BY DEF ScaleOf, SubjectFor
<1>2. Bright(o("0.1")) = o("0.9") /\ Bright(d("0.1")) = d("0.9")
  BY BrightPicture
<1> HIDE DEF o, d, area
<1> QED
  BY <1>1, <1>2 DEF Brightened

(* The two passes over a picture with transparency compare the same pair of *)
(* frames at the same resolutions, and differ in the background only        *)
(* (ssimulacra2_main.cc:108-114, ssimulacra2.cc:428-434).                    *)
THEOREM PassesDifferOnlyInBackground == Spec => []PassesDifferInBackgroundOnly
<1>1. IInv => PassesDifferInBackgroundOnly
  <2> SUFFICES ASSUME ProgramInv, NEW i \in DOMAIN log, log[i].kind = "score",
                      log[i].entry \in Plain, files[1].alpha
               PROVE  /\ Len(log[i].passes) = 2
                      /\ DiffersInBackground(log[i].passes[1], log[i].passes[2])
    BY DEF IInv, PassesDifferInBackgroundOnly
  <2>1. Justified(log[i])
    BY DEF ProgramInv, LogInv
  <2>2. Comparable /\ log[i].passes = PassesOf(log[i])
    BY <2>1 DEF Justified
  <2>3. Backdrops(log[i]) = <<"0.1", "0.9">>
    BY DEF Backdrops, PassesFor
  <2>4. log[i].passes = [k \in 1 .. 2 |-> PassOn(<<"0.1", "0.9">>[k])]
    BY <2>2, <2>3 DEF PassesOf
  <2>5. /\ Len(log[i].passes) = 2
        /\ log[i].passes[1] = PassOn("0.1") /\ log[i].passes[2] = PassOn("0.9")
    BY <2>4
  <2> DEFINE orig == Main(files[1], "orig")
             dist == Main(files[2], "dist")
             n == ScaleCount(orig)
  <2>6. orig.alpha /\ dist.alpha = files[2].alpha
    BY <2>2, FileTypes, MainType DEF Comparable
  <2>7. Len(PassOn("0.1").scales) = n
    BY PassLength
  <2>8. \A b : PassOn(b).scales = [k \in 1 .. n |-> ScaleOf(SubjectFor(b), k - 1)]
    BY DEF PassOn
  <2>9. \A k \in 1 .. n : PassOn("0.1").scales[k] = ScaleOf(SubjectFor("0.1"), k - 1)
    BY <2>8
  <2>10. PassOn("0.9").scales = [k \in 1 .. n |-> Brightened(PassOn("0.1").scales[k])]
    <3>1. \A k \in 1 .. n :
            ScaleOf(SubjectFor("0.9"), k - 1) = Brightened(PassOn("0.1").scales[k])
      BY <2>9, BrightScale
    <3> HIDE DEF n
    <3> QED
      BY <2>8, <3>1
  <2>11. ASSUME NEW k \in 1 .. n
         PROVE  /\ PassOn("0.1").scales[k].edge.img1.bg = "0.1"
                /\ PassOn("0.1").scales[k].edge.img2.bg =
                     IF files[2].alpha THEN "0.1" ELSE NoBackground
    <3>1. PassOn("0.1").scales[k] = ScaleOf(SubjectFor("0.1"), k - 1)
      BY <2>9
    <3>2. /\ ScaleOf(SubjectFor("0.1"), k - 1).edge.img1
               = Fresh("orig", BackgroundOf(orig, "0.1"), k - 1)
          /\ ScaleOf(SubjectFor("0.1"), k - 1).edge.img2
               = Fresh("dist", BackgroundOf(dist, "0.1"), k - 1)
      BY DEF ScaleOf, SubjectFor
    <3>3. /\ BackgroundOf(orig, "0.1") = "0.1"
          /\ BackgroundOf(dist, "0.1") = IF files[2].alpha THEN "0.1" ELSE NoBackground
      BY <2>6, Zenon DEF BackgroundOf
    <3> HIDE DEF orig, dist
    <3> QED
      BY <3>1, <3>2, <3>3, BrightBackground
  <2> HIDE DEF n
  <2>12. DiffersInBackground(PassOn("0.1"), PassOn("0.9"))
    BY <2>7, <2>10, <2>11 DEF DiffersInBackground
  <2> QED
    BY <2>5, <2>12
<1> QED
  BY <1>1, ProgramIsSound, PTL
=============================================================================
