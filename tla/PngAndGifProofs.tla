---------------------------- MODULE PngAndGifProofs ----------------------------
(***************************************************************************)
(* The decoders of PNG and GIF files do what they promise for every canvas *)
(* and for files of any length: however frames lie on the canvas, whatever *)
(* their disposal and blending, the layers show what a viewer shows; and   *)
(* whatever the order of a PNG's chunks, its pictures and its colors are   *)
(* what the chunks said.  The invariants are those of PngAndGif.           *)
(***************************************************************************)
EXTENDS PngAndGif, SequenceTheorems, TLAPS

-------------------------------------------------------------------------------
(* Places on the canvas.                                                   *)
LEMMA CellIs ==
  ASSUME NEW c \in A!Cell
  PROVE  /\ c[1] \in 0 .. CanvasWidth - 1 /\ c[2] \in 0 .. CanvasHeight - 1
         /\ c = <<c[1], c[2]>>
BY DEF A!Cell

LEMMA RectIs ==
  ASSUME NEW r \in A!Rects
  PROVE  /\ r.x0 \in 0 .. CanvasWidth - 1 /\ r.y0 \in 0 .. CanvasHeight - 1
         /\ r.xsize \in 1 .. CanvasWidth /\ r.ysize \in 1 .. CanvasHeight
         /\ r.x0 + r.xsize <= CanvasWidth /\ r.y0 + r.ysize <= CanvasHeight
BY DEF A!Rects

LEMMA AtPosition ==
  ASSUME NEW r \in A!Rects, NEW c \in A!Cell, A!Covers(r, c)
  PROVE  A!At(r, c) \in A!Positions(r)
BY CellIs, RectIs, PngAndGifAssumption DEF A!Covers, A!At, A!Positions

(* The place on the canvas of a place in a rectangle.                      *)
LEMMA PlaceOf ==
  ASSUME NEW r \in A!Rects, NEW c \in A!Cell
  PROVE  <<A!At(r, c)[1] + r.x0, A!At(r, c)[2] + r.y0>> = c
<1>1. /\ A!At(r, c)[1] = c[1] - r.x0 /\ A!At(r, c)[2] = c[2] - r.y0
  BY DEF A!At
<1>2. c[1] \in Int /\ c[2] \in Int /\ r.x0 \in Int /\ r.y0 \in Int /\ c = <<c[1], c[2]>>
  BY CellIs, RectIs, PngAndGifAssumption
<1>3. c[1] - r.x0 + r.x0 = c[1] /\ c[2] - r.y0 + r.y0 = c[2]
  BY <1>2
<1> QED
  BY <1>1, <1>2, <1>3

LEMMA ContainsCovers ==
  ASSUME NEW o \in A!Rects, NEW r \in A!Rects, A!Contains(o, r),
         NEW c \in A!Cell, A!Covers(r, c)
  PROVE  A!Covers(o, c)
BY CellIs, RectIs, PngAndGifAssumption DEF A!Contains, A!Covers

(* A picture on a canvas is a canvas.                                      *)
LEMMA ImageIs ==
  ASSUME NEW r \in A!Rects, NEW k \in A!Colors, NEW px \in A!Images(r, k),
         NEW c \in A!Cell, A!Covers(r, c)
  PROVE  px[A!At(r, c)] \in A!Colors \cup {A!Blank}
BY AtPosition DEF A!Images

LEMMA DrawnIsCanvas ==
  ASSUME NEW s \in Canvases, NEW r \in A!Rects, NEW k \in A!Colors, NEW px \in A!Images(r, k)
  PROVE  /\ A!Over(s, r, px) \in Canvases
         /\ A!Replaced(s, r, px) \in Canvases
         /\ A!Cleared(s, r) \in Canvases
<1>1. \A c \in A!Cell : A!Covers(r, c) => px[A!At(r, c)] \in A!Colors \cup {A!Blank}
  BY ImageIs
<1>2. \A c \in A!Cell : s[c] \in A!Colors \cup {A!Blank}
  BY DEF Canvases
<1>3. A!Blank \in A!Colors \cup {A!Blank}
  OBVIOUS
<1> QED
  BY <1>1, <1>2, <1>3 DEF A!Over, A!Replaced, A!Cleared, Canvases

LEMMA BlankIsCanvas == A!BlankCanvas \in Canvases
BY DEF A!BlankCanvas, Canvases

-------------------------------------------------------------------------------
(***************************************************************************)
(* ApngLayers: the layers that stand for a frame clear what has to be      *)
(* cleared and draw what has to be drawn.                                  *)
(***************************************************************************)
LEMMA BlankLayer ==
  ASSUME NEW s \in Canvases, NEW r \in A!Rects
  PROVE  A!Replaced(s, r, [q \in A!Positions(r) |-> A!Blank]) = A!Cleared(s, r)
<1>1. \A c \in A!Cell : A!Covers(r, c) =>
        [q \in A!Positions(r) |-> A!Blank][A!At(r, c)] = A!Blank
  BY AtPosition
<1> QED
  BY <1>1 DEF A!Replaced, A!Cleared

LEMMA ReplacedDirectly ==
  ASSUME NEW s \in Canvases, NEW p \in A!Rects, NEW r \in A!Rects, A!Contains(r, p), NEW px
  PROVE  A!Replaced(s, r, px) = A!Replaced(A!Cleared(s, p), r, px)
<1>1. \A c \in A!Cell : A!Covers(p, c) => A!Covers(r, c)
  BY ContainsCovers
<1> QED
  BY <1>1 DEF A!Replaced, A!Cleared

(* Over the cleared rectangle drawing over and replacing are the same.     *)
LEMMA OverCleared ==
  ASSUME NEW s \in Canvases, NEW p \in A!Rects, NEW r \in A!Rects, A!Contains(p, r), NEW px
  PROVE  A!Over(A!Cleared(s, p), r, px) = A!Replaced(A!Cleared(s, p), r, px)
<1>1. \A c \in A!Cell : A!Covers(r, c) => A!Covers(p, c)
  BY ContainsCovers
<1> QED
  BY <1>1 DEF A!Over, A!Replaced, A!Cleared

LEMMA ReplacedPadded ==
  ASSUME NEW s \in Canvases, previous \in A!Rects, NEW r \in A!Rects,
         A!Contains(previous, r), NEW px
  PROVE  A!Replaced(s, previous, A!Padded(r, px)) = A!Replaced(A!Cleared(s, previous), r, px)
<1>1. \A c \in A!Cell : A!Covers(r, c) => A!Covers(previous, c)
  BY ContainsCovers
<1>2. \A c \in A!Cell : A!Covers(previous, c) =>
        A!Padded(r, px)[A!At(previous, c)] =
          IF A!Covers(r, c) THEN px[A!At(r, c)] ELSE A!Blank
  <2> SUFFICES ASSUME NEW c \in A!Cell, A!Covers(previous, c)
               PROVE  A!Padded(r, px)[A!At(previous, c)] =
                        IF A!Covers(r, c) THEN px[A!At(r, c)] ELSE A!Blank
    OBVIOUS
  <2> DEFINE q == A!At(previous, c)
  <2>1. q \in A!Positions(previous) /\ <<q[1] + previous.x0, q[2] + previous.y0>> = c
    BY AtPosition, PlaceOf
  <2> HIDE DEF q
  <2>2. A!Padded(r, px)[q] = IF A!Covers(r, c) THEN px[A!At(r, c)] ELSE A!Blank
    BY <2>1 DEF A!Padded
  <2> QED
    BY <2>2 DEF q
<1>3. \A c \in A!Cell :
        (IF A!Covers(previous, c) THEN A!Padded(r, px)[A!At(previous, c)] ELSE s[c])
        = (IF A!Covers(r, c) THEN px[A!At(r, c)]
           ELSE [x \in A!Cell |-> IF A!Covers(previous, x) THEN A!Blank ELSE s[x]][c])
  BY <1>1, <1>2
<1> QED
  BY <1>3 DEF A!Replaced, A!Cleared

(* What a layer composes to, whether it blends or not.                     *)
LEMMA LayerComposed ==
  ASSUME NEW r, NEW px, NEW b, NEW k, NEW t
  PROVE  /\ b => A!Composed(A!Layer(r, px, b, 1, k), t) = A!Over(t[1], r, px)
         /\ ~b => A!Composed(A!Layer(r, px, b, 1, k), t) = A!Replaced(t[1], r, px)
<1> DEFINE l == A!Layer(r, px, b, 1, k)
<1>1. l.rect = r /\ l.pixels = px /\ l.blend = b /\ l.source = 1
  BY DEF A!Layer
<1> HIDE DEF l
<1>2. /\ b => A!Composed(l, t) = A!Over(t[1], r, px)
      /\ ~b => A!Composed(l, t) = A!Replaced(t[1], r, px)
  BY <1>1, Zenon DEF A!Composed
<1> QED
  BY <1>2 DEF l

(* A frame that one layer stands for, or two.                              *)
KeptBy(d) == nontrivial \/ d = A!DISPOSE_OP_NONE
KeepBy(d) == KeptBy(d) /\ d # A!DISPOSE_OP_PREVIOUS

LEMMA OneLayer ==
  ASSUME NEW r, NEW px, NEW d, NEW b, NEW l, A!AddFrame(r, px, d, b),
         A!LayersOf(r, px, b = A!BLEND_OP_OVER, KeepBy(d)) = <<l>>
  PROVE  shown' = A!Composed(l, slots) /\ slots' = A!Saved(l, slots)
<1>1. Len(<<l>>) = 1 /\ <<l>>[1] = l /\ 1 # 2
  OBVIOUS
<1> QED
  BY <1>1, Zenon DEF A!AddFrame, KeepBy, KeptBy

LEMMA TwoLayers ==
  ASSUME NEW r, NEW px, NEW d, NEW b, NEW k, NEW l, A!AddFrame(r, px, d, b),
         A!LayersOf(r, px, b = A!BLEND_OP_OVER, KeepBy(d)) = <<k, l>>
  PROVE  /\ shown' = A!Composed(l, A!Saved(k, slots))
         /\ slots' = A!Saved(l, A!Saved(k, slots))
<1>1. Len(<<k, l>>) = 2 /\ <<k, l>>[2] = l /\ <<k, l>>[1] = k
  OBVIOUS
<1> QED
  BY <1>1, Zenon DEF A!AddFrame, KeepBy, KeptBy

-------------------------------------------------------------------------------
(* One frame: the layers show what the viewer draws on its buffer, and save *)
(* it if the frame is to stay or to be cleared.                             *)
Drawn(r, px, b) ==
  IF b = A!BLEND_OP_OVER THEN A!Over(output, r, px) ELSE A!Replaced(output, r, px)

LEMMA FrameDrawn ==
  ASSUME ApngInv, NEW r \in A!Rects, NEW px \in A!Images(r, color),
         NEW d \in 0 .. 2, NEW b \in 0 .. 1, A!AddFrame(r, px, d, b)
  PROVE  /\ shown' = Drawn(r, px, b)
         /\ slots' \in [{0, 1} -> Canvases]
         /\ slots'[1] = IF KeepBy(d) THEN Drawn(r, px, b)
                        ELSE IF mustClear THEN output ELSE slots[1]
<1> DEFINE over == b = A!BLEND_OP_OVER
           keep == KeepBy(d)
           save == IF keep THEN 1 ELSE 0
           own == A!Layer(r, px, over, 1, save)
           alone == A!Layer(r, px, FALSE, 1, save)
           padded == A!Layer(previous, A!Padded(r, px), FALSE, 1, save)
           blank == A!Layer(previous, [q \in A!Positions(previous) |-> A!Blank], FALSE, 1, 1)
<1>1. /\ previous \in A!Rects /\ slots[1] \in Canvases /\ slots[0] \in Canvases
      /\ slots \in [{0, 1} -> Canvases] /\ output \in Canvases
      /\ output = IF mustClear THEN A!Cleared(slots[1], previous) ELSE slots[1]
  BY DEF ApngInv
<1>2. Drawn(r, px, b) \in Canvases
  BY <1>1, DrawnIsCanvas DEF Drawn, ApngInv
\* A layer drawn on a canvas, and what is saved of it.
<1>4. ASSUME NEW l, NEW t \in [{0, 1} -> Canvases], A!Composed(l, t) = Drawn(r, px, b),
             l.save = save, shown' = A!Composed(l, t), slots' = A!Saved(l, t)
      PROVE  /\ shown' = Drawn(r, px, b)
             /\ slots' \in [{0, 1} -> Canvases]
             /\ slots'[1] = IF keep THEN Drawn(r, px, b) ELSE t[1]
  BY <1>2, <1>4 DEF A!Saved
\* The layer of the frame itself.
<1>own. \A t : A!Composed(own, t) = IF over THEN A!Over(t[1], r, px) ELSE A!Replaced(t[1], r, px)
  <2>1. own.rect = r /\ own.pixels = px /\ own.source = 1 /\ own.blend = over
    BY Zenon DEF A!Layer
  <2> HIDE DEF own
  <2> QED
    BY <2>1, Zenon DEF A!Composed
<1>kept. own.save = save /\ alone.save = save /\ padded.save = save /\ blank.save = 1
  BY Zenon DEF A!Layer
\* Nothing is to be cleared: the frame itself.
<1>5. CASE ~mustClear
  <2>1. A!LayersOf(r, px, over, keep) = <<own>>
    BY <1>5, Zenon DEF A!LayersOf
  <2>2. shown' = A!Composed(own, slots) /\ slots' = A!Saved(own, slots)
    <3> HIDE DEF own
    <3> QED
      BY <2>1, OneLayer, Zenon
  <2>3. A!Composed(own, slots) = Drawn(r, px, b)
    <3> HIDE DEF own
    <3> QED
      BY <1>1, <1>5, <1>own DEF Drawn
  <2>4. own.save = save
    BY <1>kept
  <2> QED
    BY ONLY <1>4, <1>1, <1>5, <2>2, <2>3, <2>4, Zenon
\* One layer that replaces what was to be cleared.
<1>6. ASSUME mustClear, keep, NEW l, A!LayersOf(r, px, over, keep) = <<l>>,
             A!Composed(l, slots) = Drawn(r, px, b), l.save = save
      PROVE  /\ shown' = Drawn(r, px, b)
             /\ slots' \in [{0, 1} -> Canvases]
             /\ slots'[1] = Drawn(r, px, b)
  <2>1. shown' = A!Composed(l, slots) /\ slots' = A!Saved(l, slots)
    BY <1>6, OneLayer, Zenon
  <2> QED
    BY ONLY <1>4, <1>1, <1>6, <2>1, Zenon
<1>7. CASE mustClear /\ A!Contains(r, previous) /\ ~over /\ keep
  <2>1. A!LayersOf(r, px, over, keep) = <<alone>>
    BY <1>7, Zenon DEF A!LayersOf
  <2>2. A!Composed(alone, slots) = A!Replaced(slots[1], r, px)
    BY ONLY LayerComposed, ZenonT(40)
  <2>3. A!Replaced(slots[1], r, px) = A!Replaced(output, r, px)
    BY <1>1, <1>7, ReplacedDirectly
  <2>4. A!Replaced(output, r, px) = Drawn(r, px, b)
    BY <1>7 DEF Drawn
  <2>5. alone.save = save
    BY DEF A!Layer
  <2>6. A!Composed(alone, slots) = Drawn(r, px, b)
    BY <2>2, <2>3, <2>4, Zenon
  <2> QED
    BY <1>6, <1>7, <2>1, <2>5, <2>6, Zenon
<1>8. CASE mustClear /\ A!Contains(previous, r) /\ keep /\ ~(A!Contains(r, previous) /\ ~over)
  <2>1. Drawn(r, px, b) = A!Replaced(A!Cleared(slots[1], previous), r, px)
    BY <1>1, <1>8, OverCleared DEF Drawn
  <2>2. alone.save = save /\ padded.save = save
    BY DEF A!Layer
  <2>3. CASE r = previous
    <3>1. A!LayersOf(r, px, over, keep) = <<alone>>
      BY <1>8, <2>3, Zenon DEF A!LayersOf
    <3>2. A!Composed(alone, slots) = A!Replaced(slots[1], r, px)
      BY ONLY LayerComposed, ZenonT(40)
    <3>3. A!Replaced(slots[1], r, px) = A!Replaced(A!Cleared(slots[1], previous), r, px)
      BY <1>1, <1>8, <2>3, ReplacedDirectly
    <3>4. A!Composed(alone, slots) = Drawn(r, px, b)
      BY <3>2, <3>3, <2>1, Zenon
    <3> QED
      BY <1>6, <1>8, <3>1, <3>4, <2>2, Zenon
  <2>4. CASE r # previous
    <3>1. A!LayersOf(r, px, over, keep) = <<padded>>
      BY <1>8, <2>4, Zenon DEF A!LayersOf
    <3>2. A!Composed(padded, slots) = A!Replaced(slots[1], previous, A!Padded(r, px))
      BY ONLY LayerComposed, ZenonT(40)
    <3>3. A!Replaced(slots[1], previous, A!Padded(r, px))
          = A!Replaced(A!Cleared(slots[1], previous), r, px)
      BY <1>1, <1>8, ReplacedPadded
    <3>4. A!Composed(padded, slots) = Drawn(r, px, b)
      BY <3>2, <3>3, <2>1, Zenon
    <3> QED
      BY <1>6, <1>8, <3>1, <3>4, <2>2, Zenon
  <2> QED
    BY <2>3, <2>4
\* A blank layer first.
<1>9. CASE /\ mustClear
           /\ ~(A!Contains(r, previous) /\ ~over /\ keep)
           /\ ~(A!Contains(previous, r) /\ keep)
  <2>1. ~(r = previous /\ keep)
    <3>1. A!Contains(previous, previous)
      BY <1>1, RectIs, PngAndGifAssumption DEF A!Contains
    <3> QED
      BY <1>9, <3>1
  <2>2. A!LayersOf(r, px, over, keep) = <<blank, own>>
    BY <1>9, <2>1, Zenon DEF A!LayersOf
  <2> DEFINE t == A!Saved(blank, slots)
  <2>3. shown' = A!Composed(own, t) /\ slots' = A!Saved(own, t)
    <3> HIDE DEF own, blank
    <3> QED
      BY <2>2, TwoLayers, Zenon
  <2>4. A!Composed(blank, slots) = A!Replaced(slots[1], previous, [q \in A!Positions(previous) |-> A!Blank])
    BY ONLY LayerComposed, Zenon
  <2>5. A!Composed(blank, slots) = output
    BY <1>1, <1>9, <2>4, BlankLayer
  <2>6. t = [slots EXCEPT ![1] = A!Composed(blank, slots)]
    <3> HIDE DEF blank
    <3> QED
      BY <1>kept DEF A!Saved
  <2>7. t \in [{0, 1} -> Canvases] /\ t[1] = output
    <3> HIDE DEF t, blank
    <3> QED
      BY <1>1, <2>5, <2>6
  <2>8. own.save = save
    BY <1>kept
  <2> HIDE DEF t, blank, own
  <2>9. A!Composed(own, t) = Drawn(r, px, b)
    BY <2>7, <1>own DEF Drawn
  <2> QED
    BY ONLY <1>4, <1>9, <2>3, <2>7, <2>8, <2>9, Zenon
<1> QED
  BY <1>5, <1>7, <1>8, <1>9 

(* What is drawn in a rectangle is gone when the rectangle is cleared.      *)
LEMMA ClearedAway ==
  ASSUME NEW s \in Canvases, NEW r \in A!Rects, NEW px
  PROVE  /\ A!Cleared(A!Over(s, r, px), r) = A!Cleared(s, r)
         /\ A!Cleared(A!Replaced(s, r, px), r) = A!Cleared(s, r)
BY DEF A!Cleared, A!Over, A!Replaced

LEMMA ClearedBlank ==
  ASSUME NEW r \in A!Rects
  PROVE  A!Cleared(A!BlankCanvas, r) = A!BlankCanvas
BY DEF A!Cleared, A!BlankCanvas

(* One frame preserves ApngInv: what is saved is what the viewer keeps,     *)
(* except for what is still to be cleared.                                  *)
LEMMA ApngFrame ==
  ASSUME ApngInv, NEW r \in A!Rects, NEW px \in A!Images(r, color),
         NEW d \in 0 .. 2, NEW b \in 0 .. 1, A!AddFrame(r, px, d, b),
         A!View(r, px, d, b), color' \in A!Colors \ {color}
  PROVE  ApngInv'
<1>1. /\ nontrivial \in BOOLEAN /\ mustClear \in BOOLEAN
      /\ previous \in A!Rects /\ slots[1] \in Canvases /\ output \in Canvases
      /\ mustClear => nontrivial
      /\ ~nontrivial => slots[1] = A!BlankCanvas
      /\ output = IF mustClear THEN A!Cleared(slots[1], previous) ELSE slots[1]
      /\ color \in A!Colors
  BY DEF ApngInv
<1>2. /\ nontrivial' = KeptBy(d)
      /\ mustClear' = (KeptBy(d) /\ d = A!DISPOSE_OP_BACKGROUND)
      /\ previous' = r
  BY DEF A!AddFrame, KeptBy
<1>3. /\ displayed' = Drawn(r, px, b)
      /\ d = 0 => output' = Drawn(r, px, b)
      /\ d = 1 => output' = A!Cleared(Drawn(r, px, b), r)
      /\ d = 2 => output' = output
  BY DEF A!View, Drawn, A!DISPOSE_OP_NONE, A!DISPOSE_OP_BACKGROUND,
     A!DISPOSE_OP_PREVIOUS
<1>three. d = 0 \/ d = 1 \/ d = 2
  OBVIOUS
<1>kept. /\ d = 0 => KeepBy(d)
         /\ d = 1 => (KeepBy(d) <=> nontrivial)
         /\ d = 2 => ~KeepBy(d)
  BY <1>1 DEF KeptBy, KeepBy, A!DISPOSE_OP_NONE, A!DISPOSE_OP_PREVIOUS
<1>cleared. /\ d = 1 => (mustClear' <=> nontrivial)
            /\ d # 1 => ~mustClear'
  <2>1. d = 1 => (KeptBy(d) <=> nontrivial)
    BY DEF KeptBy, A!DISPOSE_OP_NONE
  <2>2. d = A!DISPOSE_OP_BACKGROUND <=> d = 1
    BY DEF A!DISPOSE_OP_BACKGROUND
  <2> QED
    BY <1>2, <2>1, <2>2, Zenon
<1>4. /\ shown' = Drawn(r, px, b)
      /\ slots' \in [{0, 1} -> Canvases]
      /\ slots'[1] = IF KeepBy(d) THEN Drawn(r, px, b)
                     ELSE IF mustClear THEN output ELSE slots[1]
  BY FrameDrawn
<1>5. Drawn(r, px, b) \in Canvases /\ A!Cleared(Drawn(r, px, b), r) \in Canvases
  <2>1. Drawn(r, px, b) \in Canvases
    BY <1>1, DrawnIsCanvas DEF Drawn
  <2> QED
    BY <1>1, <2>1, DrawnIsCanvas
<1>6. A!Cleared(Drawn(r, px, b), r) = A!Cleared(output, r)
  BY <1>1, ClearedAway DEF Drawn
<1>7. output' \in Canvases
  BY <1>1, <1>3, <1>5
<1>8. output' = IF mustClear' THEN A!Cleared(slots'[1], previous') ELSE slots'[1]
  <2>1. CASE d = 0
    <3>1. ~mustClear' /\ KeepBy(d)
      BY <1>kept, <1>cleared, <2>1
    <3> QED
      BY <1>3, <1>4, <2>1, <3>1
  <2>2. CASE d = 1 /\ nontrivial
    <3>1. mustClear' /\ KeepBy(d)
      BY <1>kept, <1>cleared, <2>2
    <3> QED
      BY <1>2, <1>3, <1>4, <2>2, <3>1
  <2>3. CASE d = 1 /\ ~nontrivial
    <3>1. output' = A!BlankCanvas
      BY <1>1, <1>3, <1>6, <2>3, ClearedBlank
    <3>2. ~mustClear' /\ slots'[1] = A!BlankCanvas
      BY <1>1, <1>2, <1>4, <2>3 DEF KeptBy, KeepBy, A!DISPOSE_OP_NONE,
         A!DISPOSE_OP_BACKGROUND, A!DISPOSE_OP_PREVIOUS
    <3> QED
      BY <3>1, <3>2
  <2>4. CASE d = 2
    <3>1. ~mustClear' /\ ~KeepBy(d)
      BY <1>kept, <1>cleared, <2>4
    <3> QED
      BY <1>1, <1>3, <1>4, <2>4, <3>1
  <2> QED
    BY <1>1, <1>three, <2>1, <2>2, <2>3, <2>4
<1>9. ~nontrivial' => slots'[1] = A!BlankCanvas
  BY <1>1, <1>2, <1>4 DEF KeptBy, KeepBy
<1>10. nontrivial' \in BOOLEAN /\ mustClear' \in BOOLEAN /\ (mustClear' => nontrivial')
  BY <1>1, <1>2 DEF KeptBy
<1> QED
  BY <1>2, <1>3, <1>4, <1>5, <1>7, <1>8, <1>9, <1>10 DEF ApngInv, A!Cleared, Canvases, A!Cell

LEMMA ApngStep == ApngInv /\ A!Next => ApngInv'
BY ApngFrame DEF A!Next

LEMMA ApngStarts == A!Init => ApngInv
<1> SUFFICES ASSUME A!Init PROVE ApngInv
  OBVIOUS
<1>1. A!Whole \in A!Rects
  BY PngAndGifAssumption DEF A!Whole, A!Rects
<1>2. A!NoSlots[1] = A!BlankCanvas /\ A!NoSlots \in [{0, 1} -> Canvases]
  BY BlankIsCanvas DEF A!NoSlots
<1> QED
  BY <1>1, <1>2, BlankIsCanvas DEF A!Init, ApngInv, A!Colors

LEMMA ApngStutters == ApngInv /\ UNCHANGED <<layerVars, apngVars>> => ApngInv'
BY DEF ApngInv, layerVars, apngVars

-------------------------------------------------------------------------------
(***************************************************************************)
(* GifLayers: the decoder's canvas is the viewer's screen, and a layer that *)
(* blends has that canvas below it.                                         *)
(***************************************************************************)
(* The two decoders compose layers in the same way.                         *)
LEMMA SameCanvas ==
  /\ G!Blank = A!Blank /\ G!Colors = A!Colors /\ G!Cell = A!Cell
  /\ G!Rects = A!Rects /\ G!Whole = A!Whole /\ G!BlankCanvas = A!BlankCanvas
  /\ \A r : G!Positions(r) = A!Positions(r)
  /\ \A r, k : G!Images(r, k) = A!Images(r, k)
  /\ \A r, c : G!Covers(r, c) = A!Covers(r, c) /\ G!At(r, c) = A!At(r, c)
BY DEF G!Blank, A!Blank, G!Colors, A!Colors, G!Cell, A!Cell, G!Rects, A!Rects,
   G!Whole, A!Whole, G!BlankCanvas, A!BlankCanvas, G!Positions, A!Positions,
   G!Images, A!Images, G!Covers, A!Covers, G!At, A!At

LEMMA SameDrawing ==
  ASSUME NEW s, NEW r, NEW px
  PROVE  /\ G!Over(s, r, px) = A!Over(s, r, px)
         /\ G!Replaced(s, r, px) = A!Replaced(s, r, px)
         /\ G!Cleared(s, r) = A!Cleared(s, r)
BY DEF G!Over, A!Over, G!Replaced, A!Replaced, G!Cleared, A!Cleared, G!Cell,
   A!Cell, G!Covers, A!Covers, G!At, A!At, G!Blank, A!Blank

LEMMA GifDrawnIsCanvas ==
  ASSUME NEW s \in Canvases, NEW r \in G!Rects, NEW k \in G!Colors, NEW px \in G!Images(r, k)
  PROVE  G!Over(s, r, px) \in Canvases
BY SameCanvas, SameDrawing, DrawnIsCanvas

LEMMA WholeIs ==
  /\ A!Whole \in A!Rects /\ A!Whole # G!NoRect
  /\ \A c \in A!Cell : A!Covers(A!Whole, c) /\ A!At(A!Whole, c) = c
<1>1. A!Whole \in A!Rects /\ A!Whole # G!NoRect
  BY PngAndGifAssumption DEF A!Whole, A!Rects, G!NoRect
<1>2. ASSUME NEW c \in A!Cell
      PROVE  A!Covers(A!Whole, c) /\ A!At(A!Whole, c) = c
  BY CellIs, PngAndGifAssumption DEF A!Whole, A!Covers, A!At
<1> QED
  BY <1>1, <1>2

(* A layer that covers the canvas and replaces shows its pixels.            *)
LEMMA WholeReplaced ==
  ASSUME NEW s, NEW t \in Canvases
  PROVE  A!Replaced(s, A!Whole, G!Cut(t, A!Whole)) = t
<1>1. A!Positions(A!Whole) = A!Cell
  BY PngAndGifAssumption DEF A!Positions, A!Whole, A!Cell
<1>2. \A c \in A!Cell : G!Cut(t, A!Whole)[c] = t[c]
  <2> SUFFICES ASSUME NEW c \in A!Cell PROVE G!Cut(t, A!Whole)[c] = t[c]
    OBVIOUS
  <2>1. <<c[1] + A!Whole.x0, c[2] + A!Whole.y0>> = c
    BY CellIs DEF A!Whole
  <2> QED
    BY <1>1, <2>1, SameCanvas DEF G!Cut
<1>3. \A c \in A!Cell : A!Covers(A!Whole, c) /\ A!At(A!Whole, c) = c
  BY WholeIs
<1>4. t = [c \in A!Cell |-> t[c]]
  BY DEF Canvases
<1> QED
  BY <1>2, <1>3, <1>4 DEF A!Replaced

LEMMA WholeCleared ==
  ASSUME NEW s \in Canvases
  PROVE  A!Cleared(s, A!Whole) = A!BlankCanvas
BY WholeIs DEF A!Cleared, A!BlankCanvas

(* On a blank canvas a picture of its size is drawn over it by replacing.   *)
LEMMA WholeOverBlank ==
  ASSUME NEW s, NEW k \in A!Colors, NEW px \in A!Images(A!Whole, k)
  PROVE  A!Replaced(s, A!Whole, px) = A!Over(A!BlankCanvas, A!Whole, px)
BY WholeIs DEF A!Replaced, A!Over, A!BlankCanvas

LEMMA LeastAndGreatest ==
  ASSUME NEW a \in Int, NEW b \in Int, a >= b
  PROVE  G!Min({a, b}) = b /\ G!Max({a, b}) = a
BY DEF G!Min, G!Max

LEMMA BoxIsWhole ==
  ASSUME NEW r \in A!Rects
  PROVE  G!BoundingBox(r, A!Whole) = A!Whole
<1>1. /\ r.x0 \in Int /\ r.y0 \in Int /\ r.xsize \in Int /\ r.ysize \in Int
      /\ r.x0 >= 0 /\ r.y0 >= 0 /\ r.x0 + r.xsize <= CanvasWidth /\ r.y0 + r.ysize <= CanvasHeight
      /\ CanvasWidth \in Int /\ CanvasHeight \in Int
  BY RectIs, PngAndGifAssumption
<1>2. G!Min({r.x0, 0}) = 0 /\ G!Min({r.y0, 0}) = 0
  BY <1>1, LeastAndGreatest
<1>3. G!Max({CanvasWidth, r.x0 + r.xsize}) = CanvasWidth /\ G!Max({CanvasHeight, r.y0 + r.ysize}) = CanvasHeight
  <2>1. r.x0 + r.xsize \in Int /\ r.y0 + r.ysize \in Int
    BY <1>1
  <2>2. CanvasWidth >= r.x0 + r.xsize /\ CanvasHeight >= r.y0 + r.ysize
    BY <1>1
  <2> QED
    BY <1>1, <2>1, <2>2, LeastAndGreatest, Zenon
<1>4. {r.x0 + r.xsize, CanvasWidth} = {CanvasWidth, r.x0 + r.xsize} /\ {r.y0 + r.ysize, CanvasHeight} = {CanvasHeight, r.y0 + r.ysize}
  OBVIOUS
<1>5. /\ A!Whole.x0 = 0 /\ A!Whole.y0 = 0 /\ A!Whole.xsize = CanvasWidth /\ A!Whole.ysize = CanvasHeight
      /\ 0 + CanvasWidth = CanvasWidth /\ 0 + CanvasHeight = CanvasHeight /\ CanvasWidth - 0 = CanvasWidth /\ CanvasHeight - 0 = CanvasHeight
  BY <1>1 DEF A!Whole
<1> QED
  BY <1>2, <1>3, <1>4, <1>5 DEF G!BoundingBox, A!Whole

(* What a picture adds to the layers, for each way it is added.             *)
LEMMA PictureShown ==
  ASSUME GifInv, NEW r \in G!Rects, NEW px \in G!Images(r, color),
         NEW d \in G!Disposals, G!Picture(r, px, d)
  PROVE  /\ shown' = G!Over(canvas, r, px)
         /\ slots' \in [{0, 1} -> Canvases]
         /\ animated /\ d = "do_not" => slots'[1] = shown'
         /\ animated /\ d = "previous" => slots' = slots
<1> DEFINE drawn == G!Over(canvas, r, px)
           layer == G!PictureLayer(r, px, d)
<1>1. /\ shown' = G!Composed(layer, slots) /\ slots' = G!Saved(layer, slots)
      /\ ~G!Unsupported(r) /\ ~G!Unusual(r, d) /\ gifStatus = "decoding"
  BY DEF G!Picture, G!AddPicture
<1>2. /\ slots \in [{0, 1} -> Canvases] /\ canvas \in Canvases
      /\ restored \in {G!NoRect, G!Whole}
      /\ ~lastBaseNone /\ restored = G!NoRect => slots[1] = canvas
      /\ ~animated => canvas = A!BlankCanvas /\ restored = G!NoRect
      /\ animated \in BOOLEAN /\ lastBaseNone \in BOOLEAN
      /\ color \in A!Colors
  BY <1>1, SameCanvas DEF GifInv
<1>3. r \in A!Rects /\ px \in A!Images(r, color)
  BY SameCanvas
<1>4. drawn \in Canvases /\ drawn = A!Over(canvas, r, px)
  BY <1>2, GifDrawnIsCanvas, SameCanvas, SameDrawing
<1>5. G!Whole = A!Whole
  BY SameCanvas
<1>save. G!SaveSlot(d) \in {0, 1}
  BY DEF G!SaveSlot
<1>6. CASE animated /\ G!Replaces
  <2>1. G!TotalRect(r) = A!Whole
    <3>1. CASE restored = G!NoRect
      BY <1>1, <1>5, <1>6, <3>1 DEF G!Unsupported, G!Replaces
    <3>2. CASE restored # G!NoRect
      BY <1>2, <1>3, <1>5, <3>2, BoxIsWhole DEF G!TotalRect
    <3> QED
      BY <3>1, <3>2
  <2> DEFINE src == IF lastBaseNone THEN 0 ELSE 1
             l == G!Layer(A!Whole, G!Cut(drawn, A!Whole), ~G!Replaces, src, G!SaveSlot(d))
  <2>2. layer = l
    BY <1>6, <2>1, Zenon DEF G!PictureLayer
  <2>3. /\ l.rect = A!Whole /\ l.pixels = G!Cut(drawn, A!Whole)
        /\ ~l.blend /\ l.source = src /\ l.save = G!SaveSlot(d)
    BY <1>6, Zenon DEF G!Layer
  <2> HIDE DEF l, layer, src
  <2>4. G!Composed(l, slots) = G!Replaced(slots[src], A!Whole, G!Cut(drawn, A!Whole))
    BY <2>3, Zenon DEF G!Composed
  <2>5. G!Composed(l, slots) = drawn
    BY <1>4, <2>4, SameDrawing, WholeReplaced
  <2>6. shown' = drawn
    BY <1>1, <2>2, <2>5
  <2>7. slots' = IF G!SaveSlot(d) = 0 THEN slots
                 ELSE [slots EXCEPT ![G!SaveSlot(d)] = drawn]
    BY <1>1, <2>2, <2>3, <2>5 DEF G!Saved
  <2> HIDE DEF drawn
  <2>8. slots' \in [{0, 1} -> Canvases]
    BY <1>2, <1>4, <1>save, <2>7
  <2>9. d = "do_not" => slots'[1] = drawn
    BY <1>2, <2>7 DEF G!SaveSlot
  <2>10. d = "previous" => slots' = slots
    BY <2>7 DEF G!SaveSlot
  <2> QED
    BY <2>6, <2>8, <2>9, <2>10 DEF drawn
<1>7. CASE animated /\ ~G!Replaces
  <2>1. restored = G!NoRect /\ ~lastBaseNone /\ slots[1] = canvas
    BY <1>2, <1>7 DEF G!Replaces
  <2>2. G!TotalRect(r) = r
    BY <2>1 DEF G!TotalRect
  <2> DEFINE l == G!Layer(r, px, ~G!Replaces, 1, G!SaveSlot(d))
  <2>3. layer = l
    BY <1>7, <2>1, <2>2, Zenon DEF G!PictureLayer
  <2>4. l.rect = r /\ l.pixels = px /\ l.blend /\ l.source = 1 /\ l.save = G!SaveSlot(d)
    BY <1>7, Zenon DEF G!Layer
  <2> HIDE DEF l, layer
  <2>5. G!Composed(l, slots) = drawn
    BY <2>1, <2>4, Zenon DEF G!Composed
  <2>6. shown' = drawn
    BY <1>1, <2>3, <2>5
  <2>7. slots' = IF G!SaveSlot(d) = 0 THEN slots
                 ELSE [slots EXCEPT ![G!SaveSlot(d)] = drawn]
    BY <1>1, <2>3, <2>4, <2>5 DEF G!Saved
  <2> HIDE DEF drawn
  <2>8. slots' \in [{0, 1} -> Canvases]
    BY <1>2, <1>4, <1>save, <2>7
  <2>9. d = "do_not" => slots'[1] = drawn
    BY <1>2, <2>7 DEF G!SaveSlot
  <2>10. d = "previous" => slots' = slots
    BY <2>7 DEF G!SaveSlot
  <2> QED
    BY <2>6, <2>8, <2>9, <2>10 DEF drawn
<1>8. CASE ~animated
  <2>1. r = A!Whole /\ canvas = A!BlankCanvas /\ restored = G!NoRect
    BY <1>1, <1>2, <1>5, <1>8 DEF G!Unusual
  <2>2. ~G!Replaces /\ [r EXCEPT !.x0 = 0, !.y0 = 0] = A!Whole
    <3>1. ~G!Replaces
      BY <1>8, <2>1 DEF G!Replaces
    <3>2. [A!Whole EXCEPT !.x0 = 0, !.y0 = 0] = A!Whole
      <4>1. \A w \in [x0 : Int, y0 : Int, xsize : Int, ysize : Int] :
              w.x0 = 0 /\ w.y0 = 0 => [w EXCEPT !.x0 = 0, !.y0 = 0] = w
        OBVIOUS
      <4>2. A!Whole \in [x0 : Int, y0 : Int, xsize : Int, ysize : Int]
        BY PngAndGifAssumption DEF A!Whole
      <4>3. A!Whole.x0 = 0 /\ A!Whole.y0 = 0
        BY DEF A!Whole
      <4> QED
        BY <4>1, <4>2, <4>3
    <3> QED
      BY <2>1, <3>1, <3>2
  <2> DEFINE l == G!Layer(A!Whole, px, FALSE, 0, 0)
  <2>3. layer = l
    BY <1>8, <2>2, Zenon DEF G!PictureLayer
  <2>4. l.rect = A!Whole /\ l.pixels = px /\ ~l.blend /\ l.source = 0 /\ l.save = 0
    BY Zenon DEF G!Layer
  <2> HIDE DEF l, layer
  <2>5. G!Composed(l, slots) = G!Replaced(slots[0], A!Whole, px)
    BY <2>4, Zenon DEF G!Composed
  <2>6. G!Composed(l, slots) = drawn
    BY <1>2, <1>3, <1>4, <2>1, <2>5, SameDrawing, WholeOverBlank
  <2>7. shown' = drawn /\ slots' = slots
    BY <1>1, <2>3, <2>4, <2>6 DEF G!Saved
  <2> QED
    BY <1>2, <1>8, <2>7
<1> QED
  BY <1>6, <1>7, <1>8

(* One picture preserves GifInv.                                            *)
LEMMA GifPicture ==
  ASSUME GifInv, NEW r \in G!Rects, NEW px \in G!Images(r, color),
         NEW d \in G!Disposals, G!Picture(r, px, d)
  PROVE  GifInv'
<1> DEFINE drawn == G!Over(canvas, r, px)
<1>1. /\ shown' = drawn
      /\ slots' \in [{0, 1} -> Canvases]
      /\ animated /\ d = "do_not" => slots'[1] = shown'
      /\ animated /\ d = "previous" => slots' = slots
  BY PictureShown
<1>2. /\ canvas' = G!Disposed(r, px, d)
      /\ restored' = IF d = "background" THEN r ELSE G!NoRect
      /\ ~G!Unusual(r, d)
      /\ gifStatus = "decoding"
      /\ gifStatus' = IF animated THEN "decoding" ELSE "complete"
      /\ color' \in G!Colors /\ animated' = animated
  BY DEF G!Picture, G!AddPicture
<1>3. lastBaseNone' = IF animated /\ d # "previous" THEN d = "unspecified" ELSE lastBaseNone
  BY DEF G!Picture, G!AddPicture
<1>4. /\ displayed' = G!Over(screen, r, px)
      /\ d = "do_not" => screen' = G!Over(screen, r, px)
      /\ d = "previous" => screen' = screen
      /\ d = "background" => screen' = G!Cleared(G!Over(screen, r, px), r)
      /\ d = "unspecified" => screen' = G!BlankCanvas
  BY DEF G!Picture, G!View
<1>5. /\ canvas \in Canvases /\ canvas = screen /\ animated \in BOOLEAN
      /\ lastBaseNone \in BOOLEAN /\ (~animated => lastBaseNone)
      /\ restored \in {G!NoRect, G!Whole}
      /\ ~lastBaseNone /\ restored = G!NoRect => slots[1] = canvas
  BY DEF GifInv
<1>6. drawn \in Canvases
  BY <1>5, GifDrawnIsCanvas DEF GifInv
<1>7. d \in {"unspecified", "do_not", "background", "previous"}
  BY DEF G!Disposals
<1>8. d = "background" => r = G!Whole
  BY <1>2 DEF G!Unusual
<1>9. canvas' \in Canvases /\ canvas' = screen'
  <2>1. CASE d = "do_not"
    BY <1>2, <1>4, <1>5, <1>6, <2>1 DEF G!Disposed
  <2>2. CASE d = "previous"
    BY <1>2, <1>4, <1>5, <2>2 DEF G!Disposed
  <2>3. CASE d = "background"
    <3>1. canvas' = A!BlankCanvas
      BY <1>2, <2>3, SameCanvas DEF G!Disposed
    <3>2. screen' = A!Cleared(drawn, A!Whole)
      BY <1>4, <1>5, <1>8, <2>3, SameCanvas, SameDrawing
    <3>3. A!Cleared(drawn, A!Whole) = A!BlankCanvas
      BY <1>6, WholeCleared
    <3> QED
      BY <3>1, <3>2, <3>3, BlankIsCanvas
  <2>4. CASE d = "unspecified"
    BY <1>2, <1>4, <2>4, SameCanvas, BlankIsCanvas DEF G!Disposed
  <2> QED
    BY <1>7, <2>1, <2>2, <2>3, <2>4
<1>10. ~lastBaseNone' /\ restored' = G!NoRect => slots'[1] = canvas'
  <2> SUFFICES ASSUME ~lastBaseNone', restored' = G!NoRect PROVE slots'[1] = canvas'
    OBVIOUS
  <2>1. animated
    BY <1>3, <1>5
  <2>2. d # "background"
    BY <1>2, <1>8, WholeIs, SameCanvas
  <2>3. d # "unspecified"
    BY <1>3, <2>1
  <2>4. CASE d = "do_not"
    BY <1>1, <1>2, <2>1, <2>4 DEF G!Disposed
  <2>5. CASE d = "previous"
    <3>1. ~lastBaseNone
      BY <1>3, <2>1, <2>5
    <3>2. restored = G!NoRect
      BY <1>2, <2>5 DEF G!Unusual
    <3> QED
      BY <1>1, <1>2, <1>5, <2>1, <2>5, <3>1, <3>2 DEF G!Disposed
  <2> QED
    BY <1>7, <2>2, <2>3, <2>4, <2>5
<1>11. restored' \in {G!NoRect, G!Whole}
  BY <1>2, <1>8
<1>12. lastBaseNone' \in BOOLEAN /\ (~animated => lastBaseNone')
  BY <1>3, <1>5
<1>13. shown' \in Canvases /\ shown' = displayed'
  BY <1>1, <1>4, <1>5, <1>6
<1>14. gifStatus' \in {"decoding", "complete", "failed"} /\ (gifStatus' = "decoding" => animated)
  BY <1>2
<1> QED
  BY <1>1, <1>2, <1>5, <1>9, <1>10, <1>11, <1>12, <1>13, <1>14
  DEF GifInv, Canvases, G!NoRect, G!Whole, G!Colors

LEMMA GifStep == GifInv /\ G!Next => GifInv'
<1> SUFFICES ASSUME GifInv, G!Next PROVE GifInv'
  OBVIOUS
<1>1. ASSUME NEW r \in G!Rects, NEW d \in G!Disposals, NEW px \in G!Images(r, color),
             G!Picture(r, px, d)
      PROVE  GifInv'
  BY <1>1, GifPicture
<1>2. ASSUME G!Refuse
      PROVE  GifInv'
  BY <1>2 DEF G!Refuse, GifInv, Canvases, G!NoRect, G!Whole, G!Colors
<1> QED
  BY <1>1, <1>2 DEF G!Next

LEMMA GifStarts == G!Init => GifInv
<1> SUFFICES ASSUME G!Init PROVE GifInv
  OBVIOUS
<1>1. G!NoSlots \in [{0, 1} -> Canvases] /\ G!BlankCanvas \in Canvases
  BY BlankIsCanvas, SameCanvas DEF G!NoSlots
<1> QED
  BY <1>1 DEF G!Init, GifInv, G!Colors

LEMMA GifStutters == GifInv /\ UNCHANGED <<layerVars, gifVars>> => GifInv'
BY DEF GifInv, layerVars, gifVars, Canvases, G!NoRect, G!Whole, G!Colors

-------------------------------------------------------------------------------
-------------------------------------------------------------------------------
(***************************************************************************)
(* ApngChunks: the chunks of a PNG, one at a time.                         *)
(***************************************************************************)
LEMMA LastChanges ==
  ASSUME NEW S, NEW s \in Seq(S), NEW x \in S, NEW y \in S
  PROVE  [Append(s, x) EXCEPT ![Len(Append(s, x))] = y] = Append(s, y)
<1> DEFINE n == Len(s) + 1
           c == Append(s, x)
           e == Append(s, y)
<1>1. /\ c \in Seq(S) /\ Len(c) = n /\ e \in Seq(S) /\ Len(e) = n
      /\ \A i \in 1 .. Len(s) : c[i] = s[i] /\ e[i] = s[i]
      /\ c[n] = x /\ e[n] = y
  BY AppendProperties
<1>2. Len(s) \in Nat /\ n \in Nat /\ 1 .. n = 1 .. Len(s) \cup {n}
  OBVIOUS
<1> HIDE DEF c, e, n
<1>3. c \in [1 .. n -> S] /\ e \in [1 .. n -> S]
  BY <1>1
<1>4. \A i \in 1 .. n : [c EXCEPT ![n] = y][i] = e[i]
  BY <1>1, <1>2, <1>3
<1>5. [c EXCEPT ![n] = y] = e
  BY <1>3, <1>4
<1> QED
  BY <1>1, <1>5 DEF c, e, n

(* What a chunk more says about the chunks there are.                       *)
LEMMA ChunkMore ==
  ASSUME NEW f \in Seq(ChunkKinds), NEW k \in ChunkKinds
  PROVE  /\ Append(f, k) \in Seq(ChunkKinds)
         /\ Append(f, k) # <<>> /\ Append(f, k)[Len(Append(f, k))] = k
         /\ \A x : (\E i \in DOMAIN Append(f, k) : Append(f, k)[i] = x)
                     <=> (\E i \in DOMAIN f : f[i] = x) \/ k = x
<1>1. /\ Append(f, k) \in Seq(ChunkKinds) /\ Len(Append(f, k)) = Len(f) + 1
      /\ Append(f, k)[Len(f) + 1] = k
      /\ \A i \in 1 .. Len(f) : Append(f, k)[i] = f[i]
  BY AppendProperties
<1>2. DOMAIN f = 1 .. Len(f) /\ DOMAIN Append(f, k) = 1 .. Len(f) + 1 /\ Len(f) \in Nat
  BY <1>1, LenProperties
<1>3. Append(f, k) # <<>>
  BY AppendProperties
<1> QED
  BY <1>1, <1>2, <1>3

LEMMA ChunkComes ==
  ASSUME NEW k \in ChunkKinds, file \in Seq(ChunkKinds), C!Comes(k)
  PROVE  /\ pngStatus = "reading"
         /\ file' \in Seq(ChunkKinds) /\ C!LastKind' = k
         /\ \A x : C!Has(x)' <=> C!Has(x) \/ k = x
BY ChunkMore DEF C!Comes, C!Has, C!LastKind

LEMMA PictureIs ==
  ASSUME NEW z \in Sizes, NEW d \in Sizes, NEW p \in BOOLEAN, NEW n \in Nat
  PROVE  /\ C!Picture(z, d, p, n) \in PictureSet
         /\ [C!Picture(z, d, p, n) EXCEPT !.data = @ + 1] = C!Picture(z, d, p, n + 1)
BY DEF C!Picture, PictureSet

(* What png holds after another chunk of data.                              *)
LEMMA DataMore ==
  ASSUME png \in [size : Sizes, palette : BOOLEAN, data : Nat],
         png' = [png EXCEPT !.data = @ + 1]
  PROVE  /\ png' \in [size : Sizes, palette : BOOLEAN, data : Nat]
         /\ png'.size = png.size /\ png'.palette = png.palette
         /\ png'.data = png.data + 1
OBVIOUS

(* The picture that libpng is given gets more data, in both accounts.       *)
MoreData(m) == [m EXCEPT ![Len(m)].data = @ + 1]

LEMMA MeantMore ==
  ASSUME NEW s \in Seq(PictureSet), NEW z \in Sizes, NEW p \in BOOLEAN, NEW n \in Nat
  PROVE  MoreData(Append(s, C!Picture(z, z, p, n))) = Append(s, C!Picture(z, z, p, n + 1))
<1> DEFINE x == C!Picture(z, z, p, n)
           y == C!Picture(z, z, p, n + 1)
           m == Append(s, x)
<1>1. x \in PictureSet /\ y \in PictureSet /\ [x EXCEPT !.data = @ + 1] = y
  <2>1. n + 1 \in Nat
    OBVIOUS
  <2>2. x \in PictureSet /\ [x EXCEPT !.data = @ + 1] = y
    BY PictureIs
  <2>3. y \in PictureSet
    BY ONLY <2>1, PictureIs, z \in Sizes, p \in BOOLEAN
  <2> QED
    BY <2>2, <2>3
<1> HIDE DEF x, y
<1>2. m[Len(m)] = x
  BY <1>1, AppendProperties
<1>3. [m EXCEPT ![Len(m)] = y] = Append(s, y)
  BY <1>1, LastChanges
<1> HIDE DEF m
<1>4. MoreData(m) = [m EXCEPT ![Len(m)] = [m[Len(m)] EXCEPT !.data = @ + 1]]
  BY DEF MoreData
<1> QED
  BY <1>1, <1>2, <1>3, <1>4 DEF x, y, m

LEMMA ChunksStep == ChunksInv /\ C!Next => ChunksInv'
<1> SUFFICES ASSUME ChunksInv, C!Next PROVE ChunksInv'
  OBVIOUS
<1>1. /\ file \in Seq(ChunkKinds)
      /\ isAnimated \in BOOLEAN /\ hasInfo \in BOOLEAN /\ saved \in BOOLEAN
      /\ png \in [size : Sizes, palette : BOOLEAN, data : Nat]
      /\ png.size = control /\ png.palette = saved
      /\ frames \in Seq(PictureSet)
  BY DEF ChunksInv
<1>2. (hasInfo <=> C!Has("IDAT")) /\ (saved <=> C!Has("PLTE"))
  BY DEF ChunksInv
<1>3. /\ pngStatus # "done" /\ hasInfo =>
           meant = Append(frames, C!Picture(control, png.size, png.palette, png.data))
      /\ pngStatus # "done" /\ ~hasInfo =>
           control = C!Canvas /\ png.data = 0 /\ frames = <<>> /\ meant = <<>>
      /\ pngStatus # "done" /\ C!LastKind = "IDAT" => control = C!Canvas /\ frames = <<>>
  BY DEF ChunksInv
<1>4. {"acTL", "PLTE", "IDAT", "fcTL", "fdAT"} = ChunkKinds
  BY DEF ChunkKinds
<1>5. CASE C!AnimationControl
  <2>1. C!Comes("acTL") /\ isAnimated' = TRUE
        /\ UNCHANGED <<hasInfo, control, saved, png, frames, meant, pngStatus>>
    BY <1>5 DEF C!AnimationControl
  <2>2. /\ pngStatus = "reading" /\ file' \in Seq(ChunkKinds) /\ C!LastKind' = "acTL"
        /\ \A x : C!Has(x)' <=> C!Has(x) \/ "acTL" = x
    BY <1>1, <1>4, <2>1, ChunkComes
  <2>3. (C!Has("IDAT")' <=> C!Has("IDAT")) /\ (C!Has("PLTE")' <=> C!Has("PLTE"))
    BY <2>2
  <2> QED
    BY <1>1, <1>2, <1>3, <2>1, <2>2, <2>3 DEF ChunksInv, C!Canvas, C!Picture, PictureSet
<1>6. CASE C!Palette
  <2>1. /\ C!Comes("PLTE") /\ ~C!Has("IDAT") /\ png' = [png EXCEPT !.palette = TRUE]
        /\ saved' = (saved \/ ~hasInfo)
        /\ UNCHANGED <<isAnimated, hasInfo, control, frames, meant, pngStatus>>
    BY <1>6 DEF C!Palette
  <2>2. /\ pngStatus = "reading" /\ file' \in Seq(ChunkKinds) /\ C!LastKind' = "PLTE"
        /\ \A x : C!Has(x)' <=> C!Has(x) \/ "PLTE" = x
    BY <1>1, <1>4, <2>1, ChunkComes
  <2>3. (C!Has("IDAT")' <=> C!Has("IDAT")) /\ C!Has("PLTE")'
    BY <2>2
  <2>4. ~hasInfo /\ saved' = TRUE
    BY <1>1, <1>2, <2>1
  <2>5. /\ png' \in [size : Sizes, palette : BOOLEAN, data : Nat]
        /\ png'.size = png.size /\ png'.palette = TRUE /\ png'.data = png.data
    BY <1>1, <2>1
  <2> QED
    BY <1>1, <1>2, <1>3, <2>1, <2>2, <2>3, <2>4, <2>5 DEF ChunksInv, C!Canvas
<1>7. CASE C!ImageData
  <2>1. /\ C!Comes("IDAT") /\ (C!Has("IDAT") => C!LastKind = "IDAT") /\ hasInfo' = TRUE
        /\ UNCHANGED <<isAnimated, control, saved, frames>>
    BY <1>7 DEF C!ImageData
  <2>2. /\ pngStatus = "reading" /\ file' \in Seq(ChunkKinds) /\ C!LastKind' = "IDAT"
        /\ \A x : C!Has(x)' <=> C!Has(x) \/ "IDAT" = x
    BY <1>1, <1>4, <2>1, ChunkComes
  <2>3. C!Has("IDAT")' /\ (C!Has("PLTE")' <=> C!Has("PLTE"))
    BY <2>2
  <2>4. control = C!Canvas /\ frames = <<>>
    BY <1>2, <1>3, <2>1, <2>2
  <2>5. png' = [png EXCEPT !.data = @ + 1] /\ pngStatus' = pngStatus
    BY <1>1, <1>7, <2>4 DEF C!ImageData
  <2>6. /\ png' \in [size : Sizes, palette : BOOLEAN, data : Nat]
        /\ png'.size = png.size /\ png'.palette = png.palette
        /\ png'.data = png.data + 1
    BY <1>1, <2>5, DataMore
  <2>7. meant' = Append(frames, C!Picture(control, control, saved, png'.data))
    <3>1. CASE C!Has("IDAT")
      <4>1. meant' = [meant EXCEPT ![1].data = @ + 1]
        BY <1>7, <3>1 DEF C!ImageData
      <4>2. meant = Append(frames, C!Picture(control, control, saved, png.data))
        BY <1>1, <1>2, <1>3, <2>2, <3>1
      <4>3. Len(meant) = 1
        BY <2>4, <4>2
      <4>4. control \in Sizes /\ png.data \in Nat
        BY <1>1
      <4>more. MoreData(Append(frames, C!Picture(control, control, saved, png.data)))
              = Append(frames, C!Picture(control, control, saved, png.data + 1))
        BY ONLY <1>1, <4>4, MeantMore
      <4>5. [meant EXCEPT ![Len(meant)].data = @ + 1]
            = Append(frames, C!Picture(control, control, saved, png.data + 1))
        BY <4>2, <4>more DEF MoreData
      <4> QED
        BY <2>6, <4>1, <4>3, <4>5
    <3>2. CASE ~C!Has("IDAT")
      <4>1. meant' = <<C!Picture(C!Canvas, C!Canvas, C!Has("PLTE"), 1)>>
        BY <1>7, <3>2 DEF C!ImageData
      <4>2. C!Has("PLTE") = saved
        BY <1>1, <1>2 DEF C!Has
      <4>3. png'.data = 1
        BY <1>2, <1>3, <2>2, <2>6, <3>2
      <4>4. Append(<<>>, C!Picture(control, control, saved, 1)) = <<C!Picture(control, control, saved, 1)>>
        OBVIOUS
      <4> QED
        BY <2>4, <4>1, <4>2, <4>3, <4>4
    <3> QED
      BY <3>1, <3>2
  <2> QED
    BY <1>1, <1>2, <2>1, <2>2, <2>3, <2>4, <2>5, <2>6, <2>7 DEF ChunksInv
<1>8. CASE C!FrameData
  <2>1. /\ C!Comes("fdAT") /\ C!Has("IDAT")
        /\ UNCHANGED <<isAnimated, hasInfo, control, saved, frames, pngStatus>>
    BY <1>8 DEF C!FrameData
  <2>2. /\ pngStatus = "reading" /\ file' \in Seq(ChunkKinds) /\ C!LastKind' = "fdAT"
        /\ \A x : C!Has(x)' <=> C!Has(x) \/ "fdAT" = x
    BY <1>1, <1>4, <2>1, ChunkComes
  <2>3. (C!Has("IDAT")' <=> C!Has("IDAT")) /\ (C!Has("PLTE")' <=> C!Has("PLTE"))
    BY <2>2
  <2>4. meant = Append(frames, C!Picture(control, control, saved, png.data))
    BY <1>1, <1>2, <1>3, <2>1, <2>2
  <2>5. CASE isAnimated
    <3>1. png' = [png EXCEPT !.data = @ + 1] /\ meant' = [meant EXCEPT ![Len(meant)].data = @ + 1]
      BY <1>8, <2>5 DEF C!FrameData
    <3>2. /\ png' \in [size : Sizes, palette : BOOLEAN, data : Nat]
          /\ png'.size = png.size /\ png'.palette = png.palette
          /\ png'.data = png.data + 1
      BY <1>1, <3>1, DataMore
    <3>3. control \in Sizes /\ png.data \in Nat
      BY <1>1
    <3>4. meant' = Append(frames, C!Picture(control, control, saved, png.data + 1))
      <4>more. MoreData(Append(frames, C!Picture(control, control, saved, png.data)))
              = Append(frames, C!Picture(control, control, saved, png.data + 1))
        BY ONLY <1>1, <3>3, MeantMore
      <4>1. [meant EXCEPT ![Len(meant)].data = @ + 1]
            = Append(frames, C!Picture(control, control, saved, png.data + 1))
        BY <2>4, <4>more DEF MoreData
      <4> QED
        BY <3>1, <4>1
    <3> QED
      BY <1>1, <1>2, <2>1, <2>2, <2>3, <3>2, <3>4 DEF ChunksInv
  <2>6. CASE ~isAnimated
    <3>1. UNCHANGED <<png, meant>>
      BY <1>8, <2>6 DEF C!FrameData
    <3> QED
      BY <1>1, <1>2, <2>1, <2>2, <2>3, <2>4, <3>1 DEF ChunksInv
  <2> QED
    BY <2>5, <2>6
<1>9. ASSUME NEW z \in Sizes, C!FrameControl(z)
      PROVE  ChunksInv'
  <2>1. /\ C!Comes("fcTL") /\ (~C!Has("IDAT") => z = C!Canvas)
        /\ UNCHANGED <<isAnimated, hasInfo, saved, pngStatus>>
    BY <1>9 DEF C!FrameControl
  <2>2. /\ pngStatus = "reading" /\ file' \in Seq(ChunkKinds) /\ C!LastKind' = "fcTL"
        /\ \A x : C!Has(x)' <=> C!Has(x) \/ "fcTL" = x
    BY <1>1, <1>4, <2>1, ChunkComes
  <2>3. (C!Has("IDAT")' <=> C!Has("IDAT")) /\ (C!Has("PLTE")' <=> C!Has("PLTE"))
    BY <2>2
  <2>4. CASE hasInfo /\ isAnimated
    <3>1. /\ control' = z /\ frames' = C!Delivered(z) /\ png' = C!Started(z)
          /\ meant' = Append(meant, C!Picture(z, z, C!Has("PLTE"), 0))
      BY <1>9, <2>4 DEF C!FrameControl, C!PassedOn
    <3>2. frames' = meant
      BY <1>3, <2>2, <2>4, <3>1 DEF C!Delivered
    <3>3. C!Has("PLTE") = saved
      BY <1>1, <1>2 DEF C!Has
    <3>4. /\ png' \in [size : Sizes, palette : BOOLEAN, data : Nat]
          /\ png'.size = z /\ png'.palette = saved /\ png'.data = 0
      BY <1>1, <3>1 DEF C!Started
    <3>5. frames' \in Seq(PictureSet)
      <4>1. C!Picture(control, png.size, png.palette, png.data) \in PictureSet
        BY <1>1, PictureIs
      <4> QED
        BY <1>1, <3>1, <4>1, AppendProperties DEF C!Delivered
    <3> QED
      BY <1>1, <1>2, <2>1, <2>2, <2>3, <2>4, <3>1, <3>2, <3>3, <3>4, <3>5 DEF ChunksInv
  <2>5. CASE hasInfo /\ ~isAnimated
    <3>1. UNCHANGED <<control, png, frames, meant>>
      BY <1>9, <2>5 DEF C!FrameControl, C!PassedOn
    <3> QED
      BY <1>1, <1>2, <1>3, <2>1, <2>2, <2>3, <2>5, <3>1 DEF ChunksInv, C!Picture
  <2>6. CASE ~hasInfo
    <3>1. control' = z /\ UNCHANGED <<png, frames, meant>>
      BY <1>9, <2>6 DEF C!FrameControl, C!PassedOn
    <3>2. z = control
      BY <1>2, <1>3, <2>1, <2>2, <2>6
    <3> QED
      BY <1>1, <1>2, <1>3, <2>1, <2>2, <2>3, <2>6, <3>1, <3>2 DEF ChunksInv, C!Canvas
  <2> QED
    BY <2>4, <2>5, <2>6
<1>10. CASE C!End
  <2>1. /\ pngStatus = "reading" /\ pngStatus' = "done"
        /\ frames' = IF hasInfo THEN C!Delivered(control) ELSE frames
        /\ UNCHANGED <<file, isAnimated, hasInfo, control, saved, png, meant>>
    BY <1>10 DEF C!End
  <2>2. frames' = meant
    BY <1>3, <2>1 DEF C!Delivered
  <2>3. frames' \in Seq(PictureSet)
    <3>1. C!Picture(control, png.size, png.palette, png.data) \in PictureSet
      BY <1>1, PictureIs
    <3> QED
      BY <1>1, <2>1, <3>1, AppendProperties DEF C!Delivered
  <2>4. (C!Has("IDAT")' <=> C!Has("IDAT")) /\ (C!Has("PLTE")' <=> C!Has("PLTE"))
    BY <2>1 DEF C!Has
  <2> QED
    BY <1>1, <1>2, <2>1, <2>2, <2>3, <2>4 DEF ChunksInv
<1>11. CASE C!Refuse
  <2>1. /\ pngStatus = "reading" /\ pngStatus' = "refused"
        /\ UNCHANGED <<file, isAnimated, hasInfo, control, saved, png, frames, meant>>
    BY <1>11 DEF C!Refuse
  <2>2. /\ (C!Has("IDAT")' <=> C!Has("IDAT")) /\ (C!Has("PLTE")' <=> C!Has("PLTE"))
        /\ C!LastKind' = C!LastKind
    BY <2>1 DEF C!Has, C!LastKind
  <2> QED
    BY <1>1, <1>2, <1>3, <2>1, <2>2 DEF ChunksInv, C!Picture, C!Canvas
<1> QED
  BY <1>5, <1>6, <1>7, <1>8, <1>9, <1>10, <1>11 DEF C!Next

LEMMA ChunksStart == C!Init => ChunksInv
<1> SUFFICES ASSUME C!Init PROVE ChunksInv
  OBVIOUS
<1>1. \A b \in BOOLEAN : LET x == [size |-> 0, palette |-> b, data |-> 0] IN
        x \in [size : Sizes, palette : BOOLEAN, data : Nat] /\ x.size = 0 /\ x.palette = b /\ x.data = 0
  BY PngAndGifAssumption
<1>2. LET x == [size |-> 0, palette |-> FALSE, data |-> 0] IN
        x \in [size : Sizes, palette : BOOLEAN, data : Nat] /\ x.size = 0 /\ x.palette = FALSE /\ x.data = 0
  BY <1>1, Zenon
<1>3. /\ png \in [size : Sizes, palette : BOOLEAN, data : Nat]
      /\ png.size = 0 /\ png.palette = FALSE /\ png.data = 0
  BY <1>2, Zenon DEF C!Init, C!Canvas
<1>4. /\ file = <<>> /\ frames = <<>> /\ meant = <<>> /\ control = 0
      /\ isAnimated = FALSE /\ hasInfo = FALSE /\ saved = FALSE /\ pngStatus = "reading"
  BY DEF C!Init, C!Canvas
<1>5. ~C!Has("IDAT") /\ ~C!Has("PLTE") /\ C!LastKind = "IHDR"
  BY <1>4 DEF C!Has, C!LastKind
<1>6. file \in Seq(ChunkKinds) /\ frames \in Seq(PictureSet)
  BY <1>4
<1> QED
  BY <1>3, <1>4, <1>5, <1>6 DEF ChunksInv, C!Canvas

LEMMA ChunksStutter == ChunksInv /\ UNCHANGED chunkVars => ChunksInv'
BY DEF ChunksInv, chunkVars, C!Has, C!LastKind, C!Canvas, C!Picture

-------------------------------------------------------------------------------
(***************************************************************************)
(* PngColor: what the chunks so far say, whatever their order.             *)
(***************************************************************************)
ColorKinds == {"iCCP", "sRGB", "gAMA", "cHRM"}
ChunkIds == ColorKinds \cup {"IDAT", "damaged"}

(* The last of the good chunks of a kind, one chunk later.                  *)
LEMMA LastAfter ==
  ASSUME NEW k \in ChunkIds, NEW g \in BOOLEAN, pngSeen \in Seq(P!Chunk),
         [id |-> k, good |-> g] \in P!Chunk,
         pngSeen' = Append(pngSeen, [id |-> k, good |-> g])
  PROVE  /\ pngSeen' \in Seq(P!Chunk) /\ Len(pngSeen') = Len(pngSeen) + 1
         /\ \A id, d : P!LastOf(id, d)' = IF k = id /\ g THEN Len(pngSeen) + 1
                                          ELSE P!LastOf(id, d)
         /\ \A id : P!Given(id)' <=> (k = id /\ g) \/ P!Given(id)
         /\ \A i : P!IsFirstProfile(i) =>
              \A j : j = (IF k = "iCCP" /\ g /\ i = P!Absent THEN Len(pngSeen) + 1 ELSE i) =>
                P!IsFirstProfile(j)'
         /\ P!HasImageData' <=> P!HasImageData \/ k = "IDAT"
<1> DEFINE n == Len(pngSeen)
           c == [id |-> k, good |-> g]
<1>1. /\ pngSeen' \in Seq(P!Chunk) /\ Len(pngSeen') = n + 1
      /\ pngSeen'[n + 1] = c
      /\ \A i \in 1 .. n : pngSeen'[i] = pngSeen[i]
  BY AppendProperties
<1>2. DOMAIN pngSeen = 1 .. n /\ DOMAIN pngSeen' = 1 .. n + 1 /\ n \in Nat
  BY <1>1, LenProperties
<1>3. c.id = k /\ (c.good <=> g)
  OBVIOUS
<1> HIDE DEF n, c
<1>4. ASSUME NEW id, NEW d
      PROVE  P!LastOf(id, d)' = IF k = id /\ g THEN n + 1 ELSE P!LastOf(id, d)
  <2> DEFINE old == {i \in DOMAIN pngSeen : pngSeen[i].id = id /\ pngSeen[i].good}
             new == {i \in DOMAIN pngSeen' : pngSeen'[i].id = id /\ pngSeen'[i].good}
  <2>1. CASE k = id /\ g
    <3>1. new = old \cup {n + 1}
      BY <1>1, <1>2, <1>3, <2>1
    <3>2. old \subseteq 1 .. n
      BY <1>2
    <3> HIDE DEF old
    <3>3. (CHOOSE i \in old \cup {n + 1} : \A j \in old \cup {n + 1} : j <= i) = n + 1
      <4> DEFINE all == old \cup {n + 1}
      <4>1. n + 1 \in all /\ \A j \in all : j <= n + 1
        BY <1>2, <3>2
      <4>2. \A i \in all : (\A j \in all : j <= i) => i = n + 1
        BY <1>2, <3>2
      <4> HIDE DEF all
      <4>3. (CHOOSE i \in all : \A j \in all : j <= i) = n + 1
        BY <4>1, <4>2
      <4> QED
        BY <4>3 DEF all
    <3>4. P!LastOf(id, d)' = n + 1
      BY <3>1, <3>3 DEF P!LastOf
    <3> QED
      BY <2>1, <3>4
  <2>2. CASE ~(k = id /\ g)
    <3>1. new = old
      BY <1>1, <1>2, <1>3, <2>2
    <3>2. P!LastOf(id, d) = IF old = {} THEN d ELSE CHOOSE i \in old : \A j \in old : j <= i
      BY DEF P!LastOf
    <3>3. P!LastOf(id, d)' = IF new = {} THEN d ELSE CHOOSE i \in new : \A j \in new : j <= i
      BY DEF P!LastOf
    <3> HIDE DEF old, new
    <3> QED
      BY <2>2, <3>1, <3>2, <3>3
  <2> QED
    BY <2>1, <2>2
<1>5. P!HasImageData' <=> P!HasImageData \/ k = "IDAT"
  BY <1>1, <1>2, <1>3 DEF P!HasImageData
<1>6. ASSUME NEW id
      PROVE  P!Given(id)' <=> (k = id /\ g) \/ P!Given(id)
  BY <1>1, <1>2, <1>3 DEF P!Given
<1>7. ASSUME NEW i, P!IsFirstProfile(i), NEW j,
             j = IF k = "iCCP" /\ g /\ i = P!Absent THEN n + 1 ELSE i
      PROVE  P!IsFirstProfile(j)'
  <2> DEFINE old == {x \in DOMAIN pngSeen : pngSeen[x].id = "iCCP" /\ pngSeen[x].good}
             new == {x \in DOMAIN pngSeen' : pngSeen'[x].id = "iCCP" /\ pngSeen'[x].good}
  <2>1. /\ IF old = {} THEN i = P!Absent ELSE i \in old /\ \A x \in old : i <= x
        /\ P!IsFirstProfile(j)' <=> IF new = {} THEN j = P!Absent
                                    ELSE j \in new /\ \A x \in new : j <= x
    BY <1>7 DEF P!IsFirstProfile, P!Absent
  <2>2. old \subseteq 1 .. n
    BY <1>2
  <2>3. new = IF k = "iCCP" /\ g THEN old \cup {n + 1} ELSE old
    BY <1>1, <1>2, <1>3
  <2> HIDE DEF old, new
  <2> QED
    BY <1>2, <1>7, <2>1, <2>2, <2>3 DEF P!Absent
<1> QED
  BY <1>1, <1>4, <1>5, <1>6, <1>7 DEF n

LEMMA ChunkIsOne ==
  ASSUME NEW k \in ColorKinds, NEW g \in BOOLEAN
  PROVE  [id |-> k, good |-> g] \in P!Chunk
BY DEF P!Chunk, ColorKinds

(* What a chunk is to do to the state, and that it then keeps ColorInv.     *)
Effect(k, g) ==
  /\ have_color' = (have_color \/ (g /\ k \in ColorKinds))
  /\ have_srgb' = (have_srgb \/ (g /\ k = "sRGB"))
  /\ pngIcc' = IF k = "iCCP" /\ g /\ pngIcc = P!Absent THEN P!This ELSE pngIcc
  /\ pngColor' = P!Encoding(IF k = "IDAT" THEN P!SpaceOf(pngGray) ELSE pngColor.space,
                            IF k = "cHRM" /\ g THEN P!This ELSE pngColor.primaries,
                            IF k = "gAMA" /\ g THEN P!This ELSE pngColor.tf,
                            IF k = "sRGB" /\ g THEN P!This ELSE pngColor.intent)
  /\ pngOutcome' \in {"reading", "broken", "refused"}
  /\ pngOutcome' = "reading" => g \/ k = "iCCP"

LEMMA EffectKeeps ==
  ASSUME ColorInv, NEW k \in ChunkIds, NEW g \in BOOLEAN,
         [id |-> k, good |-> g] \in P!Chunk, P!Comes(k, g), Effect(k, g)
  PROVE  ColorInv'
<1>1. /\ pngOutcome = "reading" /\ Len(pngSeen) < MaxColorChunks
      /\ pngSeen' = Append(pngSeen, [id |-> k, good |-> g])
      /\ pngGray' = pngGray /\ pngHint' = pngHint
  BY DEF P!Comes
<1>2. /\ pngSeen \in Seq(P!Chunk) /\ Len(pngSeen) \in Nat
      /\ pngGray \in BOOLEAN /\ pngHint \in P!Hints
      /\ have_color \in BOOLEAN /\ have_srgb \in BOOLEAN
      /\ pngIcc \in {P!FromHint} \cup 0 .. MaxColorChunks
  BY DEF ColorInv
<1>3. /\ have_color <=> \E id \in ColorKinds : P!Given(id)
      /\ have_srgb <=> P!Given("sRGB")
      /\ P!IsFirstProfile(pngIcc)
      /\ pngColor = P!Encoding(IF P!HasImageData THEN P!SpaceOf(pngGray) ELSE "rgb",
                               P!LastOf("cHRM", P!Default), P!LastOf("gAMA", P!Default),
                               P!LastOf("sRGB", P!Default))
      /\ \A i \in DOMAIN pngSeen : pngSeen[i].good \/ pngSeen[i].id = "iCCP"
  BY <1>1 DEF ColorInv, ColorKinds
<1>4. /\ pngSeen' \in Seq(P!Chunk) /\ Len(pngSeen') = Len(pngSeen) + 1
      /\ \A id, d : P!LastOf(id, d)' = IF k = id /\ g THEN P!This ELSE P!LastOf(id, d)
      /\ P!HasImageData' <=> P!HasImageData \/ k = "IDAT"
  BY <1>1, <1>2, LastAfter DEF P!This
<1>5. P!This \in 1 .. MaxColorChunks
  BY <1>1, <1>2, PngAndGifAssumption DEF P!This
<1>6. \A id : P!Given(id)' <=> (k = id /\ g) \/ P!Given(id)
  BY <1>1, <1>2, LastAfter
<1>7. have_color' <=> \E id \in ColorKinds : P!Given(id)'
  BY <1>2, <1>3, <1>6 DEF Effect
<1>8. have_srgb' <=> P!Given("sRGB")'
  BY <1>2, <1>3, <1>6 DEF Effect
<1>9. have_color' \in BOOLEAN /\ have_srgb' \in BOOLEAN
  BY <1>2 DEF Effect
<1>10. P!IsFirstProfile(pngIcc)' /\ pngIcc' \in {P!FromHint} \cup 0 .. MaxColorChunks
  <2>1. pngIcc' = IF k = "iCCP" /\ g /\ pngIcc = P!Absent THEN P!This ELSE pngIcc
    BY DEF Effect
  <2>2. PICK i : i = pngIcc
    OBVIOUS
  <2>3. PICK j : j = pngIcc'
    OBVIOUS
  <2>4. P!IsFirstProfile(i)
    BY <1>3, <2>2
  <2>5. j = IF k = "iCCP" /\ g /\ i = P!Absent THEN Len(pngSeen) + 1 ELSE i
    BY <2>1, <2>2, <2>3 DEF P!This
  <2>6. P!IsFirstProfile(j)'
    BY ONLY <1>1, <1>2, <2>4, <2>5, LastAfter, k \in ChunkIds, g \in BOOLEAN,
            [id |-> k, good |-> g] \in P!Chunk
  <2>7. P!IsFirstProfile(pngIcc)'
    BY <2>3, <2>6 DEF P!IsFirstProfile
  <2> QED
    BY <1>2, <1>5, <2>1, <2>7
<1>11. /\ pngColor.space = IF P!HasImageData THEN P!SpaceOf(pngGray) ELSE "rgb"
       /\ pngColor.primaries = P!LastOf("cHRM", P!Default)
       /\ pngColor.tf = P!LastOf("gAMA", P!Default)
       /\ pngColor.intent = P!LastOf("sRGB", P!Default)
  BY <1>3 DEF P!Encoding
<1>12. pngColor' = P!Encoding(IF P!HasImageData' THEN P!SpaceOf(pngGray') ELSE "rgb",
                              P!LastOf("cHRM", P!Default)', P!LastOf("gAMA", P!Default)',
                              P!LastOf("sRGB", P!Default)')
  BY <1>1, <1>4, <1>11 DEF Effect, P!Default
<1>13. pngOutcome' = "reading" =>
         \A i \in DOMAIN pngSeen' : pngSeen'[i].good \/ pngSeen'[i].id = "iCCP"
  <2> SUFFICES ASSUME g \/ k = "iCCP", NEW i \in DOMAIN pngSeen'
               PROVE  pngSeen'[i].good \/ pngSeen'[i].id = "iCCP"
    BY DEF Effect
  <2>1. CASE i \in 1 .. Len(pngSeen)
    BY <1>1, <1>2, <1>3, <2>1, AppendProperties
  <2>2. CASE i = Len(pngSeen) + 1
    BY <1>1, <1>2, <2>2, AppendProperties
  <2>3. DOMAIN pngSeen' = 1 .. Len(pngSeen) + 1
    BY <1>4, LenProperties
  <2> QED
    BY <1>2, <2>1, <2>2, <2>3
<1>14. pngOutcome' \in {"reading", "broken", "refused"}
  BY DEF Effect
<1>15. Len(pngSeen') <= MaxColorChunks
  BY <1>4, <1>5 DEF P!This
<1>16. P!ColorExact'
  BY <1>14 DEF P!ColorExact
<1> QED
  BY <1>1, <1>2, <1>4, <1>7, <1>8, <1>9, <1>10, <1>12, <1>13, <1>14, <1>15, <1>16
  DEF ColorInv, ColorKinds, P!Hints, P!Absent, P!Default, P!FromHint

LEMMA PngColorIs ==
  ASSUME ColorInv, pngOutcome \in {"reading", "broken"}, NEW x
  PROVE  LET e == pngColor IN
         /\ e = P!Encoding(e.space, e.primaries, e.tf, e.intent)
         /\ [e EXCEPT !.intent = x] = P!Encoding(e.space, e.primaries, e.tf, x)
         /\ [e EXCEPT !.tf = x] = P!Encoding(e.space, e.primaries, x, e.intent)
         /\ [e EXCEPT !.primaries = x] = P!Encoding(e.space, x, e.tf, e.intent)
         /\ [e EXCEPT !.space = x] = P!Encoding(x, e.primaries, e.tf, e.intent)
<1> DEFINE s == IF P!HasImageData THEN P!SpaceOf(pngGray) ELSE "rgb"
           p == P!LastOf("cHRM", P!Default)
           t == P!LastOf("gAMA", P!Default)
           i == P!LastOf("sRGB", P!Default)
<1>1. pngColor = P!Encoding(s, p, t, i)
  BY DEF ColorInv
<1> HIDE DEF s, p, t, i
<1> QED
  BY <1>1 DEF P!Encoding

(* Each chunk's handler has the effect on the state that Effect states.     *)
LEMMA ChunkHasEffect ==
  ASSUME ColorInv, NEW good \in BOOLEAN
  PROVE  /\ P!ProfileChunk(good) => P!Comes("iCCP", good) /\ Effect("iCCP", good)
         /\ P!IntentChunk(good) => P!Comes("sRGB", good) /\ Effect("sRGB", good)
         /\ P!GammaChunk(good) => P!Comes("gAMA", good) /\ Effect("gAMA", good)
         /\ P!PrimariesChunk(good) => P!Comes("cHRM", good) /\ Effect("cHRM", good)
         /\ P!ImageData => \A g \in BOOLEAN : g = TRUE => P!Comes("IDAT", g) /\ Effect("IDAT", g)
         /\ P!DamagedChunk => \A g \in BOOLEAN : g = FALSE => P!Comes("damaged", g) /\ Effect("damaged", g)
<1> DEFINE e == pngColor
<1>1. have_color \in BOOLEAN /\ have_srgb \in BOOLEAN
  BY DEF ColorInv
<1>2. \A k, g : P!Comes(k, g) => pngOutcome = "reading"
  BY DEF P!Comes
<1>3. pngOutcome = "reading" =>
       /\ e = P!Encoding(e.space, e.primaries, e.tf, e.intent)
       /\ [e EXCEPT !.intent = P!This] = P!Encoding(e.space, e.primaries, e.tf, P!This)
       /\ [e EXCEPT !.tf = P!This] = P!Encoding(e.space, e.primaries, P!This, e.intent)
       /\ [e EXCEPT !.primaries = P!This] = P!Encoding(e.space, P!This, e.tf, e.intent)
       /\ [e EXCEPT !.space = P!SpaceOf(pngGray)]
            = P!Encoding(P!SpaceOf(pngGray), e.primaries, e.tf, e.intent)
  BY PngColorIs
<1> HIDE DEF e
<1>4. P!ProfileChunk(good) => P!Comes("iCCP", good) /\ Effect("iCCP", good)
  BY <1>1, <1>2, <1>3 DEF P!ProfileChunk, Effect, ColorKinds, e
<1>5. P!IntentChunk(good) => P!Comes("sRGB", good) /\ Effect("sRGB", good)
  BY <1>1, <1>2, <1>3 DEF P!IntentChunk, P!Settles, Effect, ColorKinds, e
<1>6. P!GammaChunk(good) => P!Comes("gAMA", good) /\ Effect("gAMA", good)
  BY <1>1, <1>2, <1>3 DEF P!GammaChunk, P!Settles, Effect, ColorKinds, e
<1>7. P!PrimariesChunk(good) => P!Comes("cHRM", good) /\ Effect("cHRM", good)
  BY <1>1, <1>2, <1>3 DEF P!PrimariesChunk, P!Settles, Effect, ColorKinds, e
<1>8. ASSUME P!ImageData, NEW g \in BOOLEAN, g = TRUE
      PROVE  P!Comes("IDAT", g) /\ Effect("IDAT", g)
  <2>1. P!Comes("IDAT", g)
    BY <1>8, Zenon DEF P!ImageData
  <2>2. /\ pngColor' = [e EXCEPT !.space = P!SpaceOf(pngGray)] /\ pngIcc' = pngIcc
        /\ have_color' = have_color /\ have_srgb' = have_srgb /\ pngOutcome' = pngOutcome
    BY <1>8 DEF P!ImageData, e
  <2> QED
    BY <1>1, <1>2, <1>3, <1>8, <2>1, <2>2 DEF Effect, ColorKinds, e
<1>9. ASSUME P!DamagedChunk, NEW g \in BOOLEAN, g = FALSE
      PROVE  P!Comes("damaged", g) /\ Effect("damaged", g)
  <2>1. P!Comes("damaged", g)
    BY <1>9, Zenon DEF P!DamagedChunk
  <2>2. /\ pngColor' = pngColor /\ pngIcc' = pngIcc
        /\ have_color' = have_color /\ have_srgb' = have_srgb /\ pngOutcome' = "broken"
    BY <1>9 DEF P!DamagedChunk
  <2> QED
    BY <1>1, <1>2, <1>3, <1>9, <2>1, <2>2 DEF Effect, ColorKinds, e
<1> QED
  BY <1>4, <1>5, <1>6, <1>7, <1>8, <1>9

(* At the end of a file: the colors are those that the chunks told, or else *)
(* those of the hint.                                                       *)
LEMMA FinishKeeps ==
  ASSUME ColorInv, pngOutcome \in {"reading", "broken"}, NEW complete \in BOOLEAN,
         pngOutcome = "broken" => ~complete, P!Finish(complete)
  PROVE  ColorInv'
<1> DEFINE space == P!SpaceOf(pngGray)
           colors == P!LastOf("cHRM", P!Default)
           curve == P!LastOf("gAMA", P!Default)
<1>1. /\ pngColor' = IF have_color THEN P!WithSRGB(pngColor) ELSE P!Hinted(P!WithSRGB(pngColor))
      /\ pngIcc' = IF ~have_color /\ pngHint = "icc_pathname" THEN P!FromHint ELSE pngIcc
      /\ pngOutcome' = IF ~complete \/ ~P!HasImageData \/ (~have_color /\ P!HintRefused)
                       THEN "refused" ELSE "read"
      /\ UNCHANGED <<pngGray, pngHint, pngSeen, have_color, have_srgb>>
  BY DEF P!Finish
<1>2. /\ pngGray \in BOOLEAN /\ pngHint \in P!Hints
      /\ have_color \in BOOLEAN /\ have_srgb \in BOOLEAN
      /\ pngSeen \in Seq(P!Chunk) /\ Len(pngSeen) <= MaxColorChunks
      /\ pngIcc \in {P!FromHint} \cup 0 .. MaxColorChunks
      /\ have_color <=> \E id \in ColorKinds : P!Given(id)
      /\ have_srgb <=> P!Given("sRGB")
      /\ P!IsFirstProfile(pngIcc)
      /\ pngColor = P!Encoding(IF P!HasImageData THEN space ELSE "rgb", colors, curve,
                               P!LastOf("sRGB", P!Default))
      /\ pngOutcome = "reading" =>
           \A i \in DOMAIN pngSeen : pngSeen[i].good \/ pngSeen[i].id = "iCCP"
  BY DEF ColorInv, ColorKinds
<1>3. \A id, d : P!LastOf(id, d)' = P!LastOf(id, d)
  BY <1>1 DEF P!LastOf
<1>4. /\ \A id : ~P!Given(id) => P!LastOf(id, P!Default) = P!Default
      /\ ~P!Given("iCCP") => pngIcc = P!Absent
  BY <1>2 DEF P!Given, P!LastOf, P!IsFirstProfile
<1>5. /\ \A id : P!Given(id)' <=> P!Given(id)
      /\ P!HasImageData' <=> P!HasImageData
  BY <1>1 DEF P!Given, P!HasImageData
<1>6. P!ColorExact'
  <2> SUFFICES ASSUME pngOutcome' = "read"
               PROVE  P!ColorExact'
    BY DEF P!ColorExact
  <2>1. complete /\ P!HasImageData /\ (have_color \/ ~P!HintRefused)
    BY <1>1
  <2>2. /\ pngOutcome = "reading" /\ P!SpaceOf(pngGray)' = space
        /\ \A i \in DOMAIN pngSeen' : pngSeen'[i].good \/ pngSeen'[i].id = "iCCP"
    BY <1>1, <1>2, <2>1 DEF P!SpaceOf
  <2>3. pngColor = P!Encoding(space, colors, curve, P!LastOf("sRGB", P!Default))
    BY <1>2, <2>1
  <2>4. P!WithSRGB(pngColor) = IF have_srgb THEN P!SRGB(space)
                               ELSE P!Encoding(space, colors, curve, P!Default)
    <3>1. pngColor.space = space
      BY <2>3 DEF P!Encoding
    <3>2. ~have_srgb => P!LastOf("sRGB", P!Default) = P!Default
      BY <1>2, <1>4
    <3> HIDE DEF space, colors, curve
    <3> QED
      BY <2>3, <3>1, <3>2 DEF P!WithSRGB
  <2>5. CASE have_color
    <3>1. \E id \in {"iCCP", "sRGB", "gAMA", "cHRM"} : P!Given(id)'
      BY <1>2, <1>5, <2>5 DEF ColorKinds
    <3>2. pngColor' = IF P!Given("sRGB")' THEN P!SRGB(space)
                      ELSE P!Encoding(space, colors, curve, P!Default)
      BY <1>1, <1>2, <1>5, <2>4, <2>5
    <3>3. P!IsFirstProfile(pngIcc)'
      BY <1>1, <1>2, <2>5 DEF P!IsFirstProfile, P!Absent
    <3>4. colors = P!LastOf("cHRM", P!Default)' /\ curve = P!LastOf("gAMA", P!Default)'
      BY <1>3
    <3> HIDE DEF space, colors, curve
    <3> QED
      BY <2>2, <3>1, <3>2, <3>3, <3>4 DEF P!ColorExact, P!Absent, P!Default
  <2>6. CASE ~have_color
    <3>1. \A id \in {"iCCP", "sRGB", "gAMA", "cHRM"} : ~P!Given(id) /\ ~P!Given(id)'
      BY <1>2, <1>5, <2>6 DEF ColorKinds
    <3>2. P!WithSRGB(pngColor) = P!SRGB(space) /\ colors = P!Default /\ curve = P!Default
      <4>1. ~have_srgb /\ colors = P!Default /\ curve = P!Default
        BY <1>2, <1>4, <3>1
      <4> HIDE DEF space, colors, curve
      <4> QED
        BY <2>4, <4>1 DEF P!SRGB
    <3>3. pngColor' = P!Hinted(P!SRGB(space)) /\ P!SpaceOf(P!GrayKnown) = space
      BY <1>1, <1>2, <2>1, <2>6, <3>2 DEF P!GrayKnown, P!SpaceOf
    <3>4. pngHint # "unparsable" /\ (pngHint \in {"gray", "rgb"} => pngHint = space)
      BY <2>1, <2>6, <3>3 DEF P!HintRefused
    <3>5. pngIcc = P!Absent
      BY <1>2, <1>4, <3>1
    <3>6. colors = P!LastOf("cHRM", P!Default)' /\ curve = P!LastOf("gAMA", P!Default)'
      BY <1>3
    <3> HIDE DEF space, colors, curve
    <3>7. CASE pngHint \in {"gray", "rgb"}
      <4>1. /\ pngColor' = P!Encoding(space, P!FromHint, P!FromHint, P!FromHint)
            /\ pngIcc' = P!Absent /\ pngHint' \in {"gray", "rgb"}
        BY <1>1, <3>3, <3>4, <3>5, <3>7 DEF P!Hinted
      <4> QED
        BY <2>2, <3>1, <4>1 DEF P!ColorExact, P!Absent, P!FromHint
    <3>8. CASE pngHint = "icc_pathname"
      <4>1. pngIcc' = P!FromHint /\ pngHint' = "icc_pathname"
        BY <1>1, <2>6, <3>8
      <4> QED
        BY <2>2, <3>1, <4>1 DEF P!ColorExact
    <3>9. CASE pngHint = "none"
      <4>1. /\ pngColor' = P!SRGB(space) /\ pngIcc' = P!Absent /\ pngHint' = "none"
        <5>1. P!Hinted(P!SRGB(space)) = P!SRGB(space)
          <6>1. P!Hinted(P!SRGB(space)) =
                  [P!SRGB(space) EXCEPT !.space = space, !.primaries = P!Default, !.tf = P!Default]
            BY <3>3, <3>9 DEF P!Hinted
          <6> QED
            BY <6>1 DEF P!SRGB, P!Encoding
        <5> QED
          BY <1>1, <3>3, <3>5, <3>9, <5>1
      <4>2. P!SRGB(space) = P!Encoding(space, colors, curve, P!Default)
        BY <3>2 DEF P!SRGB
      <4> QED
        BY <2>2, <3>1, <3>6, <4>1, <4>2 DEF P!ColorExact, P!Absent, P!Default
    <3> QED
      BY <1>2, <3>4, <3>7, <3>8, <3>9 DEF P!Hints
  <2> QED
    BY <1>2, <2>5, <2>6
<1> QED
  BY <1>1, <1>2, <1>6 DEF ColorInv, P!Hints, P!FromHint

LEMMA ColorStep == ColorInv /\ P!Next => ColorInv'
<1> SUFFICES ASSUME ColorInv, P!Next PROVE ColorInv'
  OBVIOUS
<1>1. ASSUME NEW k \in ColorKinds, NEW g \in BOOLEAN, P!Comes(k, g), Effect(k, g)
      PROVE  ColorInv'
  BY ONLY ColorInv, <1>1, ChunkIsOne, EffectKeeps DEF ChunkIds
<1>2. ASSUME NEW good \in BOOLEAN,
             P!ProfileChunk(good) \/ P!IntentChunk(good) \/ P!GammaChunk(good)
               \/ P!PrimariesChunk(good)
      PROVE  ColorInv'
  <2>1. \E k \in ColorKinds : P!Comes(k, good) /\ Effect(k, good)
    BY <1>2, ChunkHasEffect DEF ColorKinds
  <2> QED
    BY <1>1, <2>1
<1>3. CASE P!ImageData
  <2>1. \A g \in BOOLEAN : g = TRUE => P!Comes("IDAT", g) /\ Effect("IDAT", g)
    BY <1>3, ChunkHasEffect
  <2>2. \A g \in BOOLEAN : g = TRUE => [id |-> "IDAT", good |-> g] \in P!Chunk
    BY Zenon DEF P!Chunk
  <2>3. \A g \in BOOLEAN : g = TRUE => ColorInv'
    BY <2>1, <2>2, EffectKeeps DEF ChunkIds
  <2> QED
    BY <2>3
<1>4. CASE P!DamagedChunk
  <2>1. \A g \in BOOLEAN : g = FALSE => P!Comes("damaged", g) /\ Effect("damaged", g)
    BY <1>4, ChunkHasEffect
  <2>2. \A g \in BOOLEAN : g = FALSE => [id |-> "damaged", good |-> g] \in P!Chunk
    BY Zenon DEF P!Chunk
  <2>3. \A g \in BOOLEAN : g = FALSE => ColorInv'
    BY <2>1, <2>2, EffectKeeps DEF ChunkIds
  <2> QED
    BY <2>3
<1>5. ASSUME pngOutcome = "reading", NEW complete \in BOOLEAN, P!Finish(complete)
      PROVE  ColorInv'
  BY <1>5, FinishKeeps
<1>6. CASE pngOutcome = "broken" /\ P!Finish(FALSE)
  <2>1. \A complete \in BOOLEAN : complete = FALSE => P!Finish(complete)
    BY <1>6, Zenon
  <2>2. \A complete \in BOOLEAN : complete = FALSE => ColorInv'
    BY <1>6, <2>1, FinishKeeps
  <2> QED
    BY <2>2
<1> QED
  BY <1>2, <1>3, <1>4, <1>5, <1>6 DEF P!Next

LEMMA ColorStart == P!Init => ColorInv
<1> SUFFICES ASSUME P!Init PROVE ColorInv
  OBVIOUS
<1>1. /\ pngGray \in BOOLEAN /\ pngHint \in P!Hints /\ pngSeen = <<>>
      /\ pngColor = P!SRGB("rgb") /\ pngIcc = P!Absent
      /\ ~have_color /\ have_color \in BOOLEAN /\ ~have_srgb /\ have_srgb \in BOOLEAN
      /\ pngOutcome = "reading"
  BY DEF P!Init
<1>2. DOMAIN pngSeen = {} /\ pngSeen \in Seq(P!Chunk) /\ Len(pngSeen) = 0
  BY <1>1
<1>3. /\ \A id, d : P!LastOf(id, d) = d
      /\ P!IsFirstProfile(pngIcc)
      /\ ~P!HasImageData
  BY <1>1, <1>2 DEF P!LastOf, P!IsFirstProfile, P!HasImageData
<1>4. \A id : ~P!Given(id)
  BY <1>2 DEF P!Given
<1> QED
  BY <1>1, <1>2, <1>3, <1>4, PngAndGifAssumption
  DEF ColorInv, P!Absent, P!SRGB, P!FromHint, P!ColorExact

LEMMA ColorStutter == ColorInv /\ UNCHANGED colorVars => ColorInv'
<1> SUFFICES ASSUME ColorInv, UNCHANGED colorVars PROVE ColorInv'
  OBVIOUS
<1>1. UNCHANGED <<pngGray, pngHint, pngSeen, pngColor, pngIcc, have_color, have_srgb, pngOutcome>>
  BY DEF colorVars
<1>2. \A id, d : P!LastOf(id, d)' = P!LastOf(id, d)
  BY <1>1 DEF P!LastOf
<1>3. /\ \A id : P!Given(id)' <=> P!Given(id)
      /\ P!IsFirstProfile(pngIcc)' <=> P!IsFirstProfile(pngIcc)
      /\ P!HasImageData' <=> P!HasImageData
  BY <1>1 DEF P!Given, P!IsFirstProfile, P!Absent, P!HasImageData
<1>4. P!ColorExact'
  <2>1. P!ColorExact
    BY DEF ColorInv
  <2> QED
    BY <1>1, <1>2, <1>3, <2>1 DEF P!ColorExact, P!Absent, P!Default, P!FromHint, P!SpaceOf
<1> QED
  BY <1>1, <1>2, <1>3, <1>4 DEF ColorInv, P!Absent, P!Default, P!FromHint, P!SpaceOf, P!Hints
-------------------------------------------------------------------------------
(***************************************************************************)
(* The decoders together.                                                  *)
(***************************************************************************)
LEMMA InvStarts == PngAndGifInit => IInv
BY ApngStarts, GifStarts, ChunksStart, ColorStart DEF PngAndGifInit, IInv

LEMMA InvStep == IInv /\ [PngAndGifNext]_decoderVars => IInv'
<1> SUFFICES ASSUME IInv, [PngAndGifNext]_decoderVars PROVE IInv'
  OBVIOUS
<1>1. which' = which
  BY DEF PngAndGifNext, decoderVars
<1>2. CASE which = "apng"
  <2>1. A!Next \/ UNCHANGED <<layerVars, apngVars>>
    BY <1>2 DEF PngAndGifNext, decoderVars
  <2>2. ApngInv'
    BY <1>2, <2>1, ApngStep, ApngStutters DEF IInv
  <2> QED
    BY <1>1, <1>2, <2>2 DEF IInv
<1>3. CASE which = "gif"
  <2>1. G!Next \/ UNCHANGED <<layerVars, gifVars>>
    BY <1>3 DEF PngAndGifNext, decoderVars
  <2>2. GifInv'
    BY <1>3, <2>1, GifStep, GifStutters DEF IInv
  <2> QED
    BY <1>1, <1>3, <2>2 DEF IInv
<1>4. CASE which = "chunks"
  <2>1. C!Next \/ UNCHANGED chunkVars
    BY <1>4 DEF PngAndGifNext, decoderVars
  <2>2. ChunksInv'
    BY <1>4, <2>1, ChunksStep, ChunksStutter DEF IInv
  <2> QED
    BY <1>1, <1>4, <2>2 DEF IInv
<1>5. CASE which = "color"
  <2>1. P!Next \/ UNCHANGED colorVars
    BY <1>5 DEF PngAndGifNext, decoderVars
  <2>2. ColorInv'
    BY <1>5, <2>1, ColorStep, ColorStutter DEF IInv
  <2> QED
    BY <1>1, <1>5, <2>2 DEF IInv
<1>6. CASE which \notin {"apng", "gif", "chunks", "color"}
  BY <1>1, <1>6 DEF IInv
<1> QED
  BY <1>2, <1>3, <1>4, <1>5, <1>6

(* In every state of the decoding of a PNG or a GIF of any length, on a     *)
(* canvas of any size: what is saved under the layers is what a viewer      *)
(* keeps, the chunks so far are accounted for picture by picture, and the   *)
(* colors are those of the last chunk of each kind (the loops of            *)
(* DecodeImageAPNG in apng.cc and of DecodeImageGIF in gif.cc).             *)
THEOREM PngAndGifInvariant == PngAndGifSpec => []IInv
BY InvStarts, InvStep, PTL DEF PngAndGifSpec

(* The layers of an animated PNG show, at every frame, what a viewer with   *)
(* an output buffer shows, whatever the frames' places, dispose and blend   *)
(* operations (apng.cc:683-790).                                            *)
THEOREM PngFramesShow == PngAndGifSpec => []FramesShowPicture
<1>1. IInv => FramesShowPicture
  <2> SUFFICES ASSUME ApngInv PROVE A!TypeOK /\ A!FramesShowPicture
    BY DEF IInv, FramesShowPicture
  <2>1. shown = displayed
    BY DEF ApngInv
  <2>2. \A s \in Canvases : DOMAIN s = A!Cell /\ \A c \in A!Cell : s[c] \in A!Colors \cup {A!Blank}
    BY DEF Canvases
  <2>3. {shown, output, displayed, slots[0], slots[1]} \subseteq Canvases
    BY DEF ApngInv
  <2>4. {nontrivial, mustClear} \subseteq BOOLEAN /\ previous \in A!Rects
    BY DEF ApngInv
  <2> QED
    BY <2>1, <2>2, <2>3, <2>4 DEF A!TypeOK, A!FramesShowPicture
<1> QED
  BY PngAndGifInvariant, <1>1, PTL

(* The layers of a GIF that keeps to the usual disposals show what is       *)
(* painted onto a viewer's screen, in any order of disposals                *)
(* (gif.cc:200-396).                                                        *)
THEOREM GifLayersShow == PngAndGifSpec => []LayersShowCanvas
<1>1. IInv => LayersShowCanvas
  <2> SUFFICES ASSUME GifInv PROVE G!TypeOK /\ G!LayersShowCanvas
    BY DEF IInv, LayersShowCanvas
  <2>1. shown = displayed
    BY DEF GifInv
  <2>2. \A s \in Canvases : DOMAIN s = G!Cell /\ \A c \in G!Cell : s[c] \in G!Colors \cup {G!Blank}
    BY SameCanvas DEF Canvases
  <2>3. {canvas, shown, screen, displayed, slots[0], slots[1]} \subseteq Canvases
    BY DEF GifInv
  <2>4. gifStatus \in {"decoding", "complete", "failed"} /\ restored \in G!Rects \cup {G!NoRect}
    BY WholeIs, SameCanvas DEF GifInv
  <2> QED
    BY <2>1, <2>2, <2>3, <2>4 DEF G!TypeOK, G!LayersShowCanvas
<1> QED
  BY PngAndGifInvariant, <1>1, PTL

(* The chunks of a PNG are understood, however many there are and in        *)
(* whatever order: every picture is delivered once, in order, with its own  *)
(* size, its data and the palette, and the colors follow from the chunks    *)
(* and the hint alone (apng.cc:71-107, 464-676).                            *)
THEOREM ChunksAreUnderstood == PngAndGifSpec => []ChunksUnderstood
<1>1. ASSUME ChunksInv
      PROVE  C!TypeOK /\ C!PicturesDelivered
  <2>1. /\ frames \in Seq(PictureSet) /\ png \in [size : Sizes, palette : BOOLEAN, data : Nat]
        /\ png.size = control
        /\ {isAnimated, hasInfo, saved} \subseteq BOOLEAN
        /\ pngStatus \in {"reading", "refused", "done"}
        /\ pngStatus = "done" => frames = meant
    BY <1>1 DEF ChunksInv
  <2>2. /\ DOMAIN frames = 1 .. Len(frames) /\ Len(frames) \in Nat
        /\ {control, png.size} \subseteq Sizes
    BY <2>1, LenProperties
  <2>3. Len(frames) <= Len(meant) /\ \A i \in DOMAIN frames : frames[i] = meant[i]
    <3>1. CASE pngStatus # "done" /\ hasInfo
      <4> DEFINE now == C!Picture(control, png.size, png.palette, png.data)
      <4>1. meant = Append(frames, now) /\ now \in PictureSet
        BY <1>1, <2>1, <2>2, <3>1, PictureIs DEF ChunksInv
      <4> HIDE DEF now
      <4>2. /\ Len(meant) = Len(frames) + 1
            /\ \A i \in 1 .. Len(frames) : meant[i] = frames[i]
        <5>1. frames \in Seq(PictureSet)
          BY <2>1
        <5>2. \A S : \A f \in Seq(S), x \in S :
                Len(Append(f, x)) = Len(f) + 1 /\ \A i \in 1 .. Len(f) : Append(f, x)[i] = f[i]
          BY AppendProperties
        <5> QED
          BY ONLY <4>1, <5>1, <5>2
      <4> QED
        BY <2>2, <4>2
    <3>2. CASE pngStatus # "done" /\ ~hasInfo
      <4>1. frames = <<>> /\ meant = <<>>
        BY <1>1, <3>2 DEF ChunksInv
      <4> QED
        BY <4>1
    <3>3. CASE pngStatus = "done"
      BY <2>1, <2>2, <3>3
    <3> QED
      BY <3>1, <3>2, <3>3
  <2> QED
    BY <2>1, <2>2, <2>3 DEF C!TypeOK, C!PicturesDelivered
<1>2. ASSUME ColorInv
      PROVE  P!TypeOK /\ P!ColorExact
  <2>1. \A i \in DOMAIN pngSeen : pngSeen[i] \in P!Chunk
    BY <1>2, ElementOfSeq, LenProperties DEF ColorInv
  <2> QED
    BY <1>2, <2>1 DEF ColorInv, P!TypeOK, P!FromHint
<1>3. IInv => ChunksUnderstood
  BY <1>1, <1>2 DEF IInv, ChunksUnderstood
<1> QED
  BY PngAndGifInvariant, <1>3, PTL
=================================================================================
