-------------------------------- MODULE ImageOps --------------------------------
(***************************************************************************)
(* Operations on whole images (lib/jxl/image.{h,cc}, image_ops.h,          *)
(* gauss_blur.cc): an image larger than what is valid of it is shrunk and  *)
(* grown, downsampled, padded to blocks or mirrored, given a border,       *)
(* convolved, and copied with what surrounds a rectangle.                  *)
(*                                                                         *)
(* The three planes of an Image3 are treated alike: there is one.  Pixels  *)
(* are integers; those never written hold Garbage.                         *)
(***************************************************************************)
EXTENDS Integers, Sequences, FiniteSets, FiniteSetsExt

CONSTANTS
  kBlockDim,    (* 8 in the code                                           *)
  Images,       (* <<xsize, ysize, pixel>>: the images there may be first; *)
                (* pixel is a function of <<x, y>>                         *)
  Factors,      (* of DownsampleImage                                      *)
  Borders,      (* of PadImageMirror: <<xborder, yborder>>                 *)
  Thicknesses,  (* of SetBorder                                            *)
  Kernels,      (* of ConvolveXSampleAndTranspose: sequences of odd length *)
  Steps,        (* its res                                                 *)
  CopySize,     (* the image copied to is this wide and high               *)
  Paddings,     (* of CopyImageToWithPadding                               *)
  MaxOps        (* bound on the operations in a behaviour                  *)

VARIABLES
  image,        (* xsize, ysize: valid; orig_xsize, orig_ysize: allocated  *)
  op,           (* history: the last operation and its arguments           *)
  before,       (* history: the image it was given                         *)
  ops           (* how many operations there were                          *)

vars == <<image, op, before, ops>>

Garbage == -1
DivCeil(a, b) == (a + b - 1) \div b
RoundUpToBlockDim(size) == DivCeil(size, kBlockDim) * kBlockDim
Pixels(xsize, ysize) == (0 .. xsize - 1) \X (0 .. ysize - 1)
Valid(img) == Pixels(img.xsize, img.ysize)

(* A new image: all that is allocated is valid.                             *)
Image(xsize, ysize, At(_, _)) ==
  [xsize |-> xsize, ysize |-> ysize, orig_xsize |-> xsize, orig_ysize |-> ysize,
   at |-> [p \in Pixels(xsize, ysize) |-> At(p[1], p[2])]]
Update(img, At(_, _)) == [img EXCEPT !.at = [p \in DOMAIN img.at |-> At(p[1], p[2])]]

(* PlaneBase::ShrinkTo, also used to make an image larger again.            *)
Fits(img, xsize, ysize) == xsize <= img.orig_xsize /\ ysize <= img.orig_ysize
ShrinkTo(img, xsize, ysize) == [img EXCEPT !.xsize = xsize, !.ysize = ysize]

-----------------------------------------------------------------------------
(* Outside coordinates are mirrored, the border pixel once more.            *)
Mirror[i \in Int, size \in Nat \ {0}] ==
  CASE i < 0 -> Mirror[-i - 1, size]
    [] i >= size -> Mirror[2 * size - 1 - i, size]
    [] OTHER -> i
(* WrapRowMirror, for a row that lies this many rows from the first one.    *)
WrapRow(row, ysize) ==
  CASE row < 0 -> -row - 1
    [] row > ysize - 1 -> ysize - 1 - (row - (ysize - 1)) + 1
    [] OTHER -> row

(* PadImageMirror: by single pixels when a border is wider than the image,  *)
(* else by copies of parts, the rows above and below of the padded rows.    *)
PadByPixels(img, xborder, yborder) ==
  Image(img.xsize + 2 * xborder, img.ysize + 2 * yborder,
        LAMBDA x, y : img.at[Mirror[x - xborder, img.xsize], Mirror[y - yborder, img.ysize]])
PadRow(img, xborder, x, y) ==
  CASE x < xborder -> img.at[xborder - x - 1, y]
    [] x >= xborder + img.xsize -> img.at[img.xsize - 1 - (x - img.xsize - xborder), y]
    [] OTHER -> img.at[x - xborder, y]
PadByParts(img, xborder, yborder) ==
  Image(img.xsize + 2 * xborder, img.ysize + 2 * yborder,
        LAMBDA x, y :
          CASE y < yborder -> PadRow(img, xborder, x, 2 * yborder - 1 - y - yborder)
            [] y >= yborder + img.ysize ->
                 PadRow(img, xborder, x, img.ysize + yborder - 1 - (y - img.ysize - yborder) - yborder)
            [] OTHER -> PadRow(img, xborder, x, y - yborder))
PadImageMirror(img, xborder, yborder) ==
  IF xborder > img.xsize \/ yborder > img.ysize
  THEN PadByPixels(img, xborder, yborder) ELSE PadByParts(img, xborder, yborder)

(* PadImageToBlockMultipleInPlace: the image grows into what was allocated, *)
(* its rows are extended and the last of them repeated.                     *)
PadToBlocks(img) ==
  LET edge(i, size) == IF i < size THEN i ELSE size - 1
      new(x, y) == IF <<x, y>> \in Pixels(RoundUpToBlockDim(img.xsize), RoundUpToBlockDim(img.ysize))
                   THEN img.at[edge(x, img.xsize), edge(y, img.ysize)] ELSE img.at[x, y]
  IN  ShrinkTo(Update(img, new), RoundUpToBlockDim(img.xsize), RoundUpToBlockDim(img.ysize))

(* DownsampleImage: means of squares, cut off at the borders; with room for *)
(* a block more in each direction.                                          *)
Square(img, factor, x, y) ==
  {p \in Valid(img) : p[1] \in factor * x .. factor * x + factor - 1
                      /\ p[2] \in factor * y .. factor * y + factor - 1}
MeanOf(img, S) == MapThenSumSet(LAMBDA p : img.at[p], S) \div Cardinality(S)
DownsampleImage(img, factor) ==
  LET xsize == DivCeil(img.xsize, factor)
      ysize == DivCeil(img.ysize, factor)
  IN  ShrinkTo(Image(xsize + kBlockDim, ysize + kBlockDim,
                     LAMBDA x, y : IF x < xsize /\ y < ysize
                                   THEN MeanOf(img, Square(img, factor, x, y)) ELSE Garbage),
               xsize, ysize)

(* SetBorder: rows at the top and the bottom, none of the latter where      *)
(* ysize - thickness wraps around; columns unless the rows are all there is. *)
\* Mutant: one row fewer at the bottom.
InBorder_M(img, thickness, x, y) ==
  \/ y < thickness
  \/ thickness <= img.ysize /\ y > img.ysize - thickness
  \/ img.ysize >= 2 * thickness /\ (x < thickness \/ x >= img.xsize - thickness)
InBorder(img, thickness, x, y) ==
  \/ y < thickness
  \/ thickness <= img.ysize /\ y >= img.ysize - thickness
  \/ img.ysize >= 2 * thickness /\ (x < thickness \/ x >= img.xsize - thickness)
SetBorder(img, thickness, value) ==
  Update(img, LAMBDA x, y : IF <<x, y>> \in Valid(img) /\ InBorder(img, thickness, x, y)
                            THEN value ELSE img.at[x, y])

(* CopyImageToWithPadding: the rectangle and as much around it, up to       *)
(* `padding`, as the source has.  A rectangle is <<x0, y0, xsize, ysize>>.  *)
Extra(rect, img, padding) ==
  [x0 |-> Min({padding, rect[1]}), x1 |-> Min({padding, img.xsize - rect[1] - rect[3]}),
   y0 |-> Min({padding, rect[2]}), y1 |-> Min({padding, img.ysize - rect[2] - rect[4]})]
Padded(rect, extra) ==
  <<rect[1] - extra.x0, rect[2] - extra.y0,
    rect[3] + extra.x0 + extra.x1, rect[4] + extra.y0 + extra.y1>>
Within(rect, xsize, ysize) ==
  rect[1] >= 0 /\ rect[2] >= 0 /\ rect[1] + rect[3] <= xsize /\ rect[2] + rect[4] <= ysize
CopyImageTo(from_rect, from, to_rect, to) ==
  Update(to, LAMBDA x, y :
    IF x - to_rect[1] \in 0 .. to_rect[3] - 1 /\ y - to_rect[2] \in 0 .. to_rect[4] - 1
    THEN from.at[x - to_rect[1] + from_rect[1], y - to_rect[2] + from_rect[2]]
    ELSE to.at[x, y])
CopyImageToWithPadding(from_rect, from, padding, to_rect, to) ==
  LET extra == Extra(from_rect, from, padding)
  IN  CopyImageTo(Padded(from_rect, extra), from, Padded(to_rect, extra), to)

(* ConvolveXSampleAndTranspose: rows are continued by ExtrapolateBorders,   *)
(* and a kernel that does not fit between the borders reads clamped indices *)
(* of what results.                                                         *)
ExtrapolateBorders(img, y, i) ==
  CASE i < 0 -> img.at[Min({-i, img.xsize - 1}), y]
    [] i >= img.xsize -> img.at[Max({0, img.xsize - 1 - (i - (img.xsize - 1))}), y]
    [] OTHER -> img.at[i, y]
Clamped(i, xsize) == Max({0, Min({i, xsize})})
Radius(kernel) == Len(kernel) \div 2
Inner(x, r, xsize) == x >= r /\ x + r < xsize
Convolved(img, kernel, x, y) ==
  LET r == Radius(kernel)
      tap(i) == IF Inner(x, r, img.xsize) THEN x + i ELSE Clamped(x + i, img.xsize)
  IN  MapThenSumSet(LAMBDA i : ExtrapolateBorders(img, y, tap(i)) * kernel[i + r + 1], -r .. r)
ConvolveXSampleAndTranspose(img, kernel, res) ==
  Image(img.ysize, img.xsize \div res,
        LAMBDA x, y : Convolved(img, kernel, (res \div 2) + y * res, x))

-----------------------------------------------------------------------------
Do(name, args, result) ==
  /\ op.name # "aborted" /\ ops < MaxOps
  /\ op' = [name |-> name, args |-> args]
  /\ before' = image /\ image' = result
  /\ ops' = ops + 1

(* A size that was not allocated fails a check.                             *)
Shrink ==
  \E xsize \in 1 .. image.orig_xsize, ysize \in 1 .. image.orig_ysize :
    Do("shrink", <<xsize, ysize>>, ShrinkTo(image, xsize, ysize))
Pad ==
  IF Fits(image, RoundUpToBlockDim(image.xsize), RoundUpToBlockDim(image.ysize))
  THEN Do("pad", <<>>, PadToBlocks(image))
  ELSE Do("aborted", <<>>, image)
PadMirror ==
  \E b \in Borders : Do("mirror", b, PadImageMirror(image, b[1], b[2]))
Downsample ==
  \E factor \in Factors : Do("downsample", factor, DownsampleImage(image, factor))
\* A border wider than the image would run over the ends of its rows.
Border ==
  \E thickness \in Thicknesses :
    /\ image.xsize >= thickness
    /\ Do("border", thickness, SetBorder(image, thickness, Garbage - 1))
Copy ==
  /\ ops = 0
  /\ \E x0 \in 0 .. image.xsize - 1, y0 \in 0 .. image.ysize - 1, padding \in Paddings :
     \E x1 \in x0 + 1 .. image.xsize, y1 \in y0 + 1 .. image.ysize,
        to_x, to_y \in 0 .. CopySize - 1 :
       LET from_rect == <<x0, y0, x1 - x0, y1 - y0>>
           to_rect == <<to_x, to_y, x1 - x0, y1 - y0>>
           blank == Image(CopySize, CopySize, LAMBDA x, y : Garbage)
       IN  /\ Within(Padded(to_rect, Extra(from_rect, image, padding)), CopySize, CopySize)
           /\ Do("copy", <<x0, y0, x1, y1, padding, to_x, to_y>>,
                 CopyImageToWithPadding(from_rect, image, padding, to_rect, blank))
Convolve ==
  \E kernel \in Kernels, res \in Steps :
    /\ image.xsize % res = 0
    /\ Do("convolve", <<kernel, res>>, ConvolveXSampleAndTranspose(image, kernel, res))

Init ==
  \E i \in Images :
    /\ image = Image(i[1], i[2], LAMBDA x, y : i[3][x, y])
    /\ op = [name |-> "none", args |-> <<>>] /\ before = image /\ ops = 0

Next ==
  \/ Shrink \/ Pad \/ PadMirror \/ Downsample \/ Border \/ Copy \/ Convolve
  \/ (ops = MaxOps \/ op.name = "aborted") /\ UNCHANGED vars

Spec == Init /\ [][Next]_vars

-----------------------------------------------------------------------------
(* The pixels an operation leaves, from those it was given, by what it is   *)
(* documented to do and not by its loops and copies.                        *)
Held(i, last) == Max({0, Min({i, last})})
Reflected(i, size) ==
  IF i % (2 * size) < size THEN i % (2 * size) ELSE 2 * size - 1 - (i % (2 * size))
ToEdge(p) == Min({p[1], p[2], before.xsize - 1 - p[1], before.ysize - 1 - p[2]})
SumOver(S) == MapThenSumSet(LAMBDA p : before.at[p], S)
PixelExact(p) ==
  CASE op.name = "shrink" -> image.at[p] = before.at[p]
    [] op.name = "pad" ->
         image.at[p] = before.at[Held(p[1], before.xsize - 1), Held(p[2], before.ysize - 1)]
    [] op.name = "mirror" ->
         image.at[p] = before.at[Reflected(p[1] - op.args[1], before.xsize),
                                 Reflected(p[2] - op.args[2], before.ysize)]
    [] op.name = "downsample" ->
         LET part == {q \in Valid(before) : <<q[1] \div op.args, q[2] \div op.args>> = p}
         IN  part # {} /\ image.at[p] = SumOver(part) \div Cardinality(part)
    [] op.name = "border" ->
         image.at[p] = IF ToEdge(p) < op.args THEN Garbage - 1 ELSE before.at[p]
    [] op.name = "copy" ->
         LET q == <<p[1] - op.args[6] + op.args[1], p[2] - op.args[7] + op.args[2]>>
             near == /\ q \in Valid(before)
                     /\ q[1] \in op.args[1] - op.args[5] .. op.args[3] - 1 + op.args[5]
                     /\ q[2] \in op.args[2] - op.args[5] .. op.args[4] - 1 + op.args[5]
         IN  image.at[p] = IF near THEN before.at[q] ELSE Garbage
    [] op.name = "convolve" ->
         LET kernel == op.args[1]
             centre == op.args[2] * p[2] + op.args[2] \div 2
             r == Radius(kernel)
             row == {before.at[x, p[1]] : x \in 0 .. before.xsize - 1}
             weights == MapThenSumSet(LAMBDA i : kernel[i], DOMAIN kernel)
         IN  /\ centre - r >= 0 /\ centre + r < before.xsize =>
                  image.at[p] = MapThenSumSet(LAMBDA i : before.at[centre + i, p[1]] * kernel[r + 1 + i],
                                              -r .. r)
             /\ weights * Min(row) <= image.at[p] /\ image.at[p] <= weights * Max(row)
    [] OTHER -> TRUE

(* Every pixel of the result is what the operation promises, at every size, *)
(* and the room that downsampling leaves is enough to pad to blocks.        *)
Promised(xsize, ysize) == <<image.xsize, image.ysize>> = <<xsize, ysize>>
SizeExact ==
  CASE op.name = "shrink" -> Promised(op.args[1], op.args[2])
    [] op.name = "pad" -> Promised(RoundUpToBlockDim(before.xsize), RoundUpToBlockDim(before.ysize))
    [] op.name = "mirror" ->
         Promised(before.xsize + 2 * op.args[1], before.ysize + 2 * op.args[2])
    [] op.name = "convolve" -> Promised(before.ysize, before.xsize \div op.args[2])
    [] OTHER -> TRUE
ImagesExact ==
  /\ SizeExact
  /\ \A p \in Valid(image) : PixelExact(p)
  /\ op.name = "downsample" =>
       Fits(image, RoundUpToBlockDim(image.xsize), RoundUpToBlockDim(image.ysize))
  /\ \A row \in -image.ysize .. 2 * image.ysize - 1 :
       WrapRow(row, image.ysize) = Mirror[row, image.ysize]
=================================================================================
