---------------------------------- MODULE Rects ----------------------------------
(***************************************************************************)
(* jxl::RectT<int64_t> (lib/jxl/image.h): a part of an image as an origin  *)
(* and a size, cut down, moved and scaled.  `area`, which the code does    *)
(* not have, follows the pixels that are meant.                            *)
(***************************************************************************)
EXTENDS Integers, FiniteSetsExt

CONSTANTS
  Extents,      (* sizes of the images a first rectangle covers            *)
  Others,       (* rectangles to intersect with                            *)
  Windows,      (* <<begin, size_max, end>> in both directions             *)
  Offsets,      (* to translate by                                         *)
  Shifts,       (* <<shiftx, shifty>>                                      *)
  MaxSteps      (* bound on the steps from one rectangle to the next       *)

VARIABLES
  rect,         (* x0, y0, xsize, ysize                                    *)
  area,         (* history: the pixels it stands for                       *)
  steps

vars == <<rect, area, steps>>

Rect(x0, y0, xsize, ysize) == [x0 |-> x0, y0 |-> y0, xsize |-> xsize, ysize |-> ysize]
x1(r) == r.x0 + r.xsize
y1(r) == r.y0 + r.ysize
DivCeil(a, b) == (a + b - 1) \div b
Pixels(r) == (r.x0 .. x1(r) - 1) \X (r.y0 .. y1(r) - 1)

ClampedSize(begin, size_max, end) ==
  IF begin + size_max <= end THEN size_max ELSE IF end > begin THEN end - begin ELSE 0
ClampedRect(xbegin, ybegin, xsize_max, ysize_max, xend, yend) ==
  Rect(xbegin, ybegin, ClampedSize(xbegin, xsize_max, xend), ClampedSize(ybegin, ysize_max, yend))
Intersection(r, other) ==
  ClampedRect(Max({r.x0, other.x0}), Max({r.y0, other.y0}), r.xsize, r.ysize,
              Min({x1(r), x1(other)}), Min({y1(r), y1(other)}))
Lines(r, y, num) == Rect(r.x0, r.y0 + y, r.xsize, num)
Translate(r, x_offset, y_offset) == Rect(r.x0 + x_offset, r.y0 + y_offset, r.xsize, r.ysize)
ShiftLeft(r, shiftx, shifty) ==
  Rect(r.x0 * 2 ^ shiftx, r.y0 * 2 ^ shifty, r.xsize * 2 ^ shiftx, r.ysize * 2 ^ shifty)
CeilShiftRight(r, shiftx, shifty) ==
  Rect(r.x0 \div 2 ^ shiftx, r.y0 \div 2 ^ shifty,
       DivCeil(r.xsize, 2 ^ shiftx), DivCeil(r.ysize, 2 ^ shifty))
IsInside(r, other) ==
  r.x0 >= other.x0 /\ x1(r) <= x1(other) /\ r.y0 >= other.y0 /\ y1(r) <= y1(other)

Become(r, pixels) ==
  /\ steps < MaxSteps
  /\ rect' = r /\ area' = pixels /\ steps' = steps + 1

(* Intersection, and Crop, which is the same with the whole of an image.    *)
Crop == \E other \in Others : Become(Intersection(rect, other), area \cap Pixels(other))
TakeLines ==
  \E y, num \in 0 .. rect.ysize :
    /\ y + num <= rect.ysize
    /\ Become(Lines(rect, y, num),
              {p \in area : p[2] - rect.y0 \in y .. y + num - 1})
Move ==
  \E o \in Offsets :
    Become(Translate(rect, o[1], o[2]), {<<p[1] + o[1], p[2] + o[2]>> : p \in area})
Enlarge ==
  \E s \in Shifts :
    Become(ShiftLeft(rect, s[1], s[2]),
           {<<p[1] * 2 ^ s[1] + i, p[2] * 2 ^ s[2] + j>> :
              p \in area, i \in 0 .. 2 ^ s[1] - 1, j \in 0 .. 2 ^ s[2] - 1})
\* The origin has to be a multiple.
Reduce ==
  \E s \in Shifts :
    /\ rect.x0 % (2 ^ s[1]) = 0 /\ rect.y0 % (2 ^ s[2]) = 0
    /\ Become(CeilShiftRight(rect, s[1], s[2]),
              {<<p[1] \div 2 ^ s[1], p[2] \div 2 ^ s[2]>> : p \in area})

InWindow(w) == {i \in w[1] .. w[3] - 1 : i < w[1] + w[2]}
Init ==
  /\ steps = 0
  /\ \/ \E e \in Extents :
          rect = Rect(0, 0, e[1], e[2]) /\ area = (0 .. e[1] - 1) \X (0 .. e[2] - 1)
     \/ \E w, v \in Windows :
          /\ rect = ClampedRect(w[1], v[1], w[2], v[2], w[3], v[3])
          /\ area = InWindow(w) \X InWindow(v)

Next ==
  \/ Crop \/ TakeLines \/ Move \/ Enlarge \/ Reduce
  \/ steps = MaxSteps /\ UNCHANGED vars

Spec == Init /\ [][Next]_vars

(* However a rectangle was made from others, it covers the pixels meant,    *)
(* none more and none of a window beyond its end; and it is inside another  *)
(* when its pixels are.                                                     *)
RectExact ==
  /\ Pixels(rect) = area
  /\ rect.xsize >= 0 /\ rect.ysize >= 0
  /\ \A other \in Others :
       area # {} => (IsInside(rect, other) <=> area \subseteq Pixels(other))
==================================================================================
