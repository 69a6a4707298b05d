------------------------------- MODULE Layers -------------------------------
(***************************************************************************)
(* Frames of an animation as JPEG XL keeps them: layers, each a rectangle   *)
(* of pixels put onto a saved reference canvas                              *)
(* (src/lib/include/jxl/codestream_header.h, JxlBlendInfo, JxlLayerInfo).   *)
(* The GIF and APNG decoders translate the operations of their formats into *)
(* these.                                                                   *)
(*                                                                          *)
(* A pixel is Blank, fully transparent, or an opaque color.                 *)
(***************************************************************************)
EXTENDS Integers, Sequences

CONSTANTS Width, Height   \* of the canvas

Blank == "blank"
Colors == {"red", "blue"}

Cell == (0 .. Width - 1) \X (0 .. Height - 1)
BlankCanvas == [c \in Cell |-> Blank]

Rects == {r \in [x0 : 0 .. Width - 1, y0 : 0 .. Height - 1,
                 xsize : 1 .. Width, ysize : 1 .. Height] :
            r.x0 + r.xsize <= Width /\ r.y0 + r.ysize <= Height}
Whole == [x0 |-> 0, y0 |-> 0, xsize |-> Width, ysize |-> Height]

Covers(r, c) == /\ r.x0 <= c[1] /\ c[1] < r.x0 + r.xsize
                /\ r.y0 <= c[2] /\ c[2] < r.y0 + r.ysize

(* The pixels of a frame are indexed from its own corner.                   *)
Positions(r) == (0 .. r.xsize - 1) \X (0 .. r.ysize - 1)
Images(r, color) == [Positions(r) -> {Blank, color}]
At(r, c) == <<c[1] - r.x0, c[2] - r.y0>>

(* Putting pixels over or in place of a rectangle of a canvas.              *)
Over(canvas, r, pixels) ==
  [c \in Cell |-> IF Covers(r, c) /\ pixels[At(r, c)] # Blank
                  THEN pixels[At(r, c)] ELSE canvas[c]]
Replaced(canvas, r, pixels) ==
  [c \in Cell |-> IF Covers(r, c) THEN pixels[At(r, c)] ELSE canvas[c]]
Cleared(canvas, r) ==
  [c \in Cell |-> IF Covers(r, c) THEN Blank ELSE canvas[c]]
Cut(canvas, r) ==
  [p \in Positions(r) |-> canvas[<<p[1] + r.x0, p[2] + r.y0>>]]

(* "Reference frame ID to use as the 'bottom' layer": outside the crop a    *)
(* layer shows that reference, inside it the blend mode decides.            *)
Layer(r, pixels, blend, source, save) ==
  [rect |-> r, pixels |-> pixels, blend |-> blend, source |-> source,
   save |-> save]

Composed(layer, slots) ==
  IF layer.blend
  THEN Over(slots[layer.source], layer.rect, layer.pixels)
  ELSE Replaced(slots[layer.source], layer.rect, layer.pixels)

(* "After blending, save the frame as reference frame with this ID.  Special *)
(* case: if the frame duration is nonzero, ID 0 means 'will not be          *)
(* referenced in the future'."  All frames here have a duration; what is in *)
(* slot 0 is never seen.                                                    *)
NoSlots == [s \in {0, 1} |-> BlankCanvas]
Saved(layer, slots) ==
  IF layer.save = 0 THEN slots
                    ELSE [slots EXCEPT ![layer.save] = Composed(layer, slots)]
=============================================================================
