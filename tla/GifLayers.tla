------------------------------ MODULE GifLayers ------------------------------
(***************************************************************************)
(* How DecodeImageGIF (src/lib/extras/dec/gif.cc) turns the pictures of a   *)
(* GIF, with their disposal methods, into layers.  The layers are composed  *)
(* as they are produced, next to the canvas of a viewer that follows the    *)
(* GIF specification.                                                       *)
(***************************************************************************)
EXTENDS Layers, FiniteSetsExt

CONSTANTS Kinds,      \* whether files may be animated, still, or both
          AnyDisposal \* whether a file may use disposal in Unusual ways

VARIABLES animated,      \* have_animation: more than one picture
          status,        \* "decoding", "complete" or "failed"
          canvas,        \* the decoder's canvas
          restored,      \* previous_rect_if_restore_to_background
          lastBaseNone,  \* last_base_was_none
          slots, shown,  \* the layers so far, composed
          screen,        \* a viewer's screen, disposed of
          displayed,     \* what the viewer displayed for the latest picture
          color          \* the color of the next picture's opaque pixels

vars == <<animated, status, canvas, restored, lastBaseNone, slots, shown,
          screen, displayed, color>>

Disposals == {"unspecified", "do_not", "background", "previous"}
NoRect == [x0 |-> 0, y0 |-> 0, xsize |-> 0, ysize |-> 0]

Init ==
  /\ animated \in Kinds
  /\ status = "decoding"
  /\ canvas = BlankCanvas
  /\ restored = NoRect
  /\ lastBaseNone = TRUE
  /\ slots = NoSlots /\ shown = BlankCanvas
  /\ screen = BlankCanvas /\ displayed = BlankCanvas
  /\ color = "red"

-----------------------------------------------------------------------------
BoundingBox(a, b) ==
  LET x0 == Min({a.x0, b.x0})
      y0 == Min({a.y0, b.y0})
  IN  [x0 |-> x0, y0 |-> y0,
       xsize |-> Max({a.x0 + a.xsize, b.x0 + b.xsize}) - x0,
       ysize |-> Max({a.y0 + a.ysize, b.y0 + b.ysize}) - y0]

(* A picture after one that was disposed to background takes that one's     *)
(* rectangle along, and clears it by replacing.                             *)
TotalRect(r) == IF restored = NoRect THEN r ELSE BoundingBox(r, restored)
Replaces == restored # NoRect \/ (animated /\ lastBaseNone)

(* "GIF with dispose-to-0 is not supported for non-full or blended frames". *)
Unsupported(r) ==
  animated /\ lastBaseNone /\ ~(TotalRect(r) = Whole /\ Replaces)

(* Where the layer is kept as a reference for later ones.                   *)
\* A picture to be disposed to the one before it is kept as reference.
SaveSlot_M(disposal) == IF disposal = "unspecified" THEN 0 ELSE 1
SaveSlot(disposal) == IF disposal \in {"do_not", "background"} THEN 1 ELSE 0

(* The layer is a cut of the new canvas, or the picture itself.  A still    *)
(* picture has no layer_info: it is taken to lie at the origin.             *)
PictureLayer(r, pixels, disposal) ==
  LET content == IF Replaces THEN Cut(Over(canvas, r, pixels), TotalRect(r))
                             ELSE pixels
  IN  IF animated
      THEN Layer(TotalRect(r), content, ~Replaces,
                 IF lastBaseNone THEN 0 ELSE 1, SaveSlot(disposal))
      ELSE Layer([r EXCEPT !.x0 = 0, !.y0 = 0], content, FALSE, 0, 0)

Disposed(r, pixels, disposal) ==
  CASE disposal = "do_not" -> Over(canvas, r, pixels)
    [] disposal = "previous" -> canvas
    [] disposal \in {"background", "unspecified"} -> BlankCanvas

(* One round of the loop over the pictures.                                 *)
AddPicture(r, pixels, disposal) ==
  LET layer == PictureLayer(r, pixels, disposal)
  IN  /\ ~Unsupported(r)
      /\ shown' = Composed(layer, slots)
      /\ slots' = Saved(layer, slots)
      /\ canvas' = Disposed(r, pixels, disposal)
      /\ restored' = IF disposal = "background" THEN r ELSE NoRect
      /\ lastBaseNone' = IF animated /\ disposal # "previous"
                         THEN disposal = "unspecified" ELSE lastBaseNone
      /\ status' = IF animated THEN "decoding" ELSE "complete"

-----------------------------------------------------------------------------
(* A viewer: draw the picture, show the screen, dispose of the picture.     *)
(* The specification leaves open what follows an unspecified disposal; the  *)
(* viewer does what the decoder takes it to mean.                           *)
View(r, pixels, disposal) ==
  LET drawn == Over(screen, r, pixels)
  IN  /\ displayed' = drawn
      /\ screen' = CASE disposal = "do_not" -> drawn
                     [] disposal = "previous" -> screen
                     [] disposal = "background" -> Cleared(drawn, r)
                     [] disposal = "unspecified" -> BlankCanvas

(* The uses of disposal the translation does not carry over: a picture that *)
(* covers a part of the canvas and is disposed to background, one disposed  *)
(* to what was there before it right after a disposal to background, and a  *)
(* still picture that covers a part of the canvas.                          *)
Unusual(r, disposal) ==
  \/ disposal = "background" /\ r # Whole
  \/ disposal = "previous" /\ restored # NoRect
  \/ ~animated /\ r # Whole

Picture(r, pixels, disposal) ==
  /\ status = "decoding"
  /\ AnyDisposal \/ ~Unusual(r, disposal)
  /\ AddPicture(r, pixels, disposal)
  /\ View(r, pixels, disposal)
  /\ color' \in Colors \ {color}
  /\ UNCHANGED animated

(* A picture that is refused, that reaches outside the canvas or that uses  *)
(* a color outside the palette fails the decoder.                           *)
Refuse ==
  /\ status = "decoding"
  /\ status' = "failed"
  /\ UNCHANGED <<animated, canvas, restored, lastBaseNone, slots, shown,
                 screen, displayed, color>>

Next ==
  \/ \E r \in Rects, disposal \in Disposals : \E pixels \in Images(r, color) :
       Picture(r, pixels, disposal)
  \/ Refuse

Spec == Init /\ [][Next]_vars

-----------------------------------------------------------------------------
TypeOK ==
  /\ status \in {"decoding", "complete", "failed"}
  /\ restored \in Rects \cup {NoRect}
  /\ \A c \in {canvas, shown, screen, displayed, slots[0], slots[1]} :
       DOMAIN c = Cell /\ \A x \in Cell : c[x] \in Colors \cup {Blank}

(* The layers show, for every picture, what is painted onto "the 'canvas'   *)
(* onto which we paint the (potentially individually cropped) GIF frames of *)
(* an animation" (gif.cc:162-164, 200-396) by a viewer.  They do for files  *)
(* that keep to the usual disposals, in any order.                          *)
LayersShowCanvas == shown = displayed
=============================================================================
