----------------------------- MODULE ApngLayers -----------------------------
(***************************************************************************)
(* How DecodeImageAPNG (src/lib/extras/dec/apng.cc) turns the frames of an  *)
(* animated PNG, with their dispose and blend operations, into layers.  The *)
(* layers are composed as they are produced, next to the canvas of a viewer *)
(* that follows the APNG specification, so that animations of any length    *)
(* are covered.                                                             *)
(***************************************************************************)
EXTENDS Layers

VARIABLES nontrivial,  \* has_nontrivial_background
          mustClear,   \* previous_frame_should_be_cleared
          previous,    \* the rectangle of frames[i - 1]
          slots,       \* the reference canvases of the layers so far
          shown,       \* what the layers show after the latest frame
          output,      \* a viewer's output buffer, disposed of
          displayed,   \* what the viewer displayed for the latest frame
          color        \* the color of the next frame's opaque pixels

vars == <<nontrivial, mustClear, previous, slots, shown, output, displayed,
          color>>

DISPOSE_OP_NONE == 0
DISPOSE_OP_BACKGROUND == 1
DISPOSE_OP_PREVIOUS == 2
BLEND_OP_SOURCE == 0
BLEND_OP_OVER == 1

Init ==
  /\ nontrivial = FALSE /\ mustClear = FALSE
  /\ previous = Whole
  /\ slots = NoSlots
  /\ shown = BlankCanvas /\ output = BlankCanvas /\ displayed = BlankCanvas
  /\ color = "red"

-----------------------------------------------------------------------------
Contains(outer, inner) ==
  /\ outer.x0 <= inner.x0 /\ outer.y0 <= inner.y0
  /\ inner.x0 + inner.xsize <= outer.x0 + outer.xsize
  /\ inner.y0 + inner.ysize <= outer.y0 + outer.ysize

(* The new frame padded with zeros to the rectangle of the old one.         *)
Padded(r, pixels) ==
  [p \in Positions(previous) |->
     LET c == <<p[1] + previous.x0, p[2] + previous.y0>>
     IN  IF Covers(r, c) THEN pixels[At(r, c)] ELSE Blank]

(* The layers that stand for one frame: itself, itself padded, or itself on *)
(* top of a blank layer that clears what the frame before it left.          *)
\* A frame that is itself not kept may take the shortcuts too.
LayersOf_M(r, pixels, over, keep) ==
  LET own(blend) == Layer(r, pixels, blend, 1, IF keep THEN 1 ELSE 0)
      blank == Layer(previous, [p \in Positions(previous) |-> Blank],
                     FALSE, 1, 1)
  IN  IF ~mustClear THEN <<own(over)>>
      ELSE IF Contains(r, previous) /\ ~over THEN <<own(FALSE)>>
      ELSE IF Contains(previous, r)
      THEN <<Layer(previous, Padded(r, pixels), FALSE, 1, IF keep THEN 1 ELSE 0)>>
      ELSE <<blank, own(over)>>

LayersOf(r, pixels, over, keep) ==
  LET save == IF keep THEN 1 ELSE 0
      own(blend) == Layer(r, pixels, blend, 1, save)
      blank == Layer(previous, [p \in Positions(previous) |-> Blank],
                     FALSE, 1, 1)
  IN  IF ~mustClear THEN <<own(over)>>
      ELSE IF Contains(r, previous) /\ ~over /\ keep THEN <<own(FALSE)>>
      ELSE IF r = previous /\ keep THEN <<own(FALSE)>>
      ELSE IF Contains(previous, r) /\ keep
      THEN <<Layer(previous, Padded(r, pixels), FALSE, 1, save)>>
      ELSE <<blank, own(over)>>

(* One round of the loop over the frames.                                   *)
AddFrame(r, pixels, dispose, blendOp) ==
  LET kept == nontrivial \/ dispose = DISPOSE_OP_NONE
      keep == kept /\ dispose # DISPOSE_OP_PREVIOUS
      layers == LayersOf(r, pixels, blendOp = BLEND_OP_OVER, keep)
      under == IF Len(layers) = 2 THEN Saved(layers[1], slots) ELSE slots
      top == layers[Len(layers)]
  IN  /\ nontrivial' = kept
      /\ mustClear' = (kept /\ dispose = DISPOSE_OP_BACKGROUND)
      /\ previous' = r
      /\ shown' = Composed(top, under)
      /\ slots' = Saved(top, under)

-----------------------------------------------------------------------------
(* A viewer of the APNG specification: draw the frame, show the output      *)
(* buffer, dispose of the frame.                                            *)
View(r, pixels, dispose, blendOp) ==
  LET drawn == IF blendOp = BLEND_OP_OVER THEN Over(output, r, pixels)
                                          ELSE Replaced(output, r, pixels)
  IN  /\ displayed' = drawn
      /\ output' = CASE dispose = DISPOSE_OP_NONE -> drawn
                     [] dispose = DISPOSE_OP_BACKGROUND -> Cleared(drawn, r)
                     [] dispose = DISPOSE_OP_PREVIOUS -> output

Next ==
  \E r \in Rects, dispose \in 0 .. 2, blendOp \in 0 .. 1 :
    \E pixels \in Images(r, color) :
      /\ AddFrame(r, pixels, dispose, blendOp)
      /\ View(r, pixels, dispose, blendOp)
      /\ color' \in Colors \ {color}

Spec == Init /\ [][Next]_vars

-----------------------------------------------------------------------------
TypeOK ==
  /\ {nontrivial, mustClear} \subseteq BOOLEAN
  /\ previous \in Rects
  /\ \A canvas \in {shown, output, displayed, slots[0], slots[1]} :
       DOMAIN canvas = Cell /\ \A c \in Cell : canvas[c] \in Colors \cup {Blank}

(* The layers show, at every frame of every animation, what a viewer shows  *)
(* that keeps an output buffer: the shortcuts that avoid a blank layer, and *)
(* a frame not saved because it is disposed to what was there before it,    *)
(* are never visible (apng.cc:683-790).                                     *)
FramesShowPicture == shown = displayed
=============================================================================
