------------------------------ MODULE ApngChunks ------------------------------
(***************************************************************************)
(* The chunk loop of DecodeImageAPNG (src/lib/extras/dec/apng.cc): it       *)
(* splits a PNG file into pictures and gives each of them to libpng as a    *)
(* file of its own, made of a copy of the header, the chunks that preceded  *)
(* the first image data, and that picture's data.                           *)
(*                                                                          *)
(* A file is written chunk by chunk, in an order the PNG and APNG           *)
(* specifications allow, and may end at any point.  libpng is external: it  *)
(* collects what it is given, and may find an error in it.                  *)
(***************************************************************************)
EXTENDS Integers, Sequences

CONSTANTS MaxChunks,   \* bound on the chunks of a file
          Sizes        \* sizes of pictures; the first one is the canvas

VARIABLES file,        \* history: kinds of the chunks so far
          isAnimated, hasInfo,
          control,     \* w0 .. bop: the size of the picture being read
          saved,       \* chunksInfo: whether it holds the palette
          png,         \* what the current libpng object was given
          frames,      \* the pictures delivered
          meant,       \* history: the pictures the file's author put in
          status       \* "reading", "done", "refused" or "aborted"

vars == <<file, isAnimated, hasInfo, control, saved, png, frames, meant, status>>

Canvas == 0

(* processing_start: a new libpng object, fed the header with the size of   *)
(* the new picture and the chunks that hold the palette.                    *)
\* The saved chunks are not replayed.
Started_M(size) == [size |-> size, palette |-> FALSE, data |-> 0]
Started(size) == [size |-> size, palette |-> saved, data |-> 0]

(* A picture of one size, decoded at another, from this many data chunks.   *)
Picture(size, decoded, palette, data) ==
  [size |-> size, decoded |-> decoded, palette |-> palette, data |-> data]

Init ==
  /\ file = <<>>
  /\ isAnimated = FALSE /\ hasInfo = FALSE
  /\ control = Canvas
  /\ saved = FALSE
  /\ png = [size |-> Canvas, palette |-> FALSE, data |-> 0]
  /\ frames = <<>> /\ meant = <<>>
  /\ status = "reading"

-----------------------------------------------------------------------------
Has(kind) == \E i \in DOMAIN file : file[i] = kind
LastKind == IF file = <<>> THEN "IHDR" ELSE file[Len(file)]

Comes(kind) ==
  /\ status = "reading"
  /\ Len(file) < MaxChunks
  /\ file' = Append(file, kind)

(* acTL, once and before the image data.  A still file has none.            *)
AnimationControl ==
  /\ ~Has("acTL") /\ ~Has("IDAT")
  /\ Comes("acTL")
  /\ isAnimated' = TRUE
  /\ UNCHANGED <<hasInfo, control, saved, png, frames, meant, status>>

(* A chunk of another kind, which libpng keeps and chunksInfo repeats.      *)
Palette ==
  /\ ~Has("PLTE") /\ ~Has("IDAT")
  /\ Comes("PLTE")
  /\ png' = [png EXCEPT !.palette = TRUE]
  /\ saved' = (saved \/ ~hasInfo)
  /\ UNCHANGED <<isAnimated, hasInfo, control, frames, meant, status>>

(* The first picture's data.  Every IDAT sets up the frame buffer again; a   *)
(* picture may have several.                                                *)
ImageData ==
  /\ Has("IDAT") => LastKind = "IDAT"
  /\ Comes("IDAT")
  /\ hasInfo' = TRUE
  /\ IF png.size = Canvas
     THEN png' = [png EXCEPT !.data = @ + 1] /\ UNCHANGED status
     ELSE status' = "aborted" /\ UNCHANGED png
  /\ meant' =
       IF Has("IDAT") THEN [meant EXCEPT ![1].data = @ + 1]
                      ELSE <<Picture(Canvas, Canvas, Has("PLTE"), 1)>>
  /\ UNCHANGED <<isAnimated, control, saved, frames>>

(* processing_finish and the copy into a new frame, of the size that the    *)
(* control data tells.                                                      *)
\* The frame gets the control data of the one that follows.
Delivered_M(next) ==
  Append(frames, Picture(next, png.size, png.palette, png.data))
Delivered(next) ==
  Append(frames, Picture(control, png.size, png.palette, png.data))

(* A frame control in the data of a still file goes to libpng.              *)
\* It is taken for the start of a frame.
PassedOn_M == FALSE
PassedOn == hasInfo /\ ~isAnimated

(* fcTL: the old picture is done, a new one begins.  The one that comes     *)
(* before the image data, of the size of the canvas, begins nothing.        *)
FrameControl(size) ==
  /\ LastKind # "fcTL"
  /\ ~Has("IDAT") => size = Canvas /\ ~Has("fcTL")
  /\ Comes("fcTL")
  /\ IF PassedOn
     THEN UNCHANGED <<control, png, frames>>
     ELSE /\ control' = size
          /\ IF hasInfo
             THEN frames' = Delivered(size) /\ png' = Started(size)
             ELSE UNCHANGED <<frames, png>>
  /\ meant' = IF hasInfo /\ isAnimated
              THEN Append(meant, Picture(size, size, Has("PLTE"), 0))
              ELSE meant
  /\ UNCHANGED <<isAnimated, hasInfo, saved, status>>

(* fdAT: data of a later picture, given to libpng as an IDAT.               *)
FrameData ==
  /\ LastKind \in {"fcTL", "fdAT"} /\ Has("IDAT")
  /\ Comes("fdAT")
  /\ IF isAnimated
     THEN /\ png' = [png EXCEPT !.data = @ + 1]
          /\ meant' = [meant EXCEPT ![Len(meant)].data = @ + 1]
     ELSE UNCHANGED <<png, meant>>
  /\ UNCHANGED <<isAnimated, hasInfo, control, saved, frames, status>>

(* IEND delivers the last picture, if there is one.                         *)
End ==
  /\ LastKind # "fcTL"
  /\ status = "reading"
  /\ frames' = IF hasInfo THEN Delivered(control) ELSE frames
  /\ status' = "done"
  /\ UNCHANGED <<file, isAnimated, hasInfo, control, saved, png, meant>>

(* The file ends early, a chunk is damaged or libpng finds an error: the    *)
(* loop is left with errorstate set.                                        *)
Refuse ==
  /\ status = "reading"
  /\ status' = "refused"
  /\ UNCHANGED <<file, isAnimated, hasInfo, control, saved, png, frames,
                 meant>>

Next ==
  \/ AnimationControl \/ Palette \/ ImageData \/ FrameData \/ End \/ Refuse
  \/ \E size \in Sizes : FrameControl(size)

Spec == Init /\ [][Next]_vars

-----------------------------------------------------------------------------
TypeOK ==
  /\ {isAnimated, hasInfo, saved} \subseteq BOOLEAN
  /\ {control, png.size} \subseteq Sizes
  /\ Len(frames) <= Len(meant)
  /\ status \in {"reading", "done", "refused"}

(* Every picture is delivered, once, with its own size, all of its data and *)
(* the palette, which the file states only once; frame controls of a still  *)
(* file make no difference (apng.cc:493-615).                               *)
PicturesDelivered ==
  /\ status = "done" => frames = meant
  /\ \A i \in DOMAIN frames : frames[i] = meant[i]
=============================================================================
