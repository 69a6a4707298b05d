-------------------------------- MODULE PngAndGif --------------------------------
(***************************************************************************)
(* The decoders of PNG and GIF files, each for itself, for any canvas and   *)
(* files of any length: chunks of a PNG become pictures and a description   *)
(* of color, and the frames of an animation become layers.  A behaviour is  *)
(* about one of these; the two kinds of layers share their variables and    *)
(* the viewer's.  The GIFs keep to the usual disposals (see Unusual in      *)
(* GifLayers).                                                              *)
(***************************************************************************)
EXTENDS Integers, Sequences

CONSTANTS
  CanvasWidth, CanvasHeight,
  MaxPngChunks,    (* bound on the chunks of a file, where pictures are    *)
                   (* made of them                                         *)
  MaxColorChunks,  (* the same where colors are made of them               *)
  Sizes            (* of the pictures of a PNG, 0 being that of the canvas *)

ASSUME PngAndGifAssumption ==
  /\ CanvasWidth \in Nat \ {0} /\ CanvasHeight \in Nat \ {0}
  /\ MaxPngChunks \in Nat /\ MaxColorChunks \in Nat
  /\ 0 \in Sizes

VARIABLES
  which,                                           (* what is decoded      *)
  slots, shown, displayed, color,                  (* both kinds of layers *)
  nontrivial, mustClear, previous, output,         (* ApngLayers           *)
  animated, gifStatus, canvas, restored, lastBaseNone, screen, (* GifLayers *)
  file, isAnimated, hasInfo, control, saved, png, frames, meant,
  pngStatus,                                       (* ApngChunks           *)
  pngGray, pngHint, pngSeen, pngColor, pngIcc, have_color, have_srgb,
  pngOutcome                                       (* PngColor             *)

layerVars == <<slots, shown, displayed, color>>
apngVars == <<nontrivial, mustClear, previous, output>>
gifVars == <<animated, gifStatus, canvas, restored, lastBaseNone, screen>>
chunkVars == <<file, isAnimated, hasInfo, control, saved, png, frames, meant, pngStatus>>
colorVars == <<pngGray, pngHint, pngSeen, pngColor, pngIcc, have_color, have_srgb, pngOutcome>>
decoderVars == <<which, layerVars, apngVars, gifVars, chunkVars, colorVars>>

A == INSTANCE ApngLayers WITH Width <- CanvasWidth, Height <- CanvasHeight
G == INSTANCE GifLayers WITH
       Width <- CanvasWidth, Height <- CanvasHeight,
       Kinds <- BOOLEAN, AnyDisposal <- FALSE, status <- gifStatus
C == INSTANCE ApngChunks WITH MaxChunks <- MaxPngChunks, status <- pngStatus
P == INSTANCE PngColor WITH
       MaxChunks <- MaxColorChunks, gray <- pngGray, hint <- pngHint,
       seen <- pngSeen, color <- pngColor, icc <- pngIcc, outcome <- pngOutcome

PngAndGifInit ==
  /\ which = "apng" => A!Init
  /\ which = "gif" => G!Init
  /\ which = "chunks" => C!Init
  /\ which = "color" => P!Init

PngAndGifNext ==
  /\ which' = which
  /\ \/ which = "apng" /\ A!Next /\ UNCHANGED <<gifVars, chunkVars, colorVars>>
     \/ which = "gif" /\ G!Next /\ UNCHANGED <<apngVars, chunkVars, colorVars>>
     \/ which = "chunks" /\ C!Next /\ UNCHANGED <<layerVars, apngVars, gifVars, colorVars>>
     \/ which = "color" /\ P!Next /\ UNCHANGED <<layerVars, apngVars, gifVars, chunkVars>>

PngAndGifSpec == PngAndGifInit /\ [][PngAndGifNext]_decoderVars

-------------------------------------------------------------------------------
Canvases == [A!Cell -> A!Colors \cup {A!Blank}]

(* Before a frame of a PNG the viewer's buffer is the saved reference, with *)
(* the frame before cleared if it is to be disposed of; nothing is saved    *)
(* before the first frame that stays.                                       *)
ApngInv ==
  /\ nontrivial \in BOOLEAN /\ mustClear \in BOOLEAN
  /\ previous \in A!Rects
  /\ slots \in [{0, 1} -> Canvases] /\ output \in Canvases
  /\ shown \in Canvases /\ shown = displayed
  /\ color \in A!Colors
  /\ mustClear => nontrivial
  /\ ~nontrivial => slots[1] = A!BlankCanvas
  /\ output = IF mustClear THEN A!Cleared(slots[1], previous) ELSE slots[1]

(* The decoder of a GIF paints the screen of a viewer; it is what is saved  *)
(* unless the whole canvas was just cleared, or nothing is saved.           *)
GifInv ==
  /\ gifStatus \in {"decoding", "complete", "failed"}
  /\ animated \in BOOLEAN /\ lastBaseNone \in BOOLEAN
  /\ ~animated => lastBaseNone
  /\ slots \in [{0, 1} -> Canvases]
  /\ shown \in Canvases /\ shown = displayed
  /\ canvas \in Canvases /\ canvas = screen
  /\ color \in G!Colors
  /\ restored \in {G!NoRect, G!Whole}
  /\ ~lastBaseNone /\ restored = G!NoRect => slots[1] = canvas
  /\ ~animated /\ gifStatus = "decoding" => canvas = G!BlankCanvas /\ restored = G!NoRect

(* A PNG so far: the palette is what the chunks said, and the picture that  *)
(* libpng is being given is the last one meant, after those delivered.      *)
ChunkKinds == {"acTL", "PLTE", "IDAT", "fcTL", "fdAT"}
PictureSet == [size : Sizes, decoded : Sizes, palette : BOOLEAN, data : Nat]
ChunksInv ==
  /\ file \in Seq(ChunkKinds)
  /\ isAnimated \in BOOLEAN /\ hasInfo \in BOOLEAN /\ saved \in BOOLEAN
  /\ hasInfo <=> C!Has("IDAT")
  /\ saved <=> C!Has("PLTE")
  /\ png \in [size : Sizes, palette : BOOLEAN, data : Nat]
  /\ png.size = control /\ png.palette = saved
  /\ frames \in Seq(PictureSet)
  /\ pngStatus \in {"reading", "refused", "done"}
  /\ pngStatus = "done" => frames = meant
  /\ pngStatus # "done" /\ hasInfo =>
       meant = Append(frames, C!Picture(control, png.size, png.palette, png.data))
  /\ pngStatus # "done" /\ ~hasInfo =>
       control = C!Canvas /\ png.data = 0 /\ frames = <<>> /\ meant = <<>>
  /\ pngStatus # "done" /\ C!LastKind = "IDAT" => control = C!Canvas /\ frames = <<>>

(* Colors so far: those of the last chunk of each kind, or the defaults.    *)
ColorInv ==
  /\ pngGray \in BOOLEAN /\ pngHint \in P!Hints
  /\ have_color \in BOOLEAN /\ have_srgb \in BOOLEAN
  /\ pngSeen \in Seq(P!Chunk) /\ Len(pngSeen) <= MaxColorChunks
  /\ pngOutcome \in {"reading", "broken", "refused", "read"}
  /\ pngIcc \in {P!FromHint} \cup 0 .. MaxColorChunks
  /\ pngOutcome \in {"reading", "broken"} =>
       /\ have_color <=> \E id \in {"iCCP", "sRGB", "gAMA", "cHRM"} : P!Given(id)
       /\ have_srgb <=> P!Given("sRGB")
       /\ P!IsFirstProfile(pngIcc)
       /\ pngColor = P!Encoding(IF P!HasImageData THEN P!SpaceOf(pngGray) ELSE "rgb",
                                P!LastOf("cHRM", P!Default), P!LastOf("gAMA", P!Default),
                                P!LastOf("sRGB", P!Default))
  /\ pngOutcome = "reading" =>
       \A i \in DOMAIN pngSeen : pngSeen[i].good \/ pngSeen[i].id = "iCCP"
  /\ P!ColorExact

IInv ==
  /\ which = "apng" => ApngInv
  /\ which = "gif" => GifInv
  /\ which = "chunks" => ChunksInv
  /\ which = "color" => ColorInv

(* Stated and explained in ApngLayers, GifLayers, ApngChunks and PngColor,  *)
(* and joined with the types of their state.  The last is about the chunks  *)
(* of a PNG, whose pictures and colors do not depend on their order.        *)
FramesShowPicture == which = "apng" => A!TypeOK /\ A!FramesShowPicture
LayersShowCanvas == which = "gif" => G!TypeOK /\ G!LayersShowCanvas
ChunksUnderstood ==
  /\ which = "chunks" => C!TypeOK /\ C!PicturesDelivered
  /\ which = "color" => P!TypeOK /\ P!ColorExact
=================================================================================
