-------------------------------- MODULE PngColor --------------------------------
(***************************************************************************)
(* What a PNG file says about its colors (DecodeImageAPNG,                  *)
(* src/lib/extras/dec/apng.cc): the iCCP, sRGB, gAMA and cHRM chunks come   *)
(* in any order, before the image data or after it, some of them twice or   *)
(* damaged, and each writes into the one PackedPixelFile; what sRGB says is *)
(* written at the end, and hints of the caller count where no chunk did.    *)
(*                                                                          *)
(* A white point with its primaries, a gamma and a profile are named by the *)
(* chunk they were in.                                                      *)
(***************************************************************************)
EXTENDS Integers, Sequences

CONSTANTS MaxChunks      \* bound on the chunks of a file

VARIABLES gray, hint,    \* the kind of picture; the hint given with it
          seen,          \* history: the chunks so far
          color,         \* color_encoding
          icc,           \* the number of the chunk it is from, or Absent
          have_color, have_srgb,
          outcome        \* "reading", "broken", "refused" or "read"

vars == <<gray, hint, seen, color, icc, have_color, have_srgb, outcome>>

Absent == 0
FromHint == -1
(* D65, the primaries and the curve of sRGB, the perceptual intent.         *)
Default == 0
Hints == {"none", "gray", "rgb", "icc_pathname", "unparsable"}

(* good: of the right size, and an intent there is; for iCCP, that libpng   *)
(* has a profile afterwards.  A chunk libpng fails on is "damaged".         *)
Chunk ==
  [id : {"iCCP", "sRGB", "gAMA", "cHRM"}, good : BOOLEAN]
    \cup {[id |-> "IDAT", good |-> TRUE], [id |-> "damaged", good |-> FALSE]}

SpaceOf(is_gray) == IF is_gray THEN "gray" ELSE "rgb"
(* The primaries stand for the white point as well: both come from cHRM.    *)
Encoding(space, primaries, tf, intent) ==
  [space |-> space, primaries |-> primaries, tf |-> tf, intent |-> intent]
SRGB(space) == Encoding(space, Default, Default, Default)

(* IHDR: the defaults in case only gAMA is given.                           *)
Init ==
  /\ gray \in BOOLEAN /\ hint \in Hints
  /\ seen = <<>>
  /\ color = SRGB("rgb")
  /\ icc = Absent
  /\ have_color = FALSE /\ have_srgb = FALSE
  /\ outcome = "reading"

-----------------------------------------------------------------------------
Comes(id, good) ==
  /\ outcome = "reading" /\ Len(seen) < MaxChunks
  /\ seen' = Append(seen, [id |-> id, good |-> good])
  /\ UNCHANGED <<gray, hint>>
This == Len(seen) + 1   \* the number of the chunk that comes

(* The profile is read from libpng, which keeps the first it accepts.       *)
ProfileChunk(good) ==
  /\ Comes("iCCP", good)
  /\ icc' = IF good /\ icc = Absent THEN This ELSE icc
  /\ have_color' = (have_color \/ good)
  /\ UNCHANGED <<color, have_srgb, outcome>>

(* DecodeSRGB, DecodeGAMA and DecodeCHRM fail on a payload of another size. *)
Settles(good, encoding) ==
  IF good
  THEN color' = encoding /\ have_color' = TRUE /\ UNCHANGED outcome
  ELSE outcome' = "refused" /\ UNCHANGED <<color, have_color>>

IntentChunk(good) ==
  /\ Comes("sRGB", good)
  /\ Settles(good, [color EXCEPT !.intent = This])
  /\ have_srgb' = (have_srgb \/ good)
  /\ UNCHANGED icc

GammaChunk(good) ==
  /\ Comes("gAMA", good)
  /\ Settles(good, [color EXCEPT !.tf = This])
  /\ UNCHANGED <<icc, have_srgb>>

PrimariesChunk(good) ==
  /\ Comes("cHRM", good)
  /\ Settles(good, [color EXCEPT !.primaries = This])
  /\ UNCHANGED <<icc, have_srgb>>

(* The image data tells whether the picture is gray.                        *)
ImageData ==
  /\ Comes("IDAT", TRUE)
  /\ color' = [color EXCEPT !.space = SpaceOf(gray)]
  /\ UNCHANGED <<icc, have_color, have_srgb, outcome>>

-----------------------------------------------------------------------------
WithSRGB(encoding) == IF have_srgb THEN SRGB(encoding.space) ELSE encoding

HasImageData == \E i \in DOMAIN seen : seen[i].id = "IDAT"

(* num_color_channels is 3 until the image data tells.                      *)
GrayKnown == gray /\ HasImageData

(* ApplyColorHints: without any, the picture is sRGB.                       *)
Hinted(encoding) ==
  CASE hint \in {"gray", "rgb"} -> Encoding(hint, FromHint, FromHint, FromHint)
    [] hint = "none" -> [encoding EXCEPT !.space = SpaceOf(GrayKnown),
                                         !.primaries = Default, !.tf = Default]
    [] OTHER -> encoding
HintRefused ==
  hint = "unparsable" \/ (hint \in {"gray", "rgb"} /\ hint # SpaceOf(GrayKnown))

(* After IEND, after the end of a file without one, or after a chunk that   *)
(* broke the loop.  A file without pictures is refused at the very end.     *)
Finish(complete) ==
  /\ color' = IF have_color THEN WithSRGB(color) ELSE Hinted(WithSRGB(color))
  /\ icc' = IF ~have_color /\ hint = "icc_pathname" THEN FromHint ELSE icc
  /\ outcome' = IF ~complete \/ ~HasImageData \/ (~have_color /\ HintRefused)
                THEN "refused" ELSE "read"
  /\ UNCHANGED <<gray, hint, seen, have_color, have_srgb>>

DamagedChunk ==
  /\ Comes("damaged", FALSE)
  /\ outcome' = "broken"
  /\ UNCHANGED <<color, icc, have_color, have_srgb>>

Next ==
  \/ \E good \in BOOLEAN :
       ProfileChunk(good) \/ IntentChunk(good) \/ GammaChunk(good) \/ PrimariesChunk(good)
  \/ ImageData
  \/ DamagedChunk
  \/ outcome = "reading" /\ \E complete \in BOOLEAN : Finish(complete)
  \/ outcome = "broken" /\ Finish(FALSE)

Spec == Init /\ [][Next]_vars

-----------------------------------------------------------------------------
TypeOK ==
  /\ \A i \in DOMAIN seen : seen[i] \in Chunk
  /\ icc \in {FromHint} \cup 0 .. MaxChunks
  /\ outcome \in {"reading", "broken", "refused", "read"}

(* The last chunk of a kind, or what holds without any.                     *)
LastOf(id, default) ==
  LET at == {i \in DOMAIN seen : seen[i].id = id /\ seen[i].good}
  IN  IF at = {} THEN default ELSE CHOOSE i \in at : \A j \in at : j <= i
Given(id) == \E i \in DOMAIN seen : seen[i].id = id /\ seen[i].good
IsFirstProfile(number) ==
  LET at == {i \in DOMAIN seen : seen[i].id = "iCCP" /\ seen[i].good}
  IN  IF at = {} THEN number = Absent ELSE number \in at /\ \A i \in at : number <= i

(* The colors of a picture do not depend on the order of its chunks, and a  *)
(* hint never overrules one: the first profile stays whatever is said, sRGB *)
(* outweighs gAMA and cHRM before and after it, these two complete each     *)
(* other and the defaults; without any of them the hint decides or else the *)
(* picture is sRGB, gray if the picture is.  A file with a wrong chunk is   *)
(* never read (apng.cc:71-107, 476-480, 582-584, 616-648, 668-676).         *)
ColorExact ==
  outcome = "read" =>
    /\ \A i \in DOMAIN seen : seen[i].good \/ seen[i].id = "iCCP"
    /\ LET space == SpaceOf(gray)
           said == \E id \in {"iCCP", "sRGB", "gAMA", "cHRM"} : Given(id)
           fromChunks ==
             IF Given("sRGB") THEN SRGB(space)
             ELSE Encoding(space, LastOf("cHRM", Default), LastOf("gAMA", Default), Default)
       IN  IF said THEN color = fromChunks /\ IsFirstProfile(icc)
           ELSE CASE hint \in {"gray", "rgb"} ->
                       color = Encoding(space, FromHint, FromHint, FromHint) /\ icc = Absent
                  [] hint = "icc_pathname" -> icc = FromHint
                  [] OTHER -> hint = "none" /\ color = fromChunks /\ icc = Absent
=============================================================================
