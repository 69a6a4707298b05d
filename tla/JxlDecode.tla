-------------------------------- MODULE JxlDecode --------------------------------
(***************************************************************************)
(* DecodeImageJXL (src/lib/extras/dec/jxl.cc): an event loop around the     *)
(* decoder of libjxl, which is outside this tree.  The loop answers each    *)
(* event: it makes frames and gives the decoder memory for them, collects   *)
(* metadata boxes and a reconstructed JPEG in chunks, and stops frames      *)
(* early when a coarse picture will do.                                     *)
(*                                                                          *)
(* A file is the sequence of its parts, in the order the decoder meets      *)
(* them; of a truncated file only the first `cut` are there:                *)
(*   box      the header of a box of the container, with its type           *)
(*   byte     one byte of the content of that box                           *)
(*   info     size and channels; color the color encoding                   *)
(*   preview  header of a preview; previewed its pixels                     *)
(*   frame    the header of a frame; pixels the end of its table            *)
(*   pass     a step of detail; full the rest of the frame                  *)
(*   jbrd     what is needed to rebuild a JPEG; piece some bytes of it      *)
(* A byte is named by its place in the file, a pixel by its frame and the   *)
(* level of detail it was drawn at.                                         *)
(***************************************************************************)
EXTENDS Integers, FiniteSets, SequencesExt

CONSTANTS Files,      \* see FileShape
          Requests,   \* JXLDecompressParams, see RequestShape
          BoxChunk,   \* kBoxOutputChunkSize
          JpegChunk   \* first size of jpeg_data_chunk

VARIABLES file, cut, request,
          pc,        \* "setup", "loop", "ok", "failed", "error"
          decoder,   \* the JxlDecoder: pos in the file, and the memory it was given
          ppf,       \* the PackedPixelFile
          boxes,     \* the BoxProcessor
          loop,      \* progression_index, codestream_done
          jpeg       \* out: jpeg_bytes, room: size of jpeg_data_chunk, can_reconstruct

vars == <<file, cut, request, pc, decoder, ppf, boxes, loop, jpeg>>

All == 9        \* the level of a finished frame
NoLimit == 99   \* max_passes: numeric_limits<uint32_t>::max()
BoxTypes == {"Exif", "xml ", "jumb", "iptc"}

PartKinds == {"box", "byte", "info", "color", "preview", "previewed", "frame",
              "pixels", "pass", "full", "jbrd", "piece"}

(* extra are the types of the extra channels, alpha among them; original    *)
(* that colors are kept in the space they came in, and unbounded that the   *)
(* last box has no size.  color_space is the number of color channels of    *)
(* the space asked for, 0 if none is.                                       *)
FileShape(f) ==
  /\ f.extra \in Seq({"alpha", "depth"}) /\ f.unbounded \in BOOLEAN
  /\ f.original \in BOOLEAN
  /\ f.color \in {1, 3} /\ f.bits \in 1 .. 32
  /\ \A i \in DOMAIN f.parts : f.parts[i].k \in PartKinds
RequestShape(r) ==
  /\ r.jpeg \in BOOLEAN /\ r.partial \in BOOLEAN /\ r.callback \in BOOLEAN
  /\ r.max_passes \in Nat /\ r.max_downsampling \in {1, 2, 4, 8}
  /\ r.accepted \in Seq([channels : 1 .. 4, bits : {8, 16, 32}])
  /\ r.color_space \in {0, 1, 3}
  /\ r.jpeg => r.max_passes = NoLimit /\ r.max_downsampling = 1

Next1 == file.parts[decoder.pos + 1]  \* the part that comes next
AtPart(k) == decoder.pos < cut /\ Next1.k = k

-----------------------------------------------------------------------------
(* SelectFormat (enc/encode.cc).  The candidates with the right channels    *)
(* are taken in order; alpha is dropped if there are none.                  *)
Better(original, current, bits) ==
  \/ original <= bits /\ bits < current
  \/ current < bits /\ current < original

BestOf(accepted, original, channels) ==
  FoldLeft(LAMBDA best, c :
             IF c.channels = channels /\ Better(original, best.bits, c.bits)
             THEN c ELSE best,
           [channels |-> 0, bits |-> 0], accepted)

SelectFormat(accepted, info) ==
  LET with == BestOf(accepted, info.bits, info.color + 1)
  IN  IF info.alpha /\ with.bits # 0 THEN with
      ELSE BestOf(accepted, info.bits, info.color)

AcceptedFormats ==
  IF request.accepted # <<>> THEN request.accepted
  ELSE [n \in 1 .. 4 |-> [channels |-> n, bits |-> 32]]

-----------------------------------------------------------------------------
(* The call before the loop.                                                *)
NoBoxes == [data |-> "", next_out |-> 0, avail_out |-> 0, total_size |-> 0]

MaxPassesDefined == request.max_passes < NoLimit
Subscribed ==
  {"info", "full"}
    \cup (IF MaxPassesDefined \/ request.max_downsampling > 1 THEN {"pass"} ELSE {})
    \cup (IF request.jpeg THEN {"jbrd"} ELSE {"color", "frame", "preview", "box"})

Init ==
  /\ file \in Files /\ request \in Requests
  /\ cut \in 0 .. Len(file.parts)
  /\ pc = "setup"
  /\ decoder = [pos |-> 0, boxAt |-> 0, boxLeft |-> -1, frame |-> 0, level |-> -1,
                target |-> 0, extras |-> {}, skipping |-> FALSE, preview |-> FALSE,
                color |-> file.color]
  /\ ppf = [exif |-> <<>>, xmp |-> <<>>, jumbf |-> <<>>, iptc |-> <<>>,
            color |-> 0, alpha |-> FALSE, format |-> [channels |-> 0, bits |-> 0],
            extra |-> <<>>, preview |-> -1, frames |-> <<>>]
  /\ boxes = NoBoxes
  /\ loop = [progression |-> 0, done |-> FALSE]
  /\ jpeg = [out |-> <<>>, chunk |-> <<>>, room |-> 0, can_reconstruct |-> FALSE]

Setup ==
  /\ pc = "setup" /\ pc' = "loop"
  /\ jpeg' = [jpeg EXCEPT !.room = IF request.jpeg THEN JpegChunk ELSE 0]
  /\ UNCHANGED <<file, cut, request, decoder, ppf, boxes, loop>>

(* JXL_DEC_ERROR, or a call of libjxl that fails.                           *)
DecoderError ==
  /\ pc = "loop" /\ pc' = "error"
  /\ UNCHANGED <<file, cut, request, decoder, ppf, boxes, loop, jpeg>>

Fail ==
  /\ pc' = "failed"
  /\ UNCHANGED <<file, cut, request, decoder, ppf, boxes, loop, jpeg>>

-----------------------------------------------------------------------------
(* BoxProcessor.  decoder.boxLeft is what remains of the memory the decoder *)
(* was given, -1 if it has none; boxAt is where it writes next.             *)
MetadataOf(type) ==
  CASE type = "Exif" -> "exif" [] type = "xml " -> "xmp"
    [] type = "jumb" -> "jumbf" [] type = "iptc" -> "iptc"

Remaining == IF decoder.boxLeft < 0 THEN 0 ELSE decoder.boxLeft

Flushed ==
  LET written == boxes.avail_out - Remaining
  IN  [boxes EXCEPT !.next_out = @ + written, !.avail_out = @ - written,
                    !.total_size = @ + written]

(* resize: new bytes are zero.                                              *)
Resized(s, n) == [i \in 1 .. n |-> IF i \in DOMAIN s THEN s[i] ELSE 0]

(* AddMoreOutput after the vector was chosen and the old memory released.   *)
MoreRoom(b, vector) == [b EXCEPT !.next_out = b.total_size,
                                 !.avail_out = Len(vector) - b.total_size]

AddMoreOutput(b) ==
  LET vector == Resized(ppf[b.data], Len(ppf[b.data]) + BoxChunk)
      with == MoreRoom(b, vector)
  IN  /\ ppf' = [ppf EXCEPT ![b.data] = vector]
      /\ boxes' = with
      /\ decoder' = [decoder EXCEPT !.boxAt = with.next_out, !.boxLeft = with.avail_out]

FinalizeOutput(p) ==
  IF boxes.data = "" THEN p
  ELSE [p EXCEPT ![boxes.data] = Resized(@, Flushed.total_size)]

(* What the decoder wrote into jpeg_data_chunk is appended.                 *)
Appended == jpeg.out \o jpeg.chunk

(* break, with p in the PackedPixelFile and d left of the decoder, and what *)
(* comes after the loop.                                                    *)
Break(p, d) ==
  /\ ppf' = FinalizeOutput(p) /\ boxes' = NoBoxes
  /\ pc' = IF request.jpeg /\ ~jpeg.can_reconstruct THEN "failed" ELSE "ok"
  /\ jpeg' = IF jpeg.can_reconstruct THEN [jpeg EXCEPT !.out = Appended] ELSE jpeg
  /\ decoder' = d
  /\ UNCHANGED <<file, cut, request, loop>>

-----------------------------------------------------------------------------
(* libjxl between two events: parts nobody subscribed to go by, and memory  *)
(* it was given is filled.                                                  *)
RebuildsJpeg == request.jpeg /\ jpeg.can_reconstruct

Silent(k) ==
  CASE k \in {"frame", "pass", "full", "pixels"} /\ decoder.skipping -> k # "frame"
    [] k = "byte" -> decoder.boxLeft < 0
    [] k = "piece" -> ~RebuildsJpeg
    [] k = "pixels" -> RebuildsJpeg
    [] k = "previewed" -> "preview" \notin Subscribed
    [] OTHER -> k \notin Subscribed

Passed == [decoder EXCEPT
             !.pos = @ + 1,
             !.frame = IF Next1.k = "frame" THEN @ + 1 ELSE @,
             !.level = CASE Next1.k = "frame" -> -1 [] Next1.k = "pass" -> Next1.level
                         [] Next1.k = "full" -> All [] OTHER -> @]

DecoderSkips ==
  /\ pc = "loop" /\ decoder.pos < cut /\ Silent(Next1.k)
  /\ decoder' = Passed
  /\ UNCHANGED <<file, cut, request, pc, ppf, boxes, loop, jpeg>>

DecoderWritesBox ==
  /\ pc = "loop" /\ AtPart("byte") /\ decoder.boxLeft > 0
  /\ ppf' = [ppf EXCEPT ![boxes.data][decoder.boxAt + 1] = decoder.pos + 1]
  /\ decoder' = [Passed EXCEPT !.boxAt = @ + 1, !.boxLeft = @ - 1]
  /\ UNCHANGED <<file, cut, request, pc, boxes, loop, jpeg>>

(* A piece of a JPEG is written whole or not at all.                        *)
PieceFits == Len(jpeg.chunk) + Next1.length <= jpeg.room
DecoderWritesJpeg ==
  /\ pc = "loop" /\ AtPart("piece") /\ RebuildsJpeg /\ PieceFits
  /\ jpeg' = [jpeg EXCEPT !.chunk = @ \o [i \in 1 .. Next1.length |-> <<decoder.pos, i>>]]
  /\ decoder' = Passed
  /\ UNCHANGED <<file, cut, request, pc, ppf, boxes, loop>>

(* Pixels go to the frame whose memory was set; through the callback, to    *)
(* the last frame.  Extra channels have memory of their own.                *)
Drawn(level) ==
  LET f == IF request.callback THEN Len(ppf.frames) ELSE decoder.target
      pixel == <<decoder.frame, level>>
  IN  IF decoder.target = 0 THEN ppf
      ELSE [ppf EXCEPT !.frames[f].color = pixel,
                       !.frames[decoder.target].extra =
                          [i \in DOMAIN @ |-> IF i \in decoder.extras
                                              THEN pixel ELSE @[i]]]

(* JxlDecoderFlushImage.                                                    *)
CanFlush == decoder.target # 0 /\ decoder.level \in 0 .. All - 1 /\ ~decoder.skipping

-----------------------------------------------------------------------------
(* The events.                                                              *)
Event(k) == pc = "loop" /\ AtPart(k) /\ ~Silent(k)

OnBasicInfo ==
  /\ Event("info")
  /\ LET info == [bits |-> file.bits,
                  color |-> IF request.color_space # 0 THEN request.color_space
                            ELSE file.color,
                  alpha |-> Contains(file.extra, "alpha")]
         format == SelectFormat(AcceptedFormats, info)
         have_alpha == format.channels \in {2, 4}
         first == SelectInSeq(file.extra, LAMBDA t : t = "alpha")
     IN  IF format.bits = 0 THEN Fail
         ELSE /\ ppf' = [ppf EXCEPT
                           !.color = info.color, !.format = format,
                           !.alpha = have_alpha /\ info.alpha,
                           !.extra = SelectSeq([i \in DOMAIN file.extra |-> i],
                                               LAMBDA i : ~(have_alpha /\ i = first))]
              /\ decoder' = Passed
              /\ UNCHANGED <<file, cut, request, pc, boxes, loop, jpeg>>

(* JxlDecoderSetPreferredColorProfile, unless the file keeps its own.  The  *)
(* profiles are copied as they are.                                         *)
OnColorEncoding ==
  /\ Event("color")
  /\ decoder' = [Passed EXCEPT !.color =
                   IF request.color_space # 0 /\ ~file.original
                   THEN request.color_space ELSE @]
  /\ UNCHANGED <<file, cut, request, pc, ppf, boxes, loop, jpeg>>

(* NEED_PREVIEW_OUT_BUFFER, then PREVIEW_IMAGE.                             *)
OnNeedPreviewOutBuffer ==
  /\ Event("preview")
  /\ ppf' = [ppf EXCEPT !.preview = 0]
  /\ decoder' = [Passed EXCEPT !.preview = TRUE]
  /\ UNCHANGED <<file, cut, request, pc, boxes, loop, jpeg>>

OnPreviewImage ==
  /\ Event("previewed")
  /\ ppf' = IF decoder.preview THEN [ppf EXCEPT !.preview = All] ELSE ppf
  /\ decoder' = [Passed EXCEPT !.preview = FALSE]
  /\ UNCHANGED <<file, cut, request, pc, boxes, loop, jpeg>>

\* The count of steps goes on from one frame to the next.
OnFrame_M ==
  /\ Event("frame")
  /\ ppf' = [ppf EXCEPT !.frames =
               Append(@, [is_last |-> Next1.last, color |-> <<0, -1>>, extra |-> <<>>])]
  /\ decoder' = [Passed EXCEPT !.target = 0, !.extras = {}, !.skipping = FALSE]
  /\ UNCHANGED <<file, cut, request, pc, boxes, loop, jpeg>>

OnFrame ==
  /\ Event("frame")
  /\ ppf' = [ppf EXCEPT !.frames =
               Append(@, [is_last |-> Next1.last, color |-> <<0, -1>>, extra |-> <<>>])]
  /\ loop' = [loop EXCEPT !.progression = 0]
  /\ decoder' = [Passed EXCEPT !.target = 0, !.extras = {}, !.skipping = FALSE]
  /\ UNCHANGED <<file, cut, request, pc, boxes, jpeg>>

OnNeedImageOutBuffer ==
  /\ Event("pixels")
  /\ IF request.jpeg THEN Break(ppf, Passed)
     ELSE IF ppf.color < decoder.color THEN Fail \* JxlDecoderImageOutBufferSize
     ELSE /\ ppf' = [ppf EXCEPT !.frames[Len(ppf.frames)].extra =
                       [i \in DOMAIN ppf.extra |-> <<0, -1>>]]
          /\ decoder' = [Passed EXCEPT !.target = Len(ppf.frames),
                                       !.extras = DOMAIN ppf.extra]
          /\ UNCHANGED <<file, cut, request, pc, boxes, loop, jpeg>>

(* A frame is flushed and skipped once it is good enough.  If it is the     *)
(* last one, so is what follows it.                                         *)
StopsAt(progression, ratio) ==
  \/ MaxPassesDefined /\ progression >= request.max_passes
  \/ ~MaxPassesDefined /\ ratio <= request.max_downsampling

OnFrameProgression ==
  /\ Event("pass")
  /\ IF ~StopsAt(loop.progression, Next1.ratio)
     THEN /\ loop' = [loop EXCEPT !.progression = @ + 1]
          /\ decoder' = Passed
          /\ UNCHANGED <<file, cut, request, pc, ppf, boxes, jpeg>>
     ELSE IF Last(ppf.frames).is_last THEN Break(Drawn(Next1.level), Passed)
     ELSE /\ ppf' = Drawn(Next1.level)
          /\ loop' = [loop EXCEPT !.progression = @ + 1]
          /\ decoder' = [Passed EXCEPT !.skipping = TRUE]
          /\ UNCHANGED <<file, cut, request, pc, boxes, jpeg>>

OnFullImage ==
  /\ Event("full")
  /\ ppf' = IF request.jpeg THEN ppf ELSE Drawn(All)
  /\ loop' = [loop EXCEPT !.done = @ \/ request.jpeg
                                     \/ Last(ppf.frames).is_last]
  /\ decoder' = [Passed EXCEPT !.target = 0]
  /\ UNCHANGED <<file, cut, request, pc, boxes, jpeg>>

OnBox ==
  /\ Event("box")
  /\ LET type == Next1.type
         done == FinalizeOutput(ppf)
     IN  IF type \notin BoxTypes
         THEN /\ ppf' = done /\ boxes' = NoBoxes
              /\ decoder' = [Passed EXCEPT !.boxLeft = -1]
         ELSE LET data == MetadataOf(type)
                  vector == Resized(done[data], Len(done[data]) + BoxChunk)
                  with == MoreRoom([NoBoxes EXCEPT !.data = data], vector)
              IN  /\ ppf' = [done EXCEPT ![data] = vector]
                  /\ boxes' = with
                  /\ decoder' = [Passed EXCEPT !.boxAt = with.next_out,
                                               !.boxLeft = with.avail_out]
  /\ UNCHANGED <<file, cut, request, pc, loop, jpeg>>

OnBoxNeedMoreOutput ==
  /\ pc = "loop" /\ AtPart("byte") /\ decoder.boxLeft = 0
  /\ AddMoreOutput(Flushed)
  /\ UNCHANGED <<file, cut, request, pc, loop, jpeg>>

OnJpegReconstruction ==
  /\ Event("jbrd")
  /\ jpeg' = [jpeg EXCEPT !.can_reconstruct = TRUE]
  /\ decoder' = Passed
  /\ UNCHANGED <<file, cut, request, pc, ppf, boxes, loop>>

OnJpegNeedMoreOutput ==
  /\ pc = "loop" /\ AtPart("piece") /\ RebuildsJpeg /\ ~PieceFits
  /\ jpeg' = [jpeg EXCEPT !.out = Appended, !.chunk = <<>>,
                          !.room = IF jpeg.chunk = <<>> THEN 2 * @ ELSE @]
  /\ UNCHANGED <<file, cut, request, pc, decoder, ppf, boxes, loop>>

(* Nothing more is there.  Without an interest in boxes, the end of the     *)
(* last frame is the end.                                                   *)
AtEnd == pc = "loop" /\ decoder.pos = cut
Complete == cut = Len(file.parts) /\ ~file.unbounded

OnNeedMoreInput ==
  /\ AtEnd /\ ~Complete
  /\ IF loop.done THEN Break(ppf, decoder)
     ELSE IF request.partial /\ CanFlush THEN Break(Drawn(decoder.level), decoder)
     ELSE Fail

OnSuccess == AtEnd /\ Complete /\ Break(ppf, decoder)

Next ==
  \/ Setup \/ DecoderError \/ DecoderSkips \/ DecoderWritesBox \/ DecoderWritesJpeg
  \/ OnBasicInfo \/ OnColorEncoding \/ OnNeedPreviewOutBuffer \/ OnPreviewImage
  \/ OnFrame \/ OnNeedImageOutBuffer \/ OnFrameProgression \/ OnFullImage
  \/ OnBox \/ OnBoxNeedMoreOutput \/ OnJpegReconstruction \/ OnJpegNeedMoreOutput
  \/ OnNeedMoreInput \/ OnSuccess

Spec == Init /\ [][Next]_vars

-----------------------------------------------------------------------------
TypeOK ==
  /\ pc \in {"setup", "loop", "ok", "failed", "error"}
  /\ FileShape(file) /\ RequestShape(request)
  /\ decoder.pos \in 0 .. cut
  /\ decoder.target \in 0 .. Len(ppf.frames)
  /\ boxes.data # "" => decoder.boxAt + decoder.boxLeft = Len(ppf[boxes.data])

(* Every frame shows itself, color and all extra channels alike, at the     *)
(* detail asked for: the first step that is good enough, or else the whole  *)
(* frame, or as much as a truncated file has of its last frame.             *)
Read == SubSeq(file.parts, 1, decoder.pos)
IsFrame(p) == p.k = "frame"
OfFrame(n) ==
  LET there == SubSeq(file.parts, 1, cut)
      heads == {i \in DOMAIN there : there[i].k = "frame"}
      before(i) == Cardinality({j \in heads : j <= i})
  IN  SelectSeq([i \in DOMAIN there |-> [there[i] EXCEPT !.k =
                   IF before(i) = n THEN @ ELSE "other"]],
                LAMBDA p : p.k \in {"pass", "full"})

Enough(i, p) ==
  IF MaxPassesDefined THEN i > request.max_passes
  ELSE p.ratio <= request.max_downsampling

LevelAsked(n) ==
  LET steps == OfFrame(n)
      enough == {i \in DOMAIN steps : steps[i].k = "pass" /\ Enough(i, steps[i])}
  IN  IF enough # {} /\ (MaxPassesDefined \/ request.max_downsampling > 1)
      THEN steps[CHOOSE i \in enough : \A j \in enough : i <= j].level
      ELSE IF steps = <<>> THEN -1
      ELSE IF Last(steps).k = "full" THEN All ELSE Last(steps).level

FramesExact ==
  /\ Len(ppf.frames) = Len(SelectSeq(Read, IsFrame))
  /\ \A n \in DOMAIN ppf.frames :
       /\ LevelAsked(n) >= 0
       /\ ppf.frames[n].color = <<n, LevelAsked(n)>>
       /\ ppf.frames[n].extra = [i \in DOMAIN ppf.extra |-> <<n, LevelAsked(n)>>]
  /\ request.partial \/ Last(ppf.frames).is_last
  /\ (\E i \in DOMAIN Read : Read[i].k = "previewed") => ppf.preview = All

(* A kind of metadata is the last box of that type, with exactly the bytes  *)
(* of it that there are.                                                    *)
BoxesExact ==
  \A type \in BoxTypes :
    LET heads == {i \in DOMAIN Read : Read[i].k = "box" /\ Read[i].type = type}
        last == CHOOSE i \in heads : \A j \in heads : j <= i
        end == CHOOSE e \in last .. Len(Read) :
                 /\ \A i \in last + 1 .. e : Read[i].k = "byte"
                 /\ e = Len(Read) \/ Read[e + 1].k # "byte"
    IN  ppf[MetadataOf(type)] =
          IF heads = {} THEN <<>> ELSE [i \in 1 .. end - last |-> last + i]

(* Each extra channel is delivered once: an alpha channel between the       *)
(* colors if the format has room for it, the others by themselves.  The     *)
(* format is the smallest that holds the samples, or else the largest.      *)
ChannelsExact ==
  LET fits(c) == c.channels = ppf.format.channels
      formats == {AcceptedFormats[i] : i \in DOMAIN AcceptedFormats}
      enough == {c \in formats : fits(c) /\ c.bits >= file.bits}
      alphas == {i \in DOMAIN file.extra : file.extra[i] = "alpha"}
      interleaved == DOMAIN file.extra \ ToSet(ppf.extra)
  IN  /\ ppf.color >= decoder.color
      /\ IF enough # {} THEN \A c \in enough : ppf.format.bits <= c.bits
         ELSE \A c \in {c \in formats : fits(c)} : c.bits <= ppf.format.bits
      /\ IsInjective(ppf.extra)
      /\ IF ppf.format.channels = ppf.color + 1
         THEN alphas # {} /\ interleaved = {CHOOSE i \in alphas : \A j \in alphas : i <= j}
         ELSE /\ interleaved = {} /\ ppf.format.channels = ppf.color
              /\ alphas # {} =>
                   ~\E c \in formats : c.channels = ppf.color + 1
      /\ ppf.alpha <=> interleaved # {}

JpegExact ==
  jpeg.out = FlattenSeq([i \in DOMAIN Read |->
               IF Read[i].k = "piece" THEN [j \in 1 .. Read[i].length |-> <<i - 1, j>>]
               ELSE <<>>])

(* When a file is refused there is a reason for it: it cannot be decoded    *)
(* into any accepted format or the color space, is no JPEG if one is        *)
(* wanted, or ends too early even for a caller who is content with less.    *)
RefusedForCause ==
  \/ AtPart("info")
     /\ \A i \in DOMAIN AcceptedFormats :
          LET colors == IF request.color_space # 0 THEN request.color_space ELSE file.color
              channels == AcceptedFormats[i].channels
          IN  channels # colors /\ ~(channels = colors + 1 /\ Contains(file.extra, "alpha"))
  \/ file.original /\ request.color_space \notin {0, file.color}
  \/ request.jpeg /\ ~Contains([i \in DOMAIN Read |-> Read[i].k], "jbrd")
  \/ /\ decoder.pos = cut /\ cut < Len(file.parts)
     /\ \A i \in DOMAIN Read : Read[i].k = "full" =>
          \E j \in i + 1 .. Len(file.parts) : file.parts[j].k = "full"
     /\ ~request.partial \/ request.jpeg \/ decoder.skipping \/ decoder.level \notin 0 .. All - 1

(* A file is decoded to exactly what it holds and was asked for, however    *)
(* boxes, frames, steps of detail and chunks of memory follow one another,  *)
(* wherever it ends (dec/jxl.cc:166-473).                                   *)
DecodedExactly ==
  /\ pc = "ok" => IF request.jpeg THEN JpegExact
                  ELSE FramesExact /\ BoxesExact /\ ChannelsExact
  /\ pc = "failed" => RefusedForCause
=============================================================================
