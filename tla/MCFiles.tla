-------------------------------- MODULE MCFiles --------------------------------
(***************************************************************************)
(* The parts that read and write picture files, each for itself: a          *)
(* behaviour picks one of them and leaves the others in an idle state.      *)
(***************************************************************************)
EXTENDS PngAndGif, TLC

VARIABLES markers, jpegStatus, icc,
          loading, loadPc, at, packed, io,
          job, stage, choice, ppf, bytes, loaded,
          blob, blobPhase, text, metadata,
          jxlFile, jxlCut, jxlRequest, jxlPc, decoder, jxlPpf, boxes, loop, jpeg,
          given, count, anim_chunks, chunks, pngPc,
          encoded,
          bundlePicture, infos, preview, bundles, bundleSize, scored, bundleOps, bundleStatus

iccVars == <<markers, jpegStatus, icc, encoded>>
writerVars == <<given, count, anim_chunks, chunks, pngPc>>
bundleVars == <<bundlePicture, infos, preview, bundles, bundleSize, scored, bundleOps, bundleStatus>>
drawnVars == <<layerVars, apngVars, gifVars, chunkVars, iccVars, writerVars>>
loadVars == <<loading, loadPc, at, packed, io, colorVars, bundleVars>>
netpbmVars == <<job, stage, choice, ppf, bytes, loaded>>
blobVars == <<blob, blobPhase, text, metadata>>
jxlVars == <<jxlFile, jxlCut, jxlRequest, jxlPc, decoder, jxlPpf, boxes, loop, jpeg>>

J == INSTANCE JpegIcc WITH
       MaxMarkers <- 3, MaxNumber <- 3, MaxLength <- 2,
       ProfileSizes <- (1 .. 9) \cup {13}, status <- jpegStatus

L == INSTANCE Loading WITH file <- loading, pc <- loadPc, ppf <- packed
M == INSTANCE PngMetadata WITH blob <- blob, phase <- blobPhase

(* Pictures with alpha, premultiplied or not, animated, with a preview; a   *)
(* GIF with planes of alpha; two more channels after alpha or without it.   *)
Channel(type) == [type |-> type, associated |-> FALSE]
PackedFrame(width, duration, planes) ==
  [width |-> width, duration |-> duration, planes |-> planes]
PackedPicture ==
  [alpha_bits |-> FALSE, interleaved |-> FALSE, premultiplied |-> FALSE,
   animated |-> FALSE, width |-> 4, announced |-> <<>>, preview |-> <<>>,
   frames |-> <<PackedFrame(4, 0, <<>>)>>]
PackedPreview == <<PackedFrame(1, 0, <<>>)>>
PackedFrames(planes) ==
  <<PackedFrame(4, 0, planes), PackedFrame(2, 1, planes), PackedFrame(4, 1, planes)>>
BundlePictures ==
  {[PackedPicture EXCEPT !.alpha_bits = a, !.interleaved = a, !.premultiplied = a /\ p,
       !.animated = n, !.frames = IF n THEN PackedFrames(<<>>) ELSE @,
       !.preview = IF v THEN PackedPreview ELSE <<>>] :
     a \in BOOLEAN, p \in BOOLEAN, n \in BOOLEAN, v \in BOOLEAN}
  \cup {[PackedPicture EXCEPT !.alpha_bits = TRUE, !.animated = TRUE,
                              !.frames = PackedFrames(<<"alpha">>)]}
  \cup {[PackedPicture EXCEPT !.alpha_bits = a, !.interleaved = a, !.announced = c,
            !.preview = IF v THEN PackedPreview ELSE <<>>,
            !.frames = <<PackedFrame(4, 0, [i \in DOMAIN c |-> c[i].type])>>] :
          a \in BOOLEAN, v \in BOOLEAN,
          c \in {<<Channel("alpha"), Channel("depth")>>, <<Channel("depth"), Channel("black")>>,
                 <<Channel("depth"), Channel("alpha")>>}}
B == INSTANCE Bundles WITH
       Pictures <- BundlePictures, Widths <- {1, 2, 4}, MaxOps <- 4,
       packed <- bundlePicture, frames <- bundles, xsize <- bundleSize,
       ops <- bundleOps, status <- bundleStatus

-----------------------------------------------------------------------------
(* Pictures for the simple formats: given to an encoder, in files by other  *)
(* programs, and saved under any name.                                      *)
Job == [via |-> "encoder", ext |-> "ppm", gray |-> FALSE, alpha |-> FALSE,
        bits |-> 8, depth |-> 8, endianness |-> "big", orientation |-> 1,
        gap |-> "nl"]
EncoderJobs ==
  {[Job EXCEPT !.ext = e, !.gray = g, !.alpha = a, !.bits = b,
               !.endianness = n, !.orientation = o] :
     e \in {"ppm", "pgx"}, g \in BOOLEAN, a \in BOOLEAN,
     b \in {1, 4, 8, 10, 16, 32}, n \in {"big", "little"}, o \in {1, 6}}
Gaps == {"nl", "sp", "crlf", "comment", "indented"}
ForeignJobs ==
  {[Job EXCEPT !.via = "foreign", !.ext = "ppm", !.gray = g, !.alpha = a,
               !.bits = b, !.gap = s] :
     g \in BOOLEAN, a \in BOOLEAN, b \in {8, 16}, s \in Gaps}
  \cup {[Job EXCEPT !.via = "foreign", !.ext = "pgx", !.gray = TRUE,
                    !.bits = b, !.gap = s] : b \in {8, 16}, s \in Gaps}
  \cup {[Job EXCEPT !.via = "foreign", !.ext = "pfm", !.gray = g, !.bits = 32,
                    !.gap = s, !.endianness = "little"] :
          g \in BOOLEAN, s \in Gaps}
FileJobs ==
  {[Job EXCEPT !.via = "file", !.ext = e, !.gray = g, !.alpha = a, !.bits = b,
               !.depth = d, !.orientation = o] :
     e \in {"ppm", "pgm", "pam", "pfm", "pnm", "pgx", "png", "jpg", "exr",
            "gif", "other"},
     g \in BOOLEAN, a \in BOOLEAN, b \in {4, 8, 10, 16, 32}, d \in {8, 16, 32},
     o \in {1, 6}}
N == INSTANCE Netpbm WITH
       Jobs <- EncoderJobs \cup ForeignJobs \cup FileJobs, HostLittle <- TRUE

-----------------------------------------------------------------------------
(* Files of JPEG XL: a preview and two frames with three steps of detail;   *)
(* a container with metadata before, between and within frames, some of it  *)
(* twice, the last box without a size; a JPEG to be rebuilt.                *)
Part(k) == [k |-> k]
Box(type) == [k |-> "box", type |-> type]
BoxBytes(n) == [k \in 1 .. n |-> Part("byte")]
JxlFrame(last) == <<[k |-> "frame", last |-> last], Part("pixels")>>
Pass(level, ratio) == <<[k |-> "pass", level |-> level, ratio |-> ratio]>>
Full == <<Part("full")>>
Passes(last) == JxlFrame(last) \o Pass(0, 8) \o Pass(1, 4) \o Pass(2, 2) \o Full
JxlHeader == <<Part("info"), Part("color")>>
Piece(n) == <<[k |-> "piece", length |-> n]>>
JxlFileOf(extra, unbounded, channelsOfColor, parts) ==
  [original |-> channelsOfColor = 1, extra |-> extra, unbounded |-> unbounded,
   color |-> channelsOfColor, bits |-> 12, parts |-> parts]
JxlFiles ==
  {JxlFileOf(<<"depth", "alpha", "alpha">>, FALSE, 3,
     JxlHeader \o <<Part("preview"), Part("previewed")>> \o Passes(FALSE) \o Passes(TRUE)),
   JxlFileOf(<<>>, TRUE, 1,
     <<Box("Exif")>> \o BoxBytes(5) \o <<Box("jxlp")>> \o JxlHeader \o Passes(FALSE)
       \o <<Box("xml ")>> \o BoxBytes(2) \o <<Box("jxlp")>> \o JxlFrame(TRUE)
       \o Pass(0, 8) \o <<Box("Exif")>> \o BoxBytes(3) \o <<Box("jxlp")>> \o Full
       \o <<Box("jumb")>> \o BoxBytes(2)),
   JxlFileOf(<<>>, FALSE, 3,
     <<Box("jbrd"), Part("jbrd"), Box("jxlc")>> \o JxlHeader \o JxlFrame(TRUE)
       \o Piece(1) \o Piece(3) \o Piece(2) \o Full \o <<Box("Exif")>> \o BoxBytes(1))}

(* All limits on detail, buffers and callbacks, formats that leave a choice *)
(* of bits or none; JPEGs; requests for another color space.                *)
Accepted(n, b) == [channels |-> n, bits |-> b]
JxlParams == [jpeg |-> FALSE, partial |-> TRUE, callback |-> TRUE, max_passes |-> 99,
               max_downsampling |-> 1, accepted |-> <<>>, color_space |-> 0]
JxlRequests ==
  {[JxlParams EXCEPT !.partial = p, !.callback = c, !.max_passes = l[1],
                      !.max_downsampling = l[2], !.accepted = a] :
     p \in BOOLEAN, c \in BOOLEAN, l \in {<<99, 1>>, <<99, 4>>, <<1, 1>>, <<0, 1>>},
     a \in {<<>>, <<Accepted(1, 8), Accepted(3, 8), Accepted(1, 16), Accepted(3, 32),
                    Accepted(3, 16)>>}}
  \cup {[JxlParams EXCEPT !.jpeg = TRUE, !.callback = FALSE, !.partial = p] :
          p \in BOOLEAN}
  \cup {[JxlParams EXCEPT !.accepted = a, !.color_space = cs] :
          a \in {<<>>, <<Accepted(1, 8)>>, <<Accepted(4, 8)>>}, cs \in {0, 1, 3}}
D == INSTANCE JxlDecode WITH
       Files <- JxlFiles, Requests <- JxlRequests, BoxChunk <- 2, JpegChunk <- 1,
       file <- jxlFile, cut <- jxlCut, request <- jxlRequest, pc <- jxlPc,
       ppf <- jxlPpf

(* Pictures for PNG: samples at every depth, colors that have numbers and   *)
(* some that have none, and animations with long and short frames, one of   *)
(* them smaller than the picture.                                           *)
Frame(samples, duration, cropped) ==
  [samples |-> samples, duration |-> duration, cropped |-> cropped]
Srgb == [gray |-> FALSE, primaries |-> 1, white_point |-> 1, transfer_function |-> 13]
Still(type, b, v) ==
  [animation |-> FALSE, icc |-> TRUE, type |-> type, bits |-> b,
   tps_numerator |-> 1000, tps_denominator |-> 1, color |-> Srgb,
   frames |-> <<Frame(<<v>>, 0, FALSE)>>]
Colors ==
  [gray : BOOLEAN, primaries : {1, 2, 9, 11}, white_point : {1, 2, 10, 11},
   transfer_function : {1, 2, 8, 13, 16, 17, 18, 65535}]
FrameLists ==
  {<<Frame(<<3, 5>>, 70, FALSE), Frame(<<9>>, 2, FALSE), Frame(<<4, 4, 1>>, 0, FALSE)>>,
   <<Frame(<<7, 6>>, 3, FALSE)>>,
   <<Frame(<<3>>, 1, FALSE), Frame(<<8>>, 1, TRUE)>>}
PngPictures ==
  {Still("uint8", b, v) : b \in {1, 5, 8, 9}, v \in 0 .. 31}
  \cup {Still("uint16", b, v) : b \in {10, 16}, v \in 0 .. 1023}
  \cup {Still("float", 32, v) : v \in 0 .. 1000}
  \cup {[Still("uint8", 8, 1) EXCEPT !.color = c] : c \in Colors}
  \cup {[Still(type, 8, 1) EXCEPT !.animation = a, !.tps_numerator = n, !.icc = FALSE,
                                  !.tps_denominator = d, !.frames = f] :
          type \in {"uint8", "uint16", "float16"}, a \in BOOLEAN, n \in {1000, 24000},
          d \in {1, 1001}, f \in FrameLists}
W == INSTANCE ApngWriter WITH Pictures <- PngPictures, FloatOne <- 1000, status <- pngPc

-----------------------------------------------------------------------------
IdleWriter ==
  given = 0 /\ count = 0 /\ anim_chunks = 0 /\ chunks = 0 /\ pngPc = 0
IdleDrawn == A!Init /\ G!Init /\ C!Init /\ J!Init /\ animated /\ IdleWriter
IdleColor ==
  /\ pngGray = 0 /\ pngHint = 0 /\ pngSeen = 0 /\ pngColor = 0 /\ pngIcc = 0
  /\ have_color = 0 /\ have_srgb = 0 /\ pngOutcome = 0
IdleBundles ==
  /\ bundlePicture = 0 /\ infos = 0 /\ preview = 0 /\ bundles = 0 /\ bundleSize = 0
  /\ scored = 0 /\ bundleOps = 0 /\ bundleStatus = 0
IdleDecode == loading = 0 /\ loadPc = 0 /\ at = 0 /\ packed = 0 /\ io = 0
IdleLoad == IdleDecode /\ IdleColor /\ IdleBundles
IdleBlob == blob = 0 /\ blobPhase = 0 /\ text = 0 /\ metadata = 0
IdleJxl ==
  /\ jxlFile = 0 /\ jxlCut = 0 /\ jxlRequest = 0 /\ jxlPc = 0 /\ decoder = 0
  /\ jxlPpf = 0 /\ boxes = 0 /\ loop = 0 /\ jpeg = 0
IdleNetpbm ==
  job = 0 /\ stage = 0 /\ choice = 0 /\ ppf = 0 /\ bytes = 0 /\ loaded = 0
IdlePng ==
  /\ A!Init /\ G!Init /\ C!Init /\ J!Init /\ animated
  /\ IdleLoad /\ IdleBlob /\ IdleNetpbm /\ IdleJxl

Init ==
  \/ /\ which \in {"apng", "gif", "chunks", "icc"}
     /\ A!Init /\ G!Init /\ C!Init /\ J!Init
     /\ which # "gif" => animated
     /\ IdleLoad /\ IdleBlob /\ IdleNetpbm /\ IdleJxl /\ IdleWriter
  \/ which = "png" /\ W!Init /\ IdlePng
  \/ /\ IdleDrawn
     /\ \/ /\ \/ which = "load" /\ L!Init /\ IdleColor /\ IdleBundles
              \/ which = "color" /\ P!Init /\ IdleDecode /\ IdleBundles
              \/ which = "bundles" /\ B!Init /\ IdleDecode /\ IdleColor
           /\ IdleBlob /\ IdleNetpbm /\ IdleJxl
        \/ /\ which = "blob" /\ M!Init
           /\ IdleLoad /\ IdleNetpbm /\ IdleJxl
        \/ /\ which = "netpbm" /\ N!Init
           /\ IdleLoad /\ IdleBlob /\ IdleJxl
        \/ /\ which = "jxl" /\ D!Init
           /\ IdleLoad /\ IdleBlob /\ IdleNetpbm

NextDrawn ==
  \/ which = "apng" /\ A!Next /\ UNCHANGED <<gifVars, chunkVars, iccVars, writerVars>>
  \/ which = "gif" /\ G!Next /\ UNCHANGED <<apngVars, chunkVars, iccVars, writerVars>>
  \/ /\ which = "chunks" /\ C!Next
     /\ UNCHANGED <<layerVars, apngVars, gifVars, iccVars, writerVars>>
  \/ /\ which = "icc" /\ J!Next
     /\ UNCHANGED <<layerVars, apngVars, gifVars, chunkVars, writerVars>>
  \/ /\ which = "png" /\ W!Next
     /\ UNCHANGED <<layerVars, apngVars, gifVars, chunkVars, iccVars>>

Next ==
  /\ which' = which
  /\ \/ NextDrawn /\ UNCHANGED <<loadVars, blobVars, netpbmVars, jxlVars>>
     \/ /\ \/ which = "load" /\ L!Next /\ UNCHANGED <<colorVars, bundleVars>>
           \/ /\ which = "color" /\ P!Next
              /\ UNCHANGED <<loading, loadPc, at, packed, io, bundleVars>>
           \/ /\ which = "bundles" /\ B!Next
              /\ UNCHANGED <<loading, loadPc, at, packed, io, colorVars>>
        /\ UNCHANGED <<drawnVars, blobVars, netpbmVars, jxlVars>>
     \/ /\ which = "blob" /\ M!Next
        /\ UNCHANGED <<drawnVars, loadVars, netpbmVars, jxlVars>>
     \/ /\ which = "netpbm" /\ N!Next
        /\ UNCHANGED <<drawnVars, loadVars, blobVars, jxlVars>>
     \/ /\ which = "jxl" /\ D!Next
        /\ UNCHANGED <<drawnVars, loadVars, blobVars, netpbmVars>>

Spec ==
  Init /\ [][Next]_<<which, drawnVars, loadVars, blobVars, netpbmVars,
                     jxlVars>>

(* Named here for the configuration; stated and explained in the modules,   *)
(* and joined with the types of the state they are about.                   *)
LoadedIsTheFile ==
  /\ which = "load" => L!TypeOK /\ L!LoadedIsTheFile /\ L!ConverterNeverAborts
  /\ which = "bundles" => B!TypeOK /\ B!BundlesSound
MetadataExact ==
  /\ which = "blob" => M!MetadataExact
  /\ which = "icc" => J!TypeOK /\ J!ProfileExact /\ J!WrittenReadsBack
DecodedExactly == which = "jxl" => D!TypeOK /\ D!DecodedExactly
FilesReadBack ==
  /\ which = "netpbm" => N!TypeOK /\ N!FilesReadBack
  /\ which = "png" => W!TypeOK /\ W!AnimationReadsBack
=============================================================================
