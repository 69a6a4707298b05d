------------------------------- MODULE Netpbm -------------------------------
(***************************************************************************)
(* Saving and reading PGM, PPM, PAM, PFM and PGX files (src/lib/extras):    *)
(* EncodeToFile and Encode choose an encoder and a pixel format,            *)
(* ConvertCodecInOutToPackedPixelFile packs the pixels, the encoder writes  *)
(* a header and the rows, and the decoder parses the header and picks the   *)
(* rows up again.                                                           *)
(*                                                                          *)
(* A header is a sequence of tokens <<kind, value>>: a word, a number, one  *)
(* white-space character, or a comment with its line break.  What follows   *)
(* it are bytes as in Samples.                                              *)
(***************************************************************************)
EXTENDS Samples, SequencesExt

CONSTANTS Jobs,       \* what is to be saved or read, see JobShape
          HostLittle  \* IsLittleEndian

VARIABLES job,
          stage,  \* "choose", "pack", "encode", "read", "loaded", "refused",
                  \* "aborted", or "handed" to an encoder of a library
          choice, \* the encoder and the pixel format
          ppf,    \* the PackedPixelFile
          bytes,  \* header and raster of the file
          loaded  \* the picture read

vars == <<job, stage, choice, ppf, bytes, loaded>>

Wd == 2 \* the size of all pictures
Ht == 2

(* via: an encoder is called with a PackedPixelFile of the given format,    *)
(* EncodeToFile is called with the number of bits `depth`, or a file that   *)
(* another program wrote is read; gap is how it separates header fields.    *)
JobShape ==
  [via : {"encoder", "file", "foreign"},
   ext : {"ppm", "pgm", "pam", "pfm", "pnm", "pgx", "png", "jpg", "exr",
          "gif", "other"},
   gray : BOOLEAN, alpha : BOOLEAN, bits : 1 .. 32, depth : {8, 16, 32},
   endianness : {"big", "little"}, orientation : {1, 6},
   gap : {"nl", "sp", "crlf", "comment", "indented"}]

None == [none |-> TRUE]
Failed == [ok |-> FALSE]

Float(j) == j.bits = 32
Channels(gray, alpha) == (IF gray THEN 1 ELSE 3) + (IF alpha THEN 1 ELSE 0)
Format(channels, data_type, endianness) ==
  [channels |-> channels, data_type |-> data_type, endianness |-> endianness]

(* Rows of interleaved samples with the stride of the format.               *)
PackedPixels(format, alpha, scale) ==
  LET little == IsLittle(format.endianness, HostLittle)
      stride == CalcStride(Wd, format.channels, format.data_type, 0)
      value(y, i) ==
        LET c == i % format.channels
        IN  <<IF alpha /\ c = format.channels - 1 THEN 3 ELSE c, y,
              i \div format.channels, 0>>
      row(y) == FlattenSeq([i \in 1 .. Wd * format.channels |->
                              StoreSample(value(y, i - 1), scale, little)])
      padded(y) == [k \in 1 .. stride |->
                      IF k \in DOMAIN row(y) THEN row(y)[k] ELSE Unset]
  IN  FlattenSeq([y \in 1 .. Ht |-> padded(y - 1)])

-----------------------------------------------------------------------------
(* CodecFromExtension, the adjustments of EncodeToFile, and the choices of  *)
(* Encode.  Encoder::FromExtension knows no .pnm.                           *)
CodecOf(ext) ==
  CASE ext \in {"ppm", "pgm", "pam", "pfm", "pnm"} -> "pnm"
    [] ext \in {"pgx", "png", "jpg", "exr", "gif"} -> ext
    [] ext = "other" -> "unknown"

Depth(j) ==
  LET asked == IF j.ext = "pfm" THEN 32 ELSE j.depth
  IN  IF CodecOf(j.ext) \in {"pnm", "png"} /\ j.ext # "pfm" /\ asked > 16
      THEN 16 ELSE asked

EncodeFormat(j) ==
  LET codec == CodecOf(j.ext)
      data_type ==
        CASE codec = "jpg" -> "uint8"
          [] codec = "exr" -> "float"
          [] codec = "pnm" /\ ~j.alpha /\ ~j.gray /\ Depth(j) > 16 -> "float"
          [] OTHER -> IF Depth(j) <= 8 THEN "uint8" ELSE "uint16"
  IN  Format(Channels(j.gray, j.alpha), data_type,
             IF codec = "pnm" /\ data_type = "float" THEN "native" ELSE "big")

(* ConvertCodecInOutToPackedPixelFile: integers are written with the bits   *)
(* of the metadata, whatever the format; the format has the last word for   *)
(* floats only.  info keeps the bits of the metadata.                       *)
PackScale(j, format) ==
  IF IsFloat(format.data_type)
  THEN Scale(TRUE, BitsPerChannel(format.data_type))
  ELSE Scale(FALSE, j.bits)

Packed(j, format, scale) ==
  [bits |-> j.bits, gray |-> j.gray, alpha |-> j.alpha,
   orientation |-> j.orientation, format |-> format,
   pixels |-> PackedPixels(format, j.alpha, scale)]

PackAborts(scale) == ~scale.float /\ scale.bits > 16
PackRefuses(format, scale) ==
  CalcStride(Wd, format.channels, format.data_type, 0)
    < Wd * format.channels * BytesOf(scale.bits)

(* What a caller of an encoder packs: the smallest type that holds the bits.*)
PackedByCaller(j) ==
  LET data_type == CASE Float(j) -> "float"
                     [] j.bits \in 9 .. 16 -> "uint16"
                     [] j.bits <= 8 -> "uint8"
  IN  Packed(j, Format(Channels(j.gray, j.alpha), data_type, j.endianness),
             Scale(Float(j), j.bits))

-----------------------------------------------------------------------------
Word(s) == <<"word", s>>
Number(n) == <<"number", n>>
White(s) == <<"white", s>>
Comment == <<"comment", "#">>
NL == White("nl")
SP == White("sp")

MaxVal(bits) == (2 ^ bits) - 1

(* VerifyBasicInfo and VerifyPackedImage.                                   *)
Verified(p) ==
  /\ p.orientation = 1
  /\ p.format.channels = Channels(p.gray, p.alpha)
  /\ p.bits <= BitsPerChannel(p.format.data_type)

(* EncodeHeader and EncodeImagePNM: native byte order is declared for PFM,  *)
(* whose rows go from bottom to top; bytes are copied as they are.          *)
PnmRefuses(p) == p.bits > 16 /\ (p.alpha \/ p.bits # 32)

PnmHeader(p) ==
  CASE p.alpha ->
         <<Word("P7"), NL, Word("WIDTH"), SP, Number(Wd), NL,
           Word("HEIGHT"), SP, Number(Ht), NL,
           Word("DEPTH"), SP, Number(p.format.channels), NL,
           Word("MAXVAL"), SP, Number(MaxVal(p.bits)), NL,
           Word("TUPLTYPE"), SP,
           Word(IF p.gray THEN "GRAYSCALE_ALPHA" ELSE "RGB_ALPHA"), NL,
           Word("ENDHDR"), NL>>
    [] ~p.alpha /\ p.bits = 32 ->
         <<Word(IF p.gray THEN "Pf" ELSE "PF"), NL, Number(Wd), SP,
           Number(Ht), NL, Number(IF HostLittle THEN -1 ELSE 1), NL>>
    [] ~p.alpha /\ p.bits # 32 ->
         <<Word(IF p.gray THEN "P5" ELSE "P6"), NL, Number(Wd), SP,
           Number(Ht), NL, Number(MaxVal(p.bits)), NL>>

Stride(p) == Len(p.pixels) \div Ht
RowOf(pixels, stride, y) == SubSeq(pixels, (y * stride) + 1, (y + 1) * stride)
FlippedRows(pixels, stride, flip) ==
  FlattenSeq([y \in 1 .. Ht |-> RowOf(pixels, stride, IF flip THEN Ht - y ELSE y - 1)])

\* The rows of a PFM are not turned around when they are written.
EncodeImagePNM_M(p) == [header |-> PnmHeader(p), raster |-> p.pixels]
EncodeImagePNM(p) ==
  [header |-> PnmHeader(p),
   raster |-> FlippedRows(p.pixels, Stride(p), p.bits = 32)]

(* The PGX encoder: 8 or 16 bits, gray; always big endian, after a swap.    *)
PgxRefuses(p) ==
  \/ p.alpha \/ ~p.gray \/ p.bits \notin {8, 16}
  \/ p.bits # BitsPerChannel(p.format.data_type)
  \/ IsFloat(p.format.data_type)

SwapPairs(pixels) ==
  [i \in DOMAIN pixels |-> pixels[IF i % 2 = 1 THEN i + 1 ELSE i - 1]]

EncodeImagePGX(p) ==
  [header |-> <<Word("PG"), SP, Word("ML"), SP, Word("+"), SP,
                Number(p.bits), SP, Number(Wd), SP, Number(Ht), NL>>,
   raster |-> IF p.format.data_type = "uint16" /\ p.format.endianness # "big"
              THEN SwapPairs(p.pixels) ELSE p.pixels]

-----------------------------------------------------------------------------
(* The parsers.  A position is 0 once something did not match.              *)
At(h, p, kind) == p \in DOMAIN h /\ h[p][1] = kind
AfterAll(h, p, kind) ==
  Min({q \in p .. Len(h) + 1 : ~At(h, q, kind)})

SkipSingleWhitespace(h, p) == IF At(h, p, "white") THEN p + 1 ELSE 0
SkipBlank(h, p) == IF At(h, p, "white") /\ h[p] \in {NL, SP} THEN p + 1 ELSE 0
\* White space, comments, white space: a comment that is indented is not one.
SkipWhitespace(h, p) ==
  IF At(h, p, "white") \/ At(h, p, "comment")
  THEN AfterAll(h, AfterAll(h, AfterAll(h, p, "white"), "comment"), "white")
  ELSE 0
SkipNumber(h, p, signed) ==
  IF At(h, p, "number") /\ (signed \/ h[p][2] >= 0) THEN p + 1 ELSE 0
SkipWord(h, p, word) ==
  IF p \in DOMAIN h /\ h[p] = Word(word) THEN p + 1 ELSE 0

BitsOfMaxVal(max_val) ==
  IF max_val \in 1 .. 65535 /\ \E n \in 1 .. 16 : max_val = MaxVal(n)
  THEN CHOOSE n \in 1 .. 16 : max_val = MaxVal(n)
  ELSE 0

Header(gray, alpha, x, y, bits, float, big, pos) ==
  [ok |-> TRUE, gray |-> gray, alpha |-> alpha, x |-> x, y |-> y,
   bits |-> bits, float |-> float, big |-> big, pos |-> pos]

ParseHeaderPNM(h, gray) ==
  LET x == SkipWhitespace(h, 2)
      y == SkipWhitespace(h, SkipNumber(h, x, FALSE))
      m == SkipWhitespace(h, SkipNumber(h, y, FALSE))
      pos == SkipSingleWhitespace(h, SkipNumber(h, m, FALSE))
  IN  IF pos = 0 \/ BitsOfMaxVal(h[m][2]) = 0 THEN Failed
      ELSE Header(gray, FALSE, h[x][2], h[y][2], BitsOfMaxVal(h[m][2]),
                  FALSE, TRUE, pos)

ParseHeaderPFM(h, gray) ==
  LET x == SkipSingleWhitespace(h, 2)
      y == SkipBlank(h, SkipNumber(h, x, FALSE))
      s == SkipSingleWhitespace(h, SkipNumber(h, y, FALSE))
      pos == SkipSingleWhitespace(h, SkipNumber(h, s, TRUE))
  IN  IF pos = 0 \/ h[s][2] = 0 THEN Failed
      ELSE Header(gray, FALSE, h[x][2], h[y][2], 32, TRUE, h[s][2] > 0, pos)

(* PAM: the loop goes on until ENDHDR is found where a keyword may be; the  *)
(* white space before ENDHDR is skipped after a TUPLTYPE only.              *)
TupleTypes == {"RGB_ALPHA", "RGB", "GRAYSCALE_ALPHA", "GRAYSCALE",
               "BLACKANDWHITE_ALPHA", "BLACKANDWHITE"}
TupleFields(s, type, pos) ==
  [s EXCEPT !.alpha = @ \/ type \in {"RGB_ALPHA", "GRAYSCALE_ALPHA",
                                     "BLACKANDWHITE_ALPHA"},
            !.gray = @ \/ type \notin {"RGB_ALPHA", "RGB"},
            !.max_val = IF type \in {"BLACKANDWHITE_ALPHA", "BLACKANDWHITE"}
                        THEN 1 ELSE @,
            !.pos = pos]
FieldOf(word) == CASE word = Word("WIDTH") -> "x" [] word = Word("HEIGHT") -> "y"
                   [] word = Word("DEPTH") -> "depth"
                   [] word = Word("MAXVAL") -> "max_val"
NumberWords == {Word("WIDTH"), Word("HEIGHT"), Word("DEPTH"), Word("MAXVAL")}

PamStep(h, s) ==
  LET end == SkipSingleWhitespace(h, SkipWord(h, s.pos, "ENDHDR"))
      p == SkipWhitespace(h, s.pos)
      v == SkipWhitespace(h, p + 1)
  IN  CASE s.status # "loop" -> s
        [] s.status = "loop" /\ end # 0 -> [s EXCEPT !.status = "end", !.pos = end]
        [] OTHER ->
             IF p \notin DOMAIN h \/ v \notin DOMAIN h
             THEN [s EXCEPT !.status = "failed"]
             ELSE IF h[p] \in NumberWords /\ SkipNumber(h, v, FALSE) # 0
             THEN [s EXCEPT ![FieldOf(h[p])] = h[v][2], !.pos = v + 1]
             ELSE IF h[p] = Word("TUPLTYPE") /\ SkipWhitespace(h, v + 1) # 0
                       /\ \E t \in TupleTypes : h[v] = Word(t)
             THEN TupleFields(s, h[v][2], SkipWhitespace(h, v + 1))
             ELSE [s EXCEPT !.status = "failed"]

PamHeader(s) ==
  IF \/ s.status # "end" \/ s.depth # Channels(s.gray, s.alpha)
     \/ BitsOfMaxVal(s.max_val) = 0
  THEN Failed
  ELSE Header(s.gray, s.alpha, s.x, s.y, BitsOfMaxVal(s.max_val), FALSE, TRUE,
              s.pos)
ParseHeaderPAM(h) ==
  LET start == [status |-> "loop", pos |-> 2, x |-> 0, y |-> 0, depth |-> 3,
                max_val |-> 255, alpha |-> FALSE, gray |-> FALSE]
  IN  PamHeader(FoldLeft(LAMBDA acc, i : PamStep(h, acc), start, h))

ParseHeaderPGX(h) ==
  LET e == IF SkipBlank(h, 2) # 0 /\ h[2] = SP THEN 3 ELSE 0
      big == SkipWord(h, e, "ML") # 0
      sign == IF At(h, e, "word") /\ h[e][2] \in {"ML", "LM"} /\ At(h, e + 1, "white")
                 /\ h[e + 1] = SP
              THEN e + 2 ELSE 0
      b0 == SkipWord(h, sign, "+")
      b == IF At(h, b0, "white") /\ h[b0] = SP THEN b0 + 1 ELSE b0
      x == SkipSingleWhitespace(h, SkipNumber(h, b, FALSE))
      y == SkipSingleWhitespace(h, SkipNumber(h, x, FALSE))
      l == SkipNumber(h, y, FALSE)
      pos == CASE At(h, l, "white") /\ h[l] = NL -> l + 1
               [] At(h, l, "white") /\ h[l] = White("cr")
                    /\ At(h, l + 1, "white") /\ h[l + 1] = NL -> l + 2
               [] OTHER -> 0
  IN  IF pos = 0 \/ h[b][2] \notin 1 .. 16 THEN Failed
      ELSE Header(TRUE, FALSE, h[x][2], h[y][2], h[b][2], FALSE, big, pos)

ParseHeader(h) ==
  CASE h[1] = Word("P5") -> ParseHeaderPNM(h, TRUE)
    [] h[1] = Word("P6") -> ParseHeaderPNM(h, FALSE)
    [] h[1] = Word("P7") -> ParseHeaderPAM(h)
    [] h[1] = Word("Pf") -> ParseHeaderPFM(h, TRUE)
    [] h[1] = Word("PF") -> ParseHeaderPFM(h, FALSE)
    [] h[1] = Word("PG") -> ParseHeaderPGX(h)
    [] OTHER -> Failed

(* DecodeImagePNM and DecodeImagePGX: what the parser left of the header    *)
(* counts as raster; excess raster is ignored, rows of a PFM are turned     *)
(* around, and the converter reads what is left.                            *)
DataType(d) == CASE d.float -> "float" [] ~d.float /\ d.bits > 8 -> "uint16"
                 [] ~d.float /\ d.bits <= 8 -> "uint8"
Raster(file, d) ==
  [i \in 1 .. Len(file.header) - d.pos + 1 |-> Unset] \o file.raster
PictureIn(raster, stride, d) ==
  [ok |-> TRUE, gray |-> d.gray, alpha |-> d.alpha, bits |-> d.bits,
   planes |-> FromExternal(
                FlippedRows(SubSeq(raster, 1, Ht * stride), stride, d.bits = 32),
                Wd, Ht, IF d.gray THEN 1 ELSE 3, Channels(d.gray, d.alpha),
                Scale(d.float, d.bits), ~d.big, 0, d.alpha)]
DecodedAs(file, d) ==
  LET stride == CalcStride(Wd, Channels(d.gray, d.alpha), DataType(d), 0)
  IN  IF ~d.ok \/ d.x # Wd \/ d.y # Ht \/ Len(Raster(file, d)) < Ht * stride
      THEN Failed ELSE PictureIn(Raster(file, d), stride, d)
Decoded(file) == DecodedAs(file, ParseHeader(file.header))

-----------------------------------------------------------------------------
(* Files by other programs: the header fields in their order, separated in  *)
(* other ways, with the bytes where the format wants them.                  *)
Gap(j) == CASE j.gap = "nl" -> <<NL>> [] j.gap = "sp" -> <<SP>>
            [] j.gap = "crlf" -> <<White("cr"), NL>>
            [] j.gap = "comment" -> <<NL, Comment>>
            [] j.gap = "indented" -> <<NL, Comment, SP, Comment>>

ForeignHeader(j) ==
  LET written == IF j.ext = "pgx" THEN EncodeImagePGX(PackedByCaller(j)).header
                 ELSE PnmHeader(PackedByCaller(j))
      changed(i) == i < Len(written) /\ written[i] = NL
  IN  FlattenSeq([i \in DOMAIN written |->
                    IF changed(i) THEN Gap(j) ELSE <<written[i]>>])
Foreign(j) ==
  [header |-> ForeignHeader(j),
   raster |-> IF j.ext = "pgx" THEN EncodeImagePGX(PackedByCaller(j)).raster
              ELSE EncodeImagePNM(PackedByCaller(j)).raster]

-----------------------------------------------------------------------------
Init ==
  /\ job \in Jobs
  /\ stage = CASE job.via = "file" -> "choose" [] job.via = "encoder" -> "encode"
               [] job.via = "foreign" -> "read"
  /\ choice = None
  /\ ppf = IF job.via = "encoder" THEN PackedByCaller(job) ELSE None
  /\ bytes = IF job.via = "foreign" THEN Foreign(job) ELSE None
  /\ loaded = None

Choose ==
  /\ stage = "choose"
  /\ IF CodecOf(job.ext) \in {"gif", "unknown"}
     THEN stage' = "refused" /\ UNCHANGED choice
     ELSE stage' = "pack" /\ choice' = EncodeFormat(job)
  /\ UNCHANGED <<job, ppf, bytes, loaded>>

Pack ==
  /\ stage = "pack"
  /\ LET scale == PackScale(job, choice)
     IN  \/ PackAborts(scale) /\ stage' = "aborted" /\ UNCHANGED ppf
         \/ /\ ~PackAborts(scale) /\ PackRefuses(choice, scale)
            /\ stage' = "refused"
            /\ UNCHANGED ppf
         \/ /\ ~PackAborts(scale) /\ ~PackRefuses(choice, scale)
            /\ stage' = "encode"
            /\ ppf' = Packed(job, choice, scale)
  /\ UNCHANGED <<job, choice, bytes, loaded>>

EncodePackedPixelFile ==
  /\ stage = "encode"
  /\ LET codec == CodecOf(job.ext)
     IN  \/ ~Verified(ppf) /\ stage' = "refused" /\ UNCHANGED bytes
         \/ /\ Verified(ppf) /\ codec \in {"png", "jpg", "exr"}
            /\ stage' = "handed"
            /\ UNCHANGED bytes
         \/ /\ Verified(ppf) /\ codec = "pnm"
            /\ IF PnmRefuses(ppf) THEN stage' = "refused" /\ UNCHANGED bytes
               ELSE stage' = "read" /\ bytes' = EncodeImagePNM(ppf)
         \/ /\ Verified(ppf) /\ codec = "pgx"
            /\ IF PgxRefuses(ppf) THEN stage' = "refused" /\ UNCHANGED bytes
               ELSE stage' = "read" /\ bytes' = EncodeImagePGX(ppf)
  /\ UNCHANGED <<job, choice, ppf, loaded>>

Read ==
  /\ stage = "read"
  /\ stage' = "loaded"
  /\ loaded' = Decoded(bytes)
  /\ UNCHANGED <<job, choice, ppf, bytes>>

Next == Choose \/ Pack \/ EncodePackedPixelFile \/ Read

-----------------------------------------------------------------------------
TypeOK ==
  /\ job \in Jobs
  /\ stage \in {"choose", "pack", "encode", "read", "loaded", "refused",
                "aborted", "handed"}

Picture(j) ==
  [ok |-> TRUE, gray |-> j.gray, alpha |-> j.alpha, bits |-> j.bits,
   planes |-> [c \in 1 .. (IF j.alpha THEN 4 ELSE 3) |->
                 Plane(IF j.gray /\ c <= 3 THEN 0 ELSE c - 1, Wd, Ht, 0)]]

(* The byte orders and depths the encoders are meant for: PGX takes any     *)
(* order, the others big endian, and native order for 32 bits.  The other   *)
(* orders are left out, as in the tests (codec_test.cc:181-183), although   *)
(* AcceptedFormats lists them (enc/pnm.cc:131-157): the bytes are copied    *)
(* and the header cannot say their order.                                   *)
Intended(j) ==
  /\ j.orientation = 1
  /\ IF j.ext = "pgx" THEN j.bits \in {8, 16} /\ j.gray /\ ~j.alpha
     ELSE IF j.bits = 32 THEN ~j.alpha /\ (j.endianness = "little") = HostLittle
     ELSE j.bits <= 8 \/ j.endianness = "big"

(* Every picture an encoder is meant for is written, and the decoder reads  *)
(* the same picture back: size, depth, channels and the place, scale and    *)
(* byte order of every sample (enc/pnm.cc:35-92, enc/pgx.cc:22-85,          *)
(* dec/pnm.cc:183-381, dec/pgx.cc:89-199).  A file with other white space   *)
(* in its header is refused or read as the picture it holds.                *)
FilesReadBack ==
  /\ job.via = "encoder" /\ Intended(job) =>
       stage # "refused" /\ (stage = "loaded" => loaded = Picture(job))
  /\ job.via = "foreign" /\ stage = "loaded" =>
       loaded = Picture(job) \/ ~loaded.ok

(* EncodeToFile returns, and what it saves is an encoding of the pixels it  *)
(* was given, as Encode promises (codec.h:50), so that it reads back as the *)
(* same picture.  The bits of the pixel format come from the file name, the *)
(* bits of the samples and of the header from the metadata                  *)
(* (codec.cc:105-163).                                                      *)
SavedReadsBack ==
  job.via = "file" =>
    /\ stage # "aborted"
    /\ stage = "loaded" => loaded = Picture(job)

(* Jobs for the run about SavedReadsBack: pictures of 8 bits, gray and in   *)
(* color, saved under the names of the simple formats.                      *)
SavedJobs ==
  {[via |-> "file", ext |-> e, gray |-> g, alpha |-> FALSE, bits |-> 8,
    depth |-> 8, endianness |-> "big", orientation |-> 1, gap |-> "nl"] :
     e \in {"ppm", "pnm", "pfm"}, g \in BOOLEAN}
=============================================================================
