----------------------------- MODULE MCFoundations -----------------------------
(***************************************************************************)
(* The components under the image code, each for itself: a behaviour picks *)
(* one of them (those of Foundations, or a bundle, an operation on an      *)
(* image) and leaves the others in an idle state.  Bundles are written by  *)
(* a new program and read by one of any age.  Then what is done with whole *)
(* images: the blur, rectangles, and the operations of image_ops.h.        *)
(***************************************************************************)
EXTENDS Foundations, Sequences, TLC

VARIABLES
  layout, known, values, stream, sizes, cut, result,
  pass, phase, line, N, lanes, nextOut, prevOut, prevOut2, ring, ctr, xsize, stripX,
  vectors, out, touched, filtered,
  image, op, before, ops,
  rect, area, steps

fieldVars == <<layout, known, values, stream, sizes, cut, result>>
blurVars == <<pass, phase, line, N, lanes, nextOut, prevOut, prevOut2, ring, ctr, xsize,
              stripX, vectors, out, touched, filtered>>
imageVars == <<image, op, before, ops>>
rectVars == <<rect, area, steps>>
pixelVars == <<blurVars, imageVars, rectVars>>


-------------------------------------------------------------------------------
(* For Foundations.  Empty, reversed and small ranges, one up to the last   *)
(* uint32_t value.                                                         *)
SequentialRanges == {<<2, 2>>, <<3, 1>>, <<0, 1>>, <<0, 3>>, <<4, 7>>}

(* Requests to interleave samples: every format with and without alpha;     *)
(* every orientation, premultiplied or not; every way to be refused.        *)
Request ==
  [xsize |-> 3, ysize |-> 2, num_channels |-> 3, data_type |-> "uint16",
   bits |-> 10, endianness |-> "little", orientation |-> 1, alpha |-> FALSE,
   premultiplied |-> FALSE, unpremul |-> FALSE, buffer |-> TRUE,
   callback |-> FALSE, init_ok |-> TRUE, align |-> 0, slack |-> 0, missing |-> 0]
SampleFormats == {<<"uint8", 4>>, <<"uint8", 8>>, <<"uint16", 10>>,
                  <<"float16", 16>>, <<"float", 32>>}
FormatRequests ==
  {[Request EXCEPT !.num_channels = n, !.data_type = f[1], !.bits = f[2],
                   !.endianness = e, !.alpha = a, !.buffer = b, !.callback = ~b,
                   !.xsize = 2, !.orientation = o, !.align = al] :
     n \in 1 .. 4, f \in SampleFormats, e \in {"big", "native"}, a \in BOOLEAN,
     b \in BOOLEAN, o \in {1, 6}, al \in {0, 4}}
OrientationRequests ==
  {[Request EXCEPT !.orientation = o, !.data_type = "uint8", !.bits = 8,
                   !.num_channels = 2, !.alpha = TRUE, !.premultiplied = p,
                   !.unpremul = u] :
     o \in 1 .. 8, p \in BOOLEAN, u \in BOOLEAN}
SizeRequests ==
  {[Request EXCEPT !.buffer = b, !.callback = c, !.init_ok = k, !.slack = s,
                   !.missing = m, !.align = al] :
     b \in BOOLEAN, c \in BOOLEAN, k \in BOOLEAN, s \in {-1, 0}, m \in {0, 1},
     al \in {0, 4}}
RequestsMade == FormatRequests \cup OrientationRequests \cup SizeRequests

-------------------------------------------------------------------------------
(* Bits to write: fields of ones, shorter than a byte up to the longest,    *)
(* under nested allotments; and strings of bytes to append.  Memory is full *)
(* of ones when it is allocated.                                           *)
Ones(n) == 0 .. n - 1
PayloadsWritten == {[n |-> n, ones |-> Ones(n)] : n \in {7, 56}}
SpansAppended == {[size |-> 1, ones |-> {1, 6}], [size |-> 5, ones |-> Ones(40)]}
AllOnes == {Ones(1000)}

(* Bits to read: shorter than a word, or with single bytes and whole words  *)
(* before the end; skips within the buffer, past it, and past the end.      *)
InputOf(bytes) ==
  [total |-> bytes,
   ones |-> {p \in 0 .. (8 * bytes) - 1 : ((p * p) + (p \div 5)) % 7 \in {0, 1, 4}}]
InputsRead == {InputOf(bytes) : bytes \in {0, 1, 11, 17}}

(* Layouts: one varint; every coder with a condition; two extensions;       *)
(* numbers in few bits, with the largest, those between two and below all,  *)
(* near to a default of zero and to one between two numbers.                *)
Field(name, coder, default, cond, ext) ==
  [name |-> name, coder |-> coder, default |-> default, cond |-> cond,
   ext |-> ext]
Enc == <<<<1>>, <<5>>, <<1, 2>>, <<3, 6>>>>
Overlapping == <<<<3, 0>>, <<1, 2>>, <<2, 1>>, <<9>>>>
BitsCoder(n) == [kind |-> "bits", n |-> n]
U32Coder(enc) == [kind |-> "u32", enc |-> enc]
U64Coder == [kind |-> "u64"]
F16Coder == [kind |-> "f16"]

Varint == <<Field("v", U64Coder, 0, "", 0)>>
Coders == <<Field("b", BitsCoder(1), 0, "", 0),
            Field("u", U32Coder(Enc), 1, "", 0),
            Field("o", U32Coder(Overlapping), 2, "b", 0)>>
Extended == <<Field("b", BitsCoder(2), 1, "", 0),
              Field("e", U64Coder, 0, "", 1),
              Field("f", BitsCoder(2), 2, "b", 2),
              Field("g", U32Coder(Enc), 5, "", 2)>>
Floats == <<Field("h", F16Coder, 0, "", 0), Field("k", F16Coder, 130, "", 0),
            Field("u", U32Coder(Enc), 1, "", 0)>>

Vals(fields, extensions) == [fields |-> fields, extensions |-> extensions]
ValuesOf(lay) ==
  CASE lay = Varint -> {Vals([v |-> n], 0) : n \in 0 .. 255}
    [] lay = Coders -> {Vals([b |-> x, u |-> y, o |-> z], 0) :
                          x \in 0 .. 1, y \in 0 .. 15, z \in 0 .. 9}
    [] lay = Extended -> {Vals([b |-> w, e |-> x, f |-> y, g |-> z], n) :
                            w \in 0 .. 2, x \in {0, 1, 7, 40}, y \in 2 .. 3,
                            z \in {1, 5, 9, 15}, n \in 0 .. 3}
    [] lay = Floats -> {Vals([h |-> x, k |-> y, u |-> z], 0) :
                          x \in (-20 .. 20) \cup (120 .. 130) \cup (890 .. 900),
                          y \in {120, 121, 130, 139, 160}, z \in {1, 9}}

F == INSTANCE Fields WITH Layouts <- {Varint, Coders, Extended, Floats}, MaxCut <- 3

(* Three filters; lines that end in any of the loops, with an impulse at    *)
(* either end or values of all kinds; columns that fill strips of a cache   *)
(* line and vectors, or only a part of one.                                 *)
LineLengths == (1 .. 14) \cup {20, 21, 22}
LinesOf(size) ==
  {[k \in 1 .. size |-> (k * k + 7 * k + 3) % 97],
   [k \in 1 .. size |-> IF k = 1 THEN 1 ELSE 0],
   [k \in 1 .. size |-> IF k = size THEN 1 ELSE 0]}
G == INSTANCE GaussBlur WITH
       Modulus <- 97, N2 <- <<5, 23, 71>>, D1 <- <<3, 58, 90>>, Radii <- {1, 2, 5},
       LanesOf1D <- {1, 4}, Lines <- UNION {LinesOf(size) : size \in LineLengths},
       Widths <- {<<1, 4>>, <<18, 1>>, <<23, 8>>, <<40, 32>>},
       n <- nextOut, x <- stripX, prev <- prevOut, prev2 <- prevOut2

(* Images from one pixel up to more than a block of four by four; borders   *)
(* wider than the image, kernels longer than a row.                         *)
ImageSizes == {<<1, 1>>, <<1, 3>>, <<2, 2>>, <<4, 1>>, <<4, 3>>, <<5, 2>>}
Picture(s) ==
  <<s[1], s[2], [p \in (0 .. s[1] - 1) \X (0 .. s[2] - 1) |->
                   7 * p[1] + 5 * p[2] * p[2] + p[1] * p[2]]>>
P == INSTANCE ImageOps WITH
       kBlockDim <- 4, Images <- {Picture(s) : s \in ImageSizes}, Factors <- {2, 3},
       Borders <- {<<0, 1>>, <<2, 1>>, <<1, 4>>, <<6, 2>>}, Thicknesses <- 0 .. 3,
       Kernels <- {<<2>>, <<1, 2, 3>>, <<1, 0, 2, 0, 5>>}, Steps <- {1, 2},
       CopySize <- 4, Paddings <- 0 .. 2, MaxOps <- 2

(* Rectangles and windows that overlap, touch, or lie apart.                *)
Rectangle(x0, y0, width, height) ==
  [x0 |-> x0, y0 |-> y0, xsize |-> width, ysize |-> height]
Q == INSTANCE Rects WITH
       Extents <- {<<0, 0>>, <<1, 3>>, <<4, 3>>},
       Others <- {Rectangle(0, 0, 3, 2), Rectangle(1, -1, 2, 5),
                  Rectangle(-2, -2, 1, 1), Rectangle(5, 0, 2, 9)},
       Windows <- {<<0, 3, 8>>, <<4, 3, 5>>, <<6, 3, 5>>, <<-2, 3, 5>>},
       Offsets <- {<<-3, 1>>, <<2, -1>>}, Shifts <- {<<1, 0>>, <<1, 2>>}, MaxSteps <- 3

ASSUME ConstantsAssumption == G!Assumptions

IdleFields == /\ layout = Varint /\ known = 0
              /\ values = Vals([v |-> 0], 0)
              /\ stream = <<>> /\ sizes = F!None /\ cut = 0
              /\ result = F!None

IdleBlur == G!Begin("horizontal", <<1>>, 1, <<0, 1>>)
IdleImages ==
  /\ image = P!Image(0, 0, LAMBDA k, l : 0) /\ before = image
  /\ op = [name |-> "none", args |-> <<>>] /\ ops = 0
IdleRects == rect = Q!Rect(0, 0, 0, 0) /\ area = {} /\ steps = 0
IdlePixels == IdleBlur /\ IdleImages /\ IdleRects

IdleHandles ==
  mine = [opaque |-> "one", alloc |-> FALSE, free |-> FALSE]
IdleRows ==
  /\ c_current = T!LinearSRGB(FALSE) /\ desired = c_current
  /\ call = "ToXYB" /\ target = 255 /\ metadataBlack = FALSE
IdleExternal == request = Request
IdleReader == data = InputOf(0)

Init ==
  /\ which \in {"runner", "allocator", "handles", "bytes", "rows", "external", "writer",
               "reader", "fields", "blur", "images", "rects"}
  /\ which = "handles" \/ IdleHandles
  /\ which = "rows" \/ IdleRows
  /\ which = "external" \/ IdleExternal
  /\ which = "reader" \/ IdleReader
  /\ FoundationsInit
  /\ \/ which \notin {"fields", "blur", "images", "rects"} /\ IdleFields /\ IdlePixels
     \/ which = "fields" /\ F!Init /\ IdlePixels
     \/ which = "blur" /\ G!Init /\ IdleFields /\ IdleImages /\ IdleRects
     \/ which = "images" /\ P!Init /\ IdleFields /\ IdleBlur /\ IdleRects
     \/ which = "rects" /\ Q!Init /\ IdleFields /\ IdleBlur /\ IdleImages

NextPixels ==
  \/ which = "blur" /\ G!Next /\ UNCHANGED <<imageVars, rectVars>>
  \/ which = "images" /\ P!Next /\ UNCHANGED <<blurVars, rectVars>>
  \/ which = "rects" /\ Q!Next /\ UNCHANGED <<blurVars, imageVars>>

(* A conversion comes to an end; what uses a stream may stop anywhere.      *)
MayStop ==
  \/ which = "rows" /\ rowStatus \in {"done", "failed", "aborted"}
  \/ which = "external" /\ extPhase \in {"refused", "done", "reread"}
  \/ which \in {"writer", "reader", "fields"}

Next ==
  /\ which' = which
  /\ \/ FoundationsNext /\ UNCHANGED <<fieldVars, pixelVars>>
     \/ which = "fields" /\ F!Next /\ UNCHANGED <<foundationVars, pixelVars>>
     \/ NextPixels /\ UNCHANGED <<foundationVars, fieldVars>>
     \/ MayStop /\ UNCHANGED <<foundationVars, fieldVars, pixelVars>>

Spec == Init /\ [][Next]_<<which, foundationVars, fieldVars, pixelVars>>

(* Named here for the configuration; stated and explained in the modules.  *)
(* Each comes with the types of its component's state.                     *)
BundleRoundTrip == which = "fields" => F!TypeOK /\ F!BundleRoundTrip
FilterExact == which = "blur" => G!FilterExact
ImagesExact ==
  /\ which = "images" => P!ImagesExact
  /\ which = "rects" => Q!RectExact
===============================================================================
