# A TLA+ model of ssimulacra2

ssimulacra2 compares two pictures and gives the second one a score: how well it
preserves what a human sees in the first. The repository is a command line tool,
a small C API, and the parts of libjxl these need: decoders and encoders for several
picture formats, color and image classes, bit streams and headers, and two thread pools.

This directory holds TLA+ modules for those parts of it that keep state or follow a
protocol, TLC configurations that check them on small instances, and machine-checked
proofs, for instances of any size, about both thread pools, the metric and its front ends, the components
underneath, and the decoders of PNG and GIF. Paths below are relative to the repository; `lib/` is
`src/lib/` there.

- [The system](#the-system): its components, their state, operations and hazards
- [Modules](#modules): which module models which part, and how they correspond
- [Runs](#runs): what each run checks, its bounds, and what it shows
- [Findings](#findings): where code and documentation disagree
- [Proofs](#proofs): what holds for every value of the constants
- [Not modelled](#not-modelled) and [Plan](#plan)

## The system

```
  command line tool ----+                       +-- GIF, PNG/APNG, JPEG, PNM, PGX, EXR,
  (ssimulacra2_main.cc) |                       |   JPEG XL decoders (lib/extras/dec)
                        +--> codec dispatch ----+        |  PackedPixelFile
  C API  ---------------+    (decode.cc, codec.cc)       v
  (ssimulacra2_c_api.cc)                         packed image conversion <-> encoders
        |                                                |  CodecInOut, ImageBundle
        v                                                v
  metric (ssimulacra2.cc) <----- color transforms, external image conversion
        |
        +-- kernels (enc_xyb, gauss_blur, image.h) -- ThreadPool facade
                                                        |
              sequential runner / fixed pool / resizable pool (lib/threads)

  underneath: CacheAligned, PaddedBytes, BitWriter, BitReader, Fields, color encodings,
  image headers
```

The front ends call a decoder through the dispatch, which leaves a
`PackedPixelFile`; the conversion turns that into a `CodecInOut`, and the metric
takes the main frames of two of these. Encoders go the other way. Calls are
synchronous. Threads appear in four places: the pools, which any of the layers above may
be given; the statistics of the allocator, which all threads share; and the rows of an
external image and of a color transform, which the threads of a pool convert in buffers
of their own. Nothing is stored between runs of the program and nothing is sent
over a network, so there are no crashes to recover from and no messages to lose; what
can be lost is a wakeup.

### Components, their state and operations

| Component | State | Operations | What makes it hard | Correct means |
|---|---|---|---|---|
| Fixed worker pool, `lib/threads/thread_parallel_runner_internal.{h,cc}` | a command word, a count of ready workers, a reservation counter, a depth counter, two condition variables | construct, `RunOnEachThread`, `Runner` (also overlapping calls), destroy; `ThreadFunc` and `RunRange` in each worker | one mutex, two condition variables, notifications without the lock, relaxed atomics, guided chunk sizes computed from stale values | each task called once; a call returns after all tasks; no wakeup lost; shutdown completes |
| Resizable pool, `lib/threads/resizable_parallel_runner.cc` | counts of desired, existing and running workers, the next task, two condition variables | `SetNumThreads`, `Run`, destroy; `WorkerBody`, `DequeueTasks` | workers join late, leave early, exit and are created again between runs | as above, for any resizing; no thread of an earlier run in a later one |
| Handles of the pools, `lib/threads/thread_parallel_runner.cc` | a memory manager kept in the memory it manages | create, destroy | the manager is needed after the object that holds it is gone | memory returned where it came from |
| Sequential runners and `ThreadPool`, `lib/jxl/base/data_parallel.{h,cc}` | none between calls | `Run`, `RunOnPool` | two layers of return codes, reversed ranges, failing init | success means that the range ran, failure that nothing did |
| Allocator, `lib/jxl/base/cache_aligned.cc` | three atomic statistics, a cyclic offset | `Allocate`, `Free` on any thread | a compare-and-exchange loop; header and payload inside a rounded-up block | statistics exact, maximum is the peak, block layout sound |
| `PaddedBytes`, `lib/jxl/base/padded_bytes.{h,cc}` | memory, size, capacity | growing, copying, moving, swapping, assigning from itself | failing allocations, aliasing | the content of a `std::vector` |
| Metric, `ssimulacra2.cc` | five image buffers shared by six scales | the scale loop; the score | buffers shrunk and reused, sizes tested before halving, a running weight index | each scale compares the right pictures; each sub-score meets its weight |
| Blur, `lib/jxl/gauss_blur.cc` | the last outputs of each filter, a ring of rows | rows and columns | three loops for a row and four for a column, handed over at computed indices; unrolled coefficients | the recurrence, for every length |
| Images, `lib/jxl/image.{h,cc}`, `image_ops.h` | allocated and valid size | shrink, pad, mirror, downsample, border, convolve, copy; rectangles | sizes that wrap, borders wider than the image, rows made from rows that are padding | promised pixels have promised values, the others are untouched |
| Tool and C API, `ssimulacra2_main.cc`, `ssimulacra2_c_api.cc` | the loaded pictures; the reported result | one run; four compute functions | checks in different orders on different objects, one or two passes, aborts inside a library | all entry points agree; only equal, large enough pictures are scored |
| `BitWriter`, `BitReader`, `lib/jxl/enc_bit_writer.*`, `dec_bit_reader.h` | byte storage with a bit position; a 64-bit buffer and a pointer | writes under nested allotments, appends; reads, refills, skips, jumps, close | words stored over partly filled bytes, uncounted buffer bits, the end of the input | every bit written once and read back; overreads reported |
| Header fields, `lib/jxl/fields.*`, `field_encodings.h` | a bundle, visited field by field | `CanEncode`, `Write`, `Read`, `AllDefault` | three separate loops over a varint; conditions; extensions of unknown content; half floats | size announced = size written; old readers skip new fields; truncation noticed |
| Image headers, `lib/jxl/headers.*`, `image_metadata.*` | sizes, depth, orientation, extra channels, tone mapping | setters, `VisitFields` | forms that share fields, conditions on other fields | what is set is what is told and what is read back |
| Color encoding, `lib/jxl/color_encoding_internal.*` | fields, a profile, whether the two agree | a dozen setters and conversions | each changes one half, may fail between two assignments, and has to remake or drop the other half | profile and fields describe the same space in all four forms |
| Color descriptions and hints, `lib/extras/dec/color_description.cc`, `color_hints.cc` | a parser position | parse, print, apply | a tokenizer that wraps around | printed encodings are parsed again |
| Color management, `lib/jxl/enc_color_management.cc`, `color_management.cc` | a table of tags; the plan of a transform and per-thread buffers | make a profile, plan, convert rows | offsets known late; steps in or outside lcms; swapped buffers | each row of the result is the row of the source in the target space |
| GIF decoder, `lib/extras/dec/gif.cc` | canvas, rectangle to restore, last base | one loop over pictures | disposal methods, cropping, reference slots | layers show what the GIF shows |
| PNG/APNG decoder, `lib/extras/dec/apng.cc` | libpng object, control data, saved chunks, color fields, frames | one loop over chunks, one over frames; color chunks; metadata text | four chunk kinds in many orders; color described up to four times; shortcuts for disposal | every picture with its own size, data, palette; one description of color; layers show the animation |
| JPEG decoder and encoder, `lib/extras/dec/jpg.cc`, `enc/jpg.cc` | markers | taking the color profile apart and putting it together, copying of rows | markers out of order, duplicate, missing, numbered with one byte; errors by `longjmp` | profile exact or refused |
| JPEG XL decoder, `lib/extras/dec/jxl.cc` | memory of the current box, count of steps, chunk of a JPEG | an event loop around libjxl | events come in the order of the file, each handler relies on what another left | frames at the detail asked for, metadata complete, JPEG rebuilt |
| PNM, PFM, PGX: decoders and encoders | a parser position | header parsing, sample packing | text headers, byte orders, scales | a file written reads back |
| PNG encoder, `lib/extras/enc/apng.cc`, `exif.cc` | the bytes so far, a sequence number | one libpng object for each frame, spliced | parts of each output are taken away again | the animation reads back |
| Codec dispatch, packed image conversion | `PackedPixelFile`, `CodecInOut` | try each decoder; convert frame by frame | a decoder that fails after filling part of the result | what one decoder produced, entirely |
| Image bundles, `lib/jxl/image_bundle.{h,cc}`, `codec_in_out.h` | planes; metadata shared by all frames | set, remove, shrink, copy, downsample, export planes | planes are found by their place in a description other calls change | each plane is what the metadata says of it |
| External images, `lib/jxl/dec_external_image.cc`, `enc_external_image.cc` | a cache of rows shared by threads | interleave, undo orientation, divide by alpha; read back | eight orientations, four sample types, per-thread rows | every sample at its place |
| EXR and NPY encoders, HLG, tone mapping, numeric kernels, helpers | none | conversions | floating point | numerics |

`PROJECT.json` lists all of them with their files, and under `hazards` the forty places in this
code that are hardest to reach with a test, each at its line with the properties
that would catch it going wrong.

## Modules

A module models one component: its state as variables, and one action for each
operation, or for each step between two points where another thread can act. Lines
are in the `map` of `PROJECT.json`. `MC*` modules only give values to constants or put
several components behind one specification (a module with few such values has them at its end); mutated definitions (named `..._M` or commented
as such) are what a plausible bug would look like, and are used to see that each property
notices one.

Components that do not interact are put side by side in `MCFoundations`, `MCFiles` and `Descriptions`:
a behaviour chooses one of them (`which`) and leaves the others idle. A property named there
joins what the component's module says of itself, its types included. Those components that
are proved about as well are put together first, with their constants left open, in
`Foundations` and in `PngAndGif`; `MCFoundations` and `MCFiles` extend these, and
what a behaviour of theirs does to the variables of these modules is a behaviour of `FoundationsSpec` or `PngAndGifSpec`.
`Descriptions` leaves open what encodings, profiles and headers are given, and has the values for model checking at its end.

### Thread pools

`ParallelRunner` is the abstract fork-join runner, written from the C interface
(`lib/include/jxl/parallel_runner.h`): a call announces a number of threads, its
tasks are called in any order, each once, on announced thread numbers that are not
active already, and it returns when none is left. Both pools implement it.

`ThreadParallelRunner` is the fixed pool. The caller's position is `main` and a
worker's `pc[w]`; `command`, `ready` and `reserved` are `worker_start_command_`, `workers_ready_`
and `num_reserved_`; `calls` is a history variable. A critical section is one action, since
the mutex keeps other threads out of it; a wait on a condition variable is a state
from which a notification takes the thread. The relaxed load of `num_reserved_` and the following
`fetch_add` are two actions (`LoadReserved`, `ReserveChunk`), because the chunk size computed
between them may be stale. `StartWorkers` is split at the point where the lock is
given up before `notify_all`. All `uint32_t` arithmetic is modulo `M`, so the reserved
command values and the task numbers wrap as they do in the code: `NoWrap` names the ranges that
end far enough before 2^32 for reservations past their end not to come round to small
numbers, and the runs and theorems about tasks are about those. The caller's wait may
return spuriously; a worker's may in `SpuriousSpec`, a specification of its own because
the pool does not survive it (see findings).

`ResizableParallelRunner` is the other pool: one lock for everything, spurious wakeups on both
sides, workers that decide under the lock to exit, wait or join in. Its `next` counter is
incremented without the lock, as in `DequeueTasks`, and wraps with ranges that end near 2^32, which its `NoWrap`
leaves out as well.

Each of the two modules ends with the inductive invariant of its pool; the proofs are in
`ThreadParallelRunnerProofs` and `ResizableParallelRunnerProofs`.

`SequentialRunner` runs tasks on the caller, with or without `ThreadPool::Run` around it.
`RunnerHandles` is the C functions that make and destroy runners; who allocated a block and
who freed it is kept in a history variable.

### Foundations

`Foundations` has the components with theorems: runners without threads, the allocator, the handles of runners, byte
vectors, bit streams, and the two conversions of rows (`ColorTransform`, `ExternalImage`, below). `MCFoundations` adds the others.

`CacheAligned` has one action for each atomic access, and keeps addresses as residues modulo
the alias distance. `PaddedBytes` follows every operation on real contents next to the
vector it stands for. `BitWriter` and `BitReader` have the widths of the code, bytes of 8 bits and words of 64. Memory, a word, a field
and the input are each the set of the numbers of their one bits, so that or, and, shifts and little-endian stores are operations on
sets; the bits that a client has written, and the position it has reached, are kept beside them. `Fields` writes and reads bundles of
several layouts through the visitors and coders of `fields.cc`, half floats included.

`GaussBlur` has one action for each turn of a loop, or its end, of the row and the column filter. Floats are residues
modulo a prime: the algebra behind the unrolled coefficients is exact there, and a wrong
coefficient or index changes the result. `ImageOps` holds one plane with its allocated and valid sizes; pixels never
written are `Garbage`. `Rects` is `RectT`, with the set of pixels it is meant to cover beside it.

### Files

`PngAndGif` has the components with theorems: the layers of both formats, the chunks of a PNG and their colors. `MCFiles` adds the others.

`Layers` is what a frame of an animation means to JPEG XL: a rectangle put over, or in place of, a
part of a saved reference canvas, and perhaps saved itself (`lib/include/jxl/codestream_header.h`).
`GifLayers` and `ApngLayers` are the loops that translate pictures into layers. Both compose
the layers as they are made, and keep beside them the canvas of a viewer that follows the
format; they keep no list of frames, so a behaviour of any length is covered. `ApngChunks` is
the chunk loop that comes before: a file is written chunk by chunk, in the
orders PNG allows, and given to the decoder as it grows, with libpng reduced to what it
was fed. `ApngWriter` is the other side, an encoder that splices the output of one libpng
object for each frame into one file; what it writes is read back. `PngMetadata` is the one module about characters: the hexadecimal text that
carries Exif, IPTC and XMP, its parser, and the orientation that is patched on the way, in a directory right after the header or further on.
`PngColor` is the color of a PNG: sRGB, iCCP, cHRM and gAMA chunks in any order, each of which may be damaged or come again, and the
description that results from them; libpng keeps the first profile it accepts. `JpegIcc` takes a color profile apart into numbered markers and puts one together.

`JxlDecode` is the event loop around libjxl. A file is the sequence of its parts (headers of boxes and
frames, bytes of a box, steps of detail), and may end after any of them; libjxl passes by the
parts nobody subscribed to and fills the memory it was given. Bytes are named by their place
in the file and pixels by frame and level of detail, so that `DecodedExactly` can say what each vector and frame must hold.

`Loading` is `DecodeBytes` with every decoder reduced to the order in which it assigns the fields of the shared
`PackedPixelFile`: a damaged file stops it before any stage, by a return, a `longjmp`
or an exception, and the next decoder finds what the stages before left. Then come color hints and the
conversion into a `CodecInOut`, with its assertions.
`Bundles` begins where that ends: a plane is which channel of which frame it holds, at which size and how often scaled down, and the operations of
`ImageBundle` and `CodecInOut` have to keep planes and metadata together.

`Samples` gives interleaved bytes a meaning: a byte says of which sample it is, at which scale and
which of its bytes, so that reading at another width, scale, byte order or place does not
give the sample back. `ExternalImage` uses it for the threads that interleave rows (`TakeRow`, `CacheRow`, `SampleRow`, `EmitRow`),
and for reading the buffer back; `Netpbm` for files: the choice of an encoder and a format, the packed image,
the header as tokens, and the parser that has to end exactly where the samples begin.

### Descriptions

`ColorEncoding` holds the fields of a color space, the profile it carries and `dirty`, a history variable that says
which of the two a caller changed last; a profile is what it was made from. It has every accessor,
setter and conversion, the visitor that writes and reads its fields, and after that the textual form and the hints.
`IccProfile` builds the bytes of a profile, with a table of tags whose offsets are patched when all are known; `Joined` is what an assembled profile has to be.
`Descriptions` puts both behind one specification with the headers; `DescriptionsAssumption` says what may be given: coordinates and gammas that are numbers, profiles and streams that
are of the shape a parser delivers, images of sizes up to 2^30, which is what a header can hold, depths and intensities that are numbers.
Proofs are in `DescriptionsProofs` and `HeadersProofs`.
`ColorTransform` is the conversion of an image bundle before the metric: the plan of `JxlCmsInit`, and the rows that
threads convert. Initialisation may fail for any pair of encodings, as profiles and lcms decide; left out is that the linear profile alone could not be made (memory), where the code goes on with the curve it has. A row is what its numbers mean (space, curve, light of the scene or of the display, units of ink), and a step
that is given anything but what it expects makes nonsense of it. `Headers` has `SizeHeader`, `PreviewHeader`, `AnimationHeader` and `ImageMetadata` with their setters; a bundle
is written as the pieces its fields leave, joined: one for a field that is visited, none for one that is not. Readers are recursive functions on the number of
fields they have passed, and start from an object in use or a new one.

### Metric and front ends

`Metric` is the scale loop. An image is not pixels but where the pixels come from: which
picture, on which background, at which scale, converted or not; and a size. Each of the five buffers
keeps such a value, so that a forgotten shrink or conversion shows as a wrong
operand of the result. Sizes and the tests on them are exact. `Program` puts the tool and the
four compute functions of the C API around it: argument checks, loading, sizes, passes, results,
aborts. What a decoder delivers is an input.

## Runs

The names of the properties are those of the modules, where each is explained. All numbers of
states are of complete searches. Several properties of `MCFoundations`, `MCFiles` and `Descriptions`
are conjunctions, one conjunct for each component that may be chosen.

| Run | Instance | What it shows |
|---|---|---|
| `ThreadRunner` | 2 workers; `M` = 24; empty, reversed, one-task and few-task ranges, and one of 16 tasks wide enough for chunks of two; one overlapping call | no lost wakeup, every task once, calls and destruction return, the pool implements `ParallelRunner`, the invariant of the proofs holds. 280,000 states |
| `ThreadRunnerSpurious` | spurious wakeups of workers | violation, see findings |
| `ResizableRunner` | up to 2 workers, resized freely, ranges with fewer and more tasks than threads | the running count is exact, no lost wakeup, runs and resizes return, no thread of an earlier run sees the next one, `ParallelRunner` is implemented. 91,000 states |
| `Foundations` | one of: sequential runners; handles of runners; the allocator; two vectors; two threads that convert rows; two threads that interleave rows; a bit writer; a bit reader; bundles of three layouts; the blur; images; rectangles | the `Status` of a run is success exactly when all of it ran, and otherwise nothing did; memory goes back where it came from, statistics are exact, blocks sound; contents of a vector; each row arrives in the target space; each is delivered once, in any orientation, and reads back; bits, sizes and extensions agree between writer and reader; the recurrence of the blur; the pixels an operation promises. 1,340,000 states |
| `PaddedBytesFails` | allocations may fail | violation, see findings |
| `Program` | two calls on each pair of 27 pictures: sizes around 8 and 113, transparency, cropped frames, failing files, one whose colors cannot be converted | entry points agree, every scale is right, scores compare frames of equal size, the passes differ in the background only, aborts only where sizes differ or a conversion of colors fails. 190,000 states |
| `ProgramTiny` | a tiny frame on a larger canvas | violation, see findings |
| `Files` | one of: animations of a GIF or a PNG; chunks of a PNG, read or written; its color chunks; markers of a JPEG, read or written; metadata text; bundles of planes; any decoder after any other; PNM, PFM and PGX files; JPEG XL files | layers show what a viewer shows; pictures are not mixed up; what is loaded is one file entirely; profiles, metadata and samples are exact or refused; files written are read back. 422,000 states |
| `GifDisposal` | all disposals on cropped pictures | violation, see findings |
| `MetadataReadsBack` | Exif, IPTC and XMP of a few bytes | violation, see findings |
| `SavedReadsBack` | pictures saved under every extension | violation, see findings |
| `Descriptions` | one of: a color encoding under any three calls; the layout of a profile; headers under any three setters | profile and fields agree; serialized and textual forms read back; headers say what was set. 73,000 states |

### Why the bounds are enough

For the safety of both pools, of the metric and its front ends, of the components in `Foundations`, of those in `PngAndGif`, and of everything in `Descriptions`
they need not be: the theorems below hold for every value of the constants, except where they name an assumption. For the rest:

- *Two workers* are the least at which two workers race for the same chunk and one can be last
  at the barrier while the other waits; a third plays the part of either. A range of 16 tasks has chunks of two and then of one, so that a stale
  chunk size differs from a fresh one. Two overlapping depths show both sides of the test.
- *Resizing* between zero and two workers covers growing, shrinking, a pool without
  workers, and reuse of a worker number; ranges of one, two and four tasks are fewer
  than, as many as and more than the threads.
- *Allocator:* residues modulo 8 with an alignment of 4 and addresses 0 and 7 are the two
  extremes of rounding, and the header of 6 is larger than the alignment; two threads are enough for every race on one atomic, as each
  compare-and-exchange is against one other value. *Two handles* of different managers can be given back in either order.
- *Vectors* of three bytes are reallocated twice, and two objects show all aliasing.
- *Bit streams:* fields of 7 and 56 bits end within a byte, pass its end, and fill all but the last byte of a word; inputs have 0, 1, 11 and 17
  bytes, so that the last whole word ends before, at and after a refill; skips of 13 and 77 bits stay within the buffer or leave it, the input too.
  Uninitialised memory is all ones, the worst for a field that is or'ed into it.
  Bundles have three layouts, each with all its small values, readers of any age, and truncated streams; one has half floats next to their default, within the tolerance of `AllDefault` and outside.
- *Blur:* lines of 1 to 14 pixels end in each of the loops for a row, those of 20 to 22 run through the unrolled one twice, for radii 1, 2 and 5.
  The filter is linear: an impulse at either end, with a line of many values, stands for all. Rows have vectors of 1 and 4 lanes;
  columns in images 1, 18, 23 and 40 wide, with vectors of 4, 1, 8 and 32 lanes, leave a rest for each of the loops over strips.
- *Images* of 1x1 to 5x2 with blocks of 4 are smaller than, equal to and larger than a block, a border and a kernel; two operations
  in a row show what the first leaves outside of the valid part. *Rectangles* are made in up to three steps.
- *A canvas of 2x2* has rectangles that are equal, disjoint, nested, and overlapping in
  an L shape, which are all cases the layer loops tell apart. Two colors alternate, so that a
  pixel of the latest picture is never confused with one of an earlier picture that
  should have gone. *Eight chunks* are enough for a palette, a control, an image
  of two data chunks, and two later frames. *Three markers* have all orders, duplicates and gaps; written
  profiles fill up to three markers, and one is long enough for their numbers to wrap. *Four color chunks* are as many as there are kinds.
- *Bundles* of up to three frames, with or without a preview, one to four pixels wide, under four operations.
- *External images* of 3x2 pixels have a different place for each pixel under each orientation; two
  threads share the rows in any way. Every sample format and number of channels occurs.
- *PNM, PFM and PGX:* every extension with each depth, and headers with each gap and fault the parsers tell apart.
- *JPEG XL files* have a preview and two frames of three steps, or boxes before, between and within frames with an
  unbounded one at the end, or a JPEG. Each is cut after each of its parts. Memory of two bytes overflows in each kind of box, memory of one in the JPEG.
- *PNG pictures* have every value of a sample at small depths, and colors with and without a number; animations have three frames, of which one
  has a delay that exceeds 16 bits.
- *Color encodings:* three calls are one more than a change of one half and the conversion that needs the other;
  white points and primaries are on, next to and far from the named ones, and at the limits of their range.
- *Profiles* have texts of 7, 18, 19 and 40 characters, which leave all four paddings.
- *Conversion of rows:* two threads with three rows, so that one buffer is used twice.
- *Headers:* three setters, sizes and intensities on both sides of each limit and of each form (small or not, equal ratio or not).
- *Picture sizes* are on both sides of each threshold in the code (8 for a scale at all, 113 for six
  scales).

`CHECK_DEADLOCK FALSE` stands in the runs of `Program`, `GifLayers`, `MCFiles`, `PngMetadata`, `Netpbm` and `Descriptions`: these
components are done at some point. The pools and `MCFoundations` are checked for deadlock.

### Fairness

Liveness is stated for the two pools only. `CallerStep` and each `WorkerStep(w)` are weakly fair: an
operating system keeps running threads that can run, a mutex is eventually given to a thread that waits for it,
and the data function returns, as the interface demands of it. Clients need not call anything, and a
spurious wakeup need not happen: neither is in a fair action. A thread in a
wait can take no step at all, so fairness cannot hide a lost wakeup. Everything else
is sequential or without a promise to end, and is specified without fairness.

## Findings

Each is a run whose counterexample is a behaviour of the code.

1. **Spurious wakeups** (`ThreadRunnerSpurious`, `thread_parallel_runner_internal.cc:156`). `ThreadFunc` reads the command
   again after any wakeup and reports ready on each pass. A worker that
   has finished its range and is woken spuriously before the barrier resets the command
   runs the range again and reports twice, so that the caller may go on while another worker is still
   inside a task. `thread_parallel_runner_internal.h:126` says "Safely handle spurious worker wakeups."
2. **Failed reallocation** (`PaddedBytesFails`, `padded_bytes.cc:20`). Size and capacity are reset, the old
   memory is kept, and `resize` then takes `data() != nullptr` for success. `padded_bytes.h:176-177` promises
   `data() == nullptr`.
3. **Minimum size** (`ProgramTiny`, `ssimulacra2_main.cc:90`). "Minimum image size is 8x8 pixels" is checked on
   the canvas; a still GIF whose picture covers 4x4 pixels of it passes and is compared on no scale.
4. **GIF disposal** (`GifDisposal`, `gif.cc:381`). Disposal to background of a picture that covers a part of the canvas clears the
   decoder's whole canvas. The next layer replaces the box around both rectangles with what is left, and
   a picture disposed to "previous" right after makes the decoder forget the rectangle. `Unusual` in `GifLayers`
   names these uses; without them the layers are right, in any order (`Files`).
5. **Metadata** (`MetadataReadsBack`, `lib/extras/enc/apng.cc:136`). The encoder prints the number of bytes with `"%8zu"`; the decoder's
   `DecodeDecimal` (`dec/apng.cc:174`) stops at the first space. All Exif, IPTC and XMP a PNG is
   written with is dropped when it is read, although `codec_test.cc:304` expects `Encode` to carry it.
6. **Saved as .pfm** (`SavedReadsBack`, `lib/extras/codec.cc:107`). An 8-bit picture saved under a `.pfm` name is packed in one format and described in another. The trace is of a gray
   one: rows of two bytes for each sample, of which 8 bits are in use, follow a `P5` header of maximum 255. Of a color one, floats follow a `P6` header. Neither reads back as what was saved,
   although `Encode`, which `EncodeToFile` calls, is to write "an encoding of pixels transformed from c_current" (`codec.h:50`).

### Seen while modelling, without a run

*Metric.* With fewer than six scales the weight index (`ssimulacra2.cc:378`) meets the weights of other components and
scales, where the comment above it describes 108 sub-scores; `FullScoreFromThreshold` gives the exact condition for a full score: both sides
of at least 113 pixels. `gauss_blur.h:39-46` describes mirroring, `ConvolveXSampleAndTranspose` clamps its indices.

*GIF.* `set_pixel_alpha` (`gif.cc:242-250`) returns early for an opaque pixel when
the frame *has* an alpha channel, where its comment describes the opposite. Pixel values are right either way, but `alpha_bits` is 8 for every GIF and not only
"if we find a frame with transparent pixels" (`gif.cc:154`), which `Loading` follows: an opaque GIF is scored on two backgrounds too.

*PNG.* `delay_num` is a product stored in 16 bits and wraps for long frames; an animation of no frames
gives an empty file and success. The decoder reads neither the number of loops nor the color chunk the encoder writes.

The rendering intent of an sRGB chunk is read and then overwritten with the perceptual one (`apng.cc:672`).

*Bundles.* `ConvertPackedFrameToImageBundle` (`packed_image_convert.cc:66`) stores the extra planes of a frame from place 0, where interleaved alpha has just been put:
of a JPEG XL picture with alpha and another channel, alpha is overwritten and the last plane stays empty. Alpha announced after another channel is inserted past the end
of an empty vector, and a preview gets no planes for announced channels. `Misplaced` in `Bundles` names these; the dispatch does not try JPEG XL, so the tool never meets them.
Converting back to packed pixels drops durations, origins and preview, and aborts on planes other than alpha.

*JPEG XL.* A metadata box cut short after the last frame is accepted silently, and metadata after the last frame is lost if decoding
stops early. `num_color_channels` changes although the warning says that the color space is ignored. A `PackedPixelFile` used again keeps its extra channels: only frames
are cleared.

*Saving.* Pictures of 32-bit floats saved as `.ppm` or `.png` end in an assertion (`dec_external_image.cc:259`).

*Color encoding.* `SetSRGB` after XYB leaves the transfer function's nonserialized color space as it was;
`SetICCRaw`, then `SetICC` or `SetSRGB`, leaves `have_fields_` false; `cmyk_` is never reset. Reading a header that announces a profile into an object already in use
keeps the old profile until `SetICC`. Custom primaries are parsed from a description and then refused. A line that names the primaries by the word for custom ones (`Cst`)
is parsed and taken as a hint, but leaves primaries of zeros, from which no profile can be made. The tokenizer's position wraps around, so that a white point of one
number is accepted.

*Headers.* Reading `ImageMetadata` into an object already in use keeps `tone_mapping` and `extra_channel_info`. The comment on visitors that only read (`fields.cc:93`) is untrue of `ColorEncoding` and `BitDepth`. `Bundle::AllDefault` and `CanEncode` abort
on a bundle whose `VisitFields` fails; `MaxBits` leaves out the field of extensions. Tiny positive intensity targets are written but not read back.

*Images.* `SetBorder` needs a border no wider than the image (the loop for the bottom wraps, harmlessly); `Image3MinMax` starts from the smallest
positive number.

*Runners.* The comment on the code a runner returns (`data_parallel.h:51-52`, "returns 0 in case of error") is the opposite of the conversion below it, of the
interface and of both runners; `SuccessIsComplete` holds of the code, and the form of the comment breaks it. A call that overlaps another one leaves
`depth_` raised (`thread_parallel_runner_internal.cc:77-79`), so that the runner refuses every later call; `DepthExact` records it.

*Allocator.* `Allocate` makes room for the header where the offset is zero, and takes any other offset, a multiple of the alignment, to be wide enough. Where vectors are long the header is larger
than the alignment (`cache_aligned.cc:74-76`), and a block whose offset is smaller than the header may have the header begin below what `malloc` returned. `LayoutSound` promises the header for
all other blocks.

*Conversion.* A profile that cannot be parsed, primaries whose luminances are not to be had, or a pair of profiles lcms refuses make `TransformTo` fail, and `JXL_CHECK`
(`ssimulacra2.cc:438-443`) then ends the process that called the metric; so does a CMYK picture whose black channel is gone.

*Half floats.* `AllDefault` takes a half float within 1E-6 of its default for the default (`fields.cc:243-246`): the smallest ones around zero are lost when a bundle has no other fields set.

*Imports.* An import from the C API that gives up half way (`color_encoding_internal.cc:612-646`) leaves the fields it has set beside the profile of the ones before, which the
comment on calls that need `CreateICC` (`color_encoding_internal.h:238-246`) does not list. The one caller, `packed_image_convert.cc:129`, returns the error and the picture is abandoned.

*Pools.* For ranges that end near 2^32 reservations past the end wrap (`NoWrap`, above). The resizable pool ignores the memory manager its header
says is copied.

## Proofs

The theorems hold for every value of the constants that satisfies the assumptions of their modules (`...Assumption`, which TLC evaluates on every run), with
what they assume besides named with them. Each rests on an inductive invariant: the properties of the runs
are not inductive, since each says something of one place of a component that follows from what happens in others.

### Thread pools

`ThreadParallelRunnerProofs`, for any number of workers (at least one; without any, the pool is a `SequentialRunner`), any ranges and any depth:

| Theorem | States |
|---|---|
| `TypeCorrect` | type correctness |
| `StartPrecondition`, `BarrierExact`, `DepthCorrect` | the handshake: every worker waits when a command is published, the ready counter exact, no lost barrier wakeup, the depth counter exact |
| `Tasks` | the inductive invariant `IInv` |
| `TasksCalledOnce` | no task twice, none outside the range |
| `RunnerReturnsComplete` | past its barrier a call has called every task, and all calls have returned |
| `StableCommand` | command and range do not change under a working worker |
| `Refinement` | the pool implements `ParallelRunner`'s safety |

The theorems about tasks assume `NoWrap`, without which the arithmetic on task numbers wraps (see `ThreadParallelRunner` above).

`SyncInv` relates the caller's position to the
command that is out (`JobInv`), to the places a worker can be in (`PlaceInv`), and the counter to
the workers that wait (`CountInv`). From it follow the handshake properties. `TaskInv` adds what happens in between:
`ChunkInv` says that each worker's chunk lies in the part reserved so far, `OwnerInv` that
each reserved task has been called or is held by exactly one worker, and `BoundInv` how far past the end the reservations can
go (one chunk crosses it, and each worker that finished reserved at most once more), which is what keeps the
arithmetic from wrapping. A worker that reports ready has seen the end reserved; when all have, `OwnerInv`
leaves no task uncalled. `TypeStep` to `CountStep` and `TaskStep` are the inductive steps, one case for each action.
In the refinement, `RunEnter` and `WarmUp` map to `Begin`, `CallTask` and `WakeToOnce` to `Call`, `TaskReturns` and `OnceReturns` to `Finish`,
`RunLeave` and the barrier of a warm-up to `Return`, all else to stuttering (`StepRefines`).

`ResizableParallelRunnerProofs`, for pools resized between any numbers of workers, with spurious wakeups:

| Theorem | States |
|---|---|
| `PoolIsSound` | the invariant of the pool: existing, desired and running workers fit together, for any ranges |
| `RunningExact`, `WakeupsNotLost` | the running count is that of the threads in a run; nobody sleeps on a condition that came true, for any ranges |
| `RunIsSound` | the inductive invariant `IInv`, with `NoWrap` |
| `ResetWhenQuiet` | the counter is never reset under a thread of an earlier run, with `NoWrap` |
| `Refinement` | the pool implements `ParallelRunner`'s safety, with `NoWrap` and `NoEmptyRange` (`ThreadPool::Run` passes no empty range on) |

Here the pool's part of the invariant (`SizeInv`, `CountInv`) stands alone. The part about runs has `TeamInv` (who may take part), `NextInv`
(the counter passes the range by at most one for each thread that is `Spent`, which bounds it without
any bound on how many leave and come back) and `CallsInv` (the tasks below the counter have been called once, and each thread in the data function is there for one of them).
In the refinement, `RunAccepted` maps to `Begin`; `Dequeue` with a number left, and `CallInline`, to `Call`; `TaskReturns` and `InlineReturns` to `Finish`; all else but `Return` to stuttering.

### Metric and front ends

`ProgramProofs`, for any number of scales, pictures of any size with any frames, and any sequence of calls on them:

| Theorem | States |
|---|---|
| `ProgramIsSound` | the inductive invariant `IInv`: every reused buffer is at the resolution of its scale and holds this call's picture; every report is what the two pictures determine |
| `ScalesAreExact` | each scale compares the two pictures of its own call at its own resolution |
| `AbortsOnMismatchOnly` | no check on the size of a reused buffer fails: the metric aborts only on pictures of unequal size, or where one cannot be converted |
| `EntryPointsReportTheSame` | tool and C API report the same of the same pictures |
| `ScoresCompareEqualFrames` | a score is of two frames of one size |
| `FullScoreThreshold` | a score uses every weight if and only if both sides reach `(MinSide - 1) * 2^(NumScales - 2) + 1`, which is 113; assumes more than one scale |
| `PassesDifferOnlyInBackground` | the two passes over a transparent picture have the same scales, and the same operands and maps in each but for the background blended in |

`MetricInv` says of each buffer which picture it holds at which scale, for each place in the loop, and `ExpectedScale` says
what every finished scale has to be; `ProgramInv` adds what is known of the two files after each check, and that each entry of the
history is what `files` determine. Sizes are halved with a recursive function; that it exists, halves, and comes below `MinSide` exactly
when the closed formula says, is proved from a least counterexample in `Nat` (`HalvedRecursion`, `HalvedReaches`, `HalvedShrinks`).

### Foundations

`FoundationsProofs`, with `RowsProofs` for the conversions of rows:

| Theorem | States |
|---|---|
| `FoundationsInvariant` | the inductive invariants of the components together |
| `RunnersComplete` | the `Status` of a run without threads, or its code if called directly, tells success exactly when the init function accepted and the range was not reversed; then the whole range ran in order, otherwise nothing did; for any range and any code of the init function |
| `AllocatorIsSound` | any finite set of threads: blocks are aligned and hold their payload, and their header unless it is larger than the alignment and the offset is small, whatever the sizes of both; bytes in use are exact, the recorded maximum is the peak; runner handles give memory back to where it came from |
| `BytesHoldVectors` | any number of byte vectors of any sizes hold what `std::vector` would, with their padding |
| `ConversionIsExact` | any number of threads and rows, and failures anywhere: each row arrives in the encoding that is declared, on whatever path, and a failed conversion declares no other |
| `RowsAreDelivered` | any size, orientation, format, alignment and number of threads: each row of the picture as it is meant to be seen is delivered once and whole, padding stays as it was, and the buffer reads back as what was written |
| `WrittenExactly` | any fields of up to 56 bits, nesting of allotments, appends, and contents of fresh memory: the bytes hold what was written, the rest of the byte to be written next is zero, no word is stored past the padding, and each bit is charged once |
| `ReadExactly` | any input, and any reads, skips and jumps: a read gives the bits at the position reached, zeros past the end; having read past the end is known and `Close` reports it unless it was asked about |

The allocator's statistics are sums over sets of blocks and threads, whose definition folds over a set: `SumProperties` shows that such a sum is
what it is meant to be, by a least counterexample on the cardinality. `PeakInv` is the argument for
the compare-and-exchange loop: a thread between the loads and the exchange holds a maximum that is no larger than the current one, and
whenever the recorded maximum is behind the peak, some thread is still about to record it. The vectors are proved for
allocations that succeed; what happens when they fail is the second finding. `RowConverted` follows a row through the three stages of a
transform; `RunningInv` keeps rows that are done, held by a thread and still to come apart.

`ExternalInv` does the same for interleaved rows: a row is `Sent` when it is neither left nor held by a thread; a thread that holds one has
its samples, in place, in its own rows of the cache (`CacheInv`); the buffer has the bytes of the rows sent and nothing else
(`BufferInv`), the callback got each of them once (`CallbackInv`). `RowsApart` and `CacheRows` say that rows of the buffer and of the cache do not
overlap; `Oriented` and `SeenIsUndone` that the permutation in `UndoOrientation` is the inverse of where the sides of the picture belong, for each of
the eight orientations; `SampleFound` that the reader finds each sample at the place where the writer stored it.

`ReaderInv` rests on `Buffered`: bits in the buffer are those of the input from the reader's position on, and the counted ones are all of them; so a
word that is or'ed in again above them changes nothing that is there. `WriterInv` rests on `Promised`: what the open allotments may still
use fits into `size_`, however they are nested and reclaimed, so what was written lies in the bytes that a reallocation keeps; and on `Settled`: up to the byte that is
written next, memory has what was written and no other one. The sum over the nested allotments is not defined by recursion; `Promised` says that some
bound for each of them exists, and `NestedAllot`, `NestedWrite` and `NestedReclaim` name it after each call.

### PNG and GIF

`PngAndGifProofs`, for any canvas and any bound on the number of chunks; the number of frames is not bounded at all:

| Theorem | States |
|---|---|
| `PngAndGifInvariant` | the inductive invariant `IInv` |
| `PngFramesShow` | the layers of an animated PNG show what a viewer with an output buffer shows, for every dispose and blend operation |
| `GifLayersShow` | the layers of a GIF show what a viewer paints, for the usual disposals (the others are the fourth finding) |
| `ChunksAreUnderstood` | each picture of a PNG is delivered once with its own size, data and palette; its color is that of the last chunk of each kind, its profile the first |

`ApngInv` says that the viewer's buffer is the saved reference canvas with the previous rectangle cleared if that is still to be
done; `GifInv` that decoder and viewer agree on the canvas, and that it is the saved one unless nothing is saved or all was just cleared. `ReplacedPadded`, `LayerComposed` and `TwoLayers` are the lemmas about what one
layer or two do to a canvas. `ChunksInv` has the picture libpng is being given as the last one meant, after those delivered.

### Descriptions

`DescriptionsProofs`, for any white points, primaries, gammas, profiles, hints and streams that satisfy `DescriptionsAssumption`, and any number of calls:

| Theorem | States |
|---|---|
| `EncodingsDescribed` | the inductive invariant of an encoding: its fields are in range, and unless a caller just changed one half its profile is the one they describe, or there is none |
| `EncodingsReadBack` | an encoding reads back from the struct of the C API, from the fields of a header and from a line of text, as nearly as each of them can say it; a hint that was taken leaves what can be used, unless it names custom primaries |
| `ProfilesLaidOut` | the inductive invariant of `MaybeCreateProfile`: table of tags, data and recorded offsets agree after each step, for texts and curves of any length |
| `ProfilesDescribeFields` | what the runs check of both: profile and fields agree, except after setters without `CreateICC` and after an import or a read that gave up on its way with other fields; each tag of an assembled profile is found where the table says, aligned, and of the size it says |

`EncodingInv` is `Good`, the fields that can be there together, and that an encoding that is not dirty describes itself. Most calls leave an encoding alike but for some fields (`Keeps`), so that
each of them shows what it did to these alone; the conversions from the C API, from a profile and from a stream succeed exactly when
what they were given meets a condition in closed form (`ImportOk`), which makes failing in between and leaving half an encoding a case of its own.
That encodings of the same fields make the same profile connects the two halves.

Reading back is three arguments. For the struct, what export says and import takes are compared field by field. For a header, the reader is a recursive function on the
fields it has visited; that it exists is proved from a least number at which it would not, and `ReadSoFar` says what has been read after the first `k` fields.
Conditional fields make the number of a field depend on earlier ones; the writer joins sequences, of which `Joins` gives the prefixes. For text,
each token of a description is shown to be what one part of the parser takes for that field (`WhiteSaid`, `PrimariesSaid`, `CurveSaid`), and a line to mean the encoding of its parts
(`LineMeans`); numbers are rounded when printed, and come back within the tolerance with which encodings are compared. The condition on hints was found by
this proof: as first stated, it did not hold of primaries that are named by the word for custom ones, a line the runs then did not have.

`ProfileInv` has the header of 21 fields, whose marks name what each byte is of, and, after `d` tags, what these have left in the table and in the data: shared curves and
matrices keep the offset of the tag before them, each block is padded to four bytes, and the offsets patched in at the end count from the end of a table whose length is then known.

`HeadersProofs` has the third part, for any sizes, previews and intrinsic sizes up to 2^30, any depths, types of channels, orientations and intensities (of which those
a half float cannot hold, like other values out of range, make the header one that cannot be written), and any number of calls; the two loops, rates, floating-point formats and shifts of the setters are those of `Headers`:

| Theorem | States |
|---|---|
| `HeadersReadBack` | the size of an image always reads back; metadata that can be written is read by a new object as it was set, to the end of the stream, with any number of extra channels and the depth and state of the alpha channel set last |

`HeadersInv` says that the fields of the size are in range and stand for the size set last (`SizeGood`), and of the metadata that each field is of its kind, that a preview that is announced is the
one set last, and that the first alpha channel is as it was set (`MetaGood`). `SizeSet` and `PreviewSet` are what the compact forms come to: `Set` writes only the fields of the form it
chooses, and the fields left over from another form are shown not to be looked at. The setters of metadata change a field or two (`Assigned`, `OtherSet`), except for those of channels:
removing is a recursion on their number (`OthersKept`), and a channel a caller adds is never the first alpha channel (`Found`).

Reading goes along the pieces. `ReadAlong` is about any sequence that is joined from pieces and any reader that, given a piece and more, takes just that piece: it then takes all. Its
induction is on the number of pieces and applies to fields of a bundle, channels of an image and fields of the metadata alike. What has been read after `k` fields is the new
object with the first `k` visited fields of the old (`Mixed`), so that a condition on a field that was read before is decided as the writer did (`Visits` depends on earlier fields only, field by field).
Depth, tone mapping and channel each have a lemma of their own (`ToneBack`, `ChannelBack`, `ChannelsBack`), which is what `MetadataUnderstood` needs of the nested bundles. A
bundle equal to a new one is one bit; `EqualBack` treats it apart, since then nothing is read. For half floats it is enough that `Half` stays in range and between the same bounds.

### Only model-checked

- Liveness (`RunReturns`, `DestroyCompletes`, `ResizeReturns`), which is out of this prover's reach.
- `BundleRoundTrip`, `FilterExact`, `ImagesExact`, `LoadedIsTheFile`, `DecodedExactly`, `MetadataExact`, `FilesReadBack`: recursion over the
  contents of sequences, or folds; what these compute for every input is an induction over data.

## Not modelled

- Floating point: pixel kernels, matrices and curves of color transforms, blending, tone mapping, HLG, the final polynomial.
  What they compute is outside a model checker's reach; the recursive blur is the exception, since its algebra can be moved to a field of residues.
- lcms2, libpng, libjpeg, giflib, OpenEXR and libjxl are external; the modules that need them reduce them to what this code relies on.
- The writers of EXR and NPY files and the pixels of the JPEG writer, which wrap a library or a text header, and which neither the tool nor the C API calls.
- Chunks of a PNG for significant bits and transparency, the palettes of a GIF; the rows of an
  OpenEXR file whose data window differs from its display window.
- `BitWriter::TakeBytes`, moves of readers and writers.
- Headers left over from libjxl whose implementation is not in this tree (encoder, frame header, transform data), value types and macros, logging, build scripts.

Each of these is listed in `PROJECT.json` with its reason.

## Plan

The components that decide what is scored are modelled; those on the way from a PNG or GIF to a score are proved about, and so is what a picture says of its colors and in its headers. What is left, in the order of importance, are proofs:

1. *Bundles and markers:* planes and metadata together, for any number of frames; profiles in any number of markers.
2. *Decoders:* the invariants of `JxlDecode` and `ApngWriter` for files of any length.
3. *Images:* the pixels that operations on images promise, for images of any size.

Of the model itself, the alpha channel of GIF and the rows of OpenEXR files would come next.
