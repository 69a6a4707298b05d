---------------------------- MODULE ExternalImage ----------------------------
(***************************************************************************)
(* ConvertToExternal (src/lib/jxl/dec_external_image.cc): the threads of a  *)
(* pool turn the rows of an image bundle into interleaved bytes, with the   *)
(* orientation undone and, on request, color divided by alpha.  Rows go to  *)
(* one buffer or, through a buffer of each thread, to a callback.  Integers *)
(* and 16-bit floats take a detour through rows of a cache that all threads *)
(* share, num_channels rows each.  ConvertFromExternal reads the buffer     *)
(* back.                                                                    *)
(***************************************************************************)
EXTENDS Samples

CONSTANTS Requests,   \* the calls, see RequestShape
          NumThreads, \* num_threads that the pool tells
          HostLittle  \* IsLittleEndian

VARIABLES request,
          phase,     \* "begin", "rows", "done", "refused", "reread"
          channels,  \* the planes, in the order they are interleaved
          cache,     \* u32_cache or f16_cache: row number to scaled samples
          task,      \* the row a thread is at, or -1
          left,      \* the rows no thread has taken
          out,       \* the buffer
          calls,     \* what the callback was given of each row, in turn
          reread     \* the planes read back

vars == <<request, phase, channels, cache, task, left, out, calls, reread>>

(* slack is what the caller gives on top of (or below) the right size of a  *)
(* row; init_ok whether the init callback returns something.  The number of *)
(* bits is checked with JXL_CHECK.                                          *)
RequestShape ==
  {r \in [xsize : Nat \ {0}, ysize : Nat \ {0}, num_channels : 1 .. 4,
          data_type : {"uint8", "uint16", "float16", "float"}, bits : 1 .. 32,
          endianness : {"big", "little", "native"}, orientation : 1 .. 8,
          alpha : BOOLEAN, premultiplied : BOOLEAN, unpremul : BOOLEAN,
          buffer : BOOLEAN, callback : BOOLEAN, init_ok : BOOLEAN,
          align : Nat, slack : Int, missing : Nat] :
     IF IsFloat(r.data_type) THEN r.bits = BitsPerChannel(r.data_type)
                             ELSE r.bits <= 16}

Assumptions ==
  Requests \subseteq RequestShape /\ NumThreads \in Nat \ {0} /\ HostLittle \in BOOLEAN

Threads == 0 .. NumThreads - 1

-----------------------------------------------------------------------------
(* UndoOrientation: where a sample goes, and the size of the result.        *)
Undone(orientation, w, h, y, x) ==
  CASE orientation = 1 -> <<y, x>>
    [] orientation = 2 -> <<y, w - x - 1>>
    [] orientation = 3 -> <<h - y - 1, w - x - 1>>
    [] orientation = 4 -> <<h - y - 1, x>>
    [] orientation = 5 -> <<x, y>>
    [] orientation = 6 -> <<x, h - y - 1>>
    [] orientation = 7 -> <<w - x - 1, h - y - 1>>
    [] orientation = 8 -> <<w - x - 1, y>>
Transposed(orientation) == orientation >= 5

UndoOrientation(orientation, plane, w, h) ==
  LET size == IF Transposed(orientation) THEN <<h, w>> ELSE <<w, h>>
      from(p) == CHOOSE q \in Positions(w, h) :
                   Undone(orientation, w, h, q[1], q[2]) = p
  IN  [p \in Positions(size[1], size[2]) |-> plane[from(p)]]

(* The chosen planes: one or three colors, and alpha if the number of       *)
(* channels asks for it; a plane that the bundle lacks is all ones.         *)
ColorChannels(r) == IF r.num_channels <= 2 THEN 1 ELSE 3
WantAlpha(r) == r.num_channels \in {2, 4}
UnpremultiplyAlpha(plane) ==
  [p \in DOMAIN plane |-> [plane[p] EXCEPT ![4] = @ - 1]]

Color(r, c) ==
  LET plane == Plane(c, r.xsize, r.ysize, IF r.premultiplied THEN 1 ELSE 0)
  IN  IF r.premultiplied /\ r.alpha /\ r.unpremul THEN UnpremultiplyAlpha(plane)
                                                  ELSE plane
Alpha(r) == IF r.alpha THEN Plane(3, r.xsize, r.ysize, 0)
            ELSE [p \in Positions(r.xsize, r.ysize) |-> One]
Chosen(r) == [i \in 1 .. r.num_channels |->
                IF i <= ColorChannels(r) THEN Color(r, i - 1) ELSE Alpha(r)]

Width(r) == IF Transposed(r.orientation) THEN r.ysize ELSE r.xsize
Height(r) == IF Transposed(r.orientation) THEN r.xsize ELSE r.ysize
Stored(r) == Scale(IsFloat(r.data_type), r.bits)
RowBytes(r) == (Width(r) * r.num_channels) * BytesOf(r.bits)
Lines(r) == 0 .. Height(r) - 1

(* What the caller hands over.                                              *)
Stride(r) ==
  CalcStride(Width(r), r.num_channels, r.data_type, r.align) + r.slack
OutSize(r) == (Stride(r) * Height(r)) - r.missing

Little(r) == IsLittle(r.endianness, HostLittle)

-----------------------------------------------------------------------------
Init ==
  /\ request \in Requests
  /\ phase = "begin"
  /\ channels = <<>>
  /\ cache = <<>>
  /\ task = [t \in Threads |-> -1]
  /\ left = {}
  /\ out = <<>>
  /\ calls = {}
  /\ reread = <<>>

(* A buffer or a callback, not both; rows and buffer large enough; the init *)
(* callback, which comes last, may refuse.                                  *)
Refused(r) ==
  \/ r.buffer = r.callback
  \/ Stride(r) < RowBytes(r)
  \/ ~r.callback /\ OutSize(r) < ((Height(r) - 1) * Stride(r)) + RowBytes(r)
  \/ r.callback /\ ~r.init_ok

Refuse ==
  /\ phase = "begin" /\ Refused(request)
  /\ phase' = "refused"
  /\ UNCHANGED <<request, channels, cache, task, left, out, calls, reread>>

Begin ==
  /\ phase = "begin" /\ ~Refused(request)
  /\ phase' = "rows"
  /\ channels' = [i \in 1 .. request.num_channels |->
                    UndoOrientation(request.orientation, Chosen(request)[i],
                                    request.xsize, request.ysize)]
  /\ cache' = [i \in 0 .. (request.num_channels * NumThreads) - 1 |-> <<>>]
  /\ left' = Lines(request)
  /\ out' = [i \in 1 .. (IF request.buffer THEN OutSize(request) ELSE 0) |->
               Unset]
  /\ calls' = [y \in Lines(request) |-> <<>>]
  /\ UNCHANGED <<request, task, reread>>

Row(plane, y) == [x \in 0 .. Width(request) - 1 |-> plane[<<y, x>>]]
\* All threads convert into the first rows of the cache.
CacheRow_M(c, t) == c
CacheRow(c, t) == c + (t * request.num_channels)

(* A thread takes a row and converts its samples into its part of the cache.*)
TakeRow(t) ==
  /\ phase = "rows" /\ task[t] = -1
  /\ \E y \in left :
       /\ task' = [task EXCEPT ![t] = y]
       /\ left' = left \ {y}
       /\ cache' = [i \in DOMAIN cache |->
                      IF i - CacheRow(0, t) \in 0 .. request.num_channels - 1
                      THEN Row(channels[(i - CacheRow(0, t)) + 1], y)
                      ELSE cache[i]]
  /\ UNCHANGED <<request, phase, channels, out, calls, reread>>

(* It interleaves them, from the cache or, for 32-bit floats, straight from *)
(* the planes.                                                              *)
SampleRow(t, c) ==
  IF request.data_type = "float" THEN Row(channels[c + 1], task[t])
                                 ELSE cache[CacheRow(c, t)]
\* StoreUintRow and StoreFloatRow: one sample after the other.
StoreRow(samples, count, scale, little) ==
  LET n == BytesOf(scale.bits)
  IN  [b \in 1 .. count * n |->
         StoreSample(samples[(b - 1) \div n], scale, little)[((b - 1) % n) + 1]]
Interleaved(t) ==
  LET n == request.num_channels
  IN  StoreRow([i \in 0 .. (Width(request) * n) - 1 |-> SampleRow(t, i % n)[i \div n]],
               Width(request) * n, Stored(request), Little(request))

EmitRow(t) ==
  /\ phase = "rows" /\ task[t] # -1
  /\ task' = [task EXCEPT ![t] = -1]
  /\ LET first == Stride(request) * task[t]
         bytes == Interleaved(t)
     IN  IF request.callback
         THEN /\ calls' = [calls EXCEPT ![task[t]] = Append(@, bytes)]
              /\ UNCHANGED out
         ELSE /\ out' = [i \in DOMAIN out |->
                           IF i - first \in DOMAIN bytes THEN bytes[i - first]
                                                         ELSE out[i]]
              /\ UNCHANGED calls
  /\ UNCHANGED <<request, phase, channels, cache, left, reread>>

Finish ==
  /\ phase = "rows" /\ left = {} /\ \A t \in Threads : task[t] = -1
  /\ phase' = "done"
  /\ UNCHANGED <<request, channels, cache, task, left, out, calls, reread>>

(* The buffer is read back into a bundle with the same channels, if its     *)
(* rows are apart as their alignment says, which is all the reader is told. *)
ReadBack ==
  /\ phase = "done" /\ request.buffer
  /\ Stride(request) = Aligned(RowBytes(request), request.align)
  /\ phase' = "reread"
  /\ reread' = FromExternal(out, Width(request), Height(request),
                 ColorChannels(request), request.num_channels, Stored(request),
                 Little(request), request.align, request.alpha)
  /\ UNCHANGED <<request, channels, cache, task, left, out, calls>>

Next == \/ Refuse \/ Begin \/ Finish \/ ReadBack
        \/ \E t \in Threads : TakeRow(t) \/ EmitRow(t)

-----------------------------------------------------------------------------
TypeOK ==
  /\ phase \in {"begin", "rows", "done", "refused", "reread"}
  /\ task \in [Threads -> Lines(request) \cup {-1}]
  /\ left \subseteq Lines(request)

(* The picture as it is meant to be seen, from what an orientation says of  *)
(* the sides at which the first row and the first column of the stored      *)
(* picture belong (JxlOrientation).                                         *)
FirstRowAt == <<"top", "top", "bottom", "bottom", "left", "right", "right", "left">>
FirstColumnAt == <<"left", "right", "right", "left", "top", "top", "bottom", "bottom">>
Seen(r, y, x) ==
  LET from(side) == CASE side = "top" -> y [] side = "left" -> x
                      [] side = "bottom" -> Height(r) - 1 - y
                      [] side = "right" -> Width(r) - 1 - x
  IN  <<from(FirstRowAt[r.orientation]), from(FirstColumnAt[r.orientation])>>

SeenSample(r, i, y, x) ==
  LET p == Seen(r, y, x)
      m == IF r.premultiplied /\ ~(r.alpha /\ r.unpremul) THEN 1 ELSE 0
  IN  CASE i <= ColorChannels(r) -> <<i - 1, p[1], p[2], m>>
        [] i > ColorChannels(r) -> IF r.alpha THEN <<3, p[1], p[2], 0>> ELSE One

SeenRow(r, y) ==
  LET n == r.num_channels
  IN  StoreRow([i \in 0 .. (Width(r) * n) - 1 |-> SeenSample(r, (i % n) + 1, y, i \div n)],
               Width(r) * n, Stored(r), Little(r))

(* When the call returns, every row of the picture as it is meant to be     *)
(* seen has been delivered exactly once and whole, however the threads      *)
(* interleaved: to its place in the buffer, whose padding is untouched, or  *)
(* to the callback (dec_external_image.cc:111-205, 327-447).                *)
Placed(y) ==
  LET first == Stride(request) * y
  IN  /\ first + RowBytes(request) \in DOMAIN out
      /\ \A i \in 1 .. Stride(request) :
           first + i \in DOMAIN out =>
             out[first + i] = IF i <= RowBytes(request) THEN SeenRow(request, y)[i] ELSE Unset
RowsDelivered ==
  phase \in {"done", "reread"} =>
    \A y \in Lines(request) :
      IF request.callback THEN calls[y] = <<SeenRow(request, y)>> ELSE Placed(y)

(* What is read back is what was written: the colors (one plane three times *)
(* for a gray picture), and alpha when the bundle has it, opaque if the     *)
(* buffer had none (enc_external_image.cc:196-389).                         *)
ReadBackExact ==
  phase = "reread" =>
    /\ Len(reread) = IF request.alpha THEN 4 ELSE 3
    /\ \A p \in DOMAIN reread[1] :
         /\ \A c \in 1 .. 3 :
              reread[c][p] = SeenSample(request,
                               IF ColorChannels(request) = 1 THEN 1 ELSE c,
                               p[1], p[2])
         /\ request.alpha =>
              reread[4][p] = IF WantAlpha(request)
                             THEN SeenSample(request, request.num_channels, p[1], p[2])
                             ELSE One
=============================================================================
