------------------------------ MODULE Foundations ------------------------------
(***************************************************************************)
(* Eight components that the rest of the program stands on, side by side:  *)
(* runners that need no thread, the allocator, the C functions that make   *)
(* and destroy runners, byte vectors, the two conversions of rows of       *)
(* pixels that the threads of a pool share: to another color space, and to *)
(* interleaved bytes; and the writer and the reader of bit streams.  They  *)
(* do not interact; a step is a step of one.                               *)
(***************************************************************************)
EXTENDS Integers

CONSTANTS
  M, Ranges, InitCode,                               (* SequentialRunner   *)
  Thread, Sizes, Bases, kAlignment, kAlias, Header,  (* CacheAligned       *)
  Offsets, MaxBlocks,
  Handles, Opaques,                                  (* RunnerHandles      *)
  Obj, MaxSize, MinCapacity, Padding,                (* PaddedBytes        *)
  RowThread, Rows, Spaces, Curves,                   (* ColorTransform     *)
  Requests, NumThreads, HostLittle,                  (* ExternalImage      *)
  Junk, Payloads, Spans, Allotments,                 (* BitWriter          *)
  MaxWritten, MaxBytes, MaxNest,
  Inputs, ReadLengths, SkipLengths, MaxOver          (* BitReader          *)

VARIABLES
  which,  (* the component a behaviour is about                            *)
  seqPc, runner, facade, range, i, told, refused, ret, status, calls,
  allocPc, block, prev, expected, live, counter, inUse, maxInUse, peak,
  mine, owner, object, log,
  buf, vec,
  c_current, desired, call, target, metadataBlack, hasBlack, color, t,
  nextRow, row, step, buf_src, buf_dst, ok, rowStatus, xyb,
  request, extPhase, channels, cache, task, left, pixels, delivered, reread,
  mem, used, room, bits, open, logical, charged, appended,
  data, word, inBuf, next, overread, checked, readStatus, wanted, got

seqVars == <<seqPc, runner, facade, range, i, told, refused, ret, status, calls>>
allocVars == <<allocPc, block, prev, expected, live, counter, inUse, maxInUse, peak>>
handleVars == <<mine, owner, object, log>>
bufVars == <<buf, vec>>
rowVars == <<c_current, desired, call, target, metadataBlack, hasBlack, color, t,
             nextRow, row, step, buf_src, buf_dst, ok, rowStatus, xyb>>
externalVars == <<request, extPhase, channels, cache, task, left, pixels, delivered, reread>>
writerVars == <<mem, used, room, bits, open, logical, charged, appended>>
readerVars == <<data, word, inBuf, next, overread, checked, readStatus, wanted, got>>
streamVars == <<writerVars, readerVars>>
foundationVars == <<seqVars, allocVars, handleVars, bufVars, rowVars, externalVars, streamVars>>

S == INSTANCE SequentialRunner WITH pc <- seqPc
A == INSTANCE CacheAligned WITH M <- Offsets, pc <- allocPc
H == INSTANCE RunnerHandles WITH block <- owner
B == INSTANCE PaddedBytes WITH MayFail <- FALSE
T == INSTANCE ColorTransform WITH Thread <- RowThread, status <- rowStatus
X == INSTANCE ExternalImage WITH phase <- extPhase, out <- pixels, calls <- delivered
W == INSTANCE BitWriter WITH size <- used, capacity <- room
R == INSTANCE BitReader WITH buf <- word, status <- readStatus

ASSUME FoundationsAssumption ==
  /\ S!Assumptions /\ A!Assumptions /\ H!Assumptions /\ B!Assumptions
  /\ T!Assumptions /\ X!Assumptions /\ W!Assumptions /\ R!Assumptions

FoundationsInit ==
  S!Init /\ A!Init /\ H!Init /\ B!Init /\ T!Init /\ X!Init /\ W!Init /\ R!Init

FoundationsNext ==
  \/ which = "runner" /\ S!Next
     /\ UNCHANGED <<allocVars, handleVars, bufVars, rowVars, externalVars, streamVars>>
  \/ which = "allocator" /\ A!Next
     /\ UNCHANGED <<seqVars, handleVars, bufVars, rowVars, externalVars, streamVars>>
  \/ which = "handles" /\ H!Next
     /\ UNCHANGED <<seqVars, allocVars, bufVars, rowVars, externalVars, streamVars>>
  \/ which = "bytes" /\ B!Next
     /\ UNCHANGED <<seqVars, allocVars, handleVars, rowVars, externalVars, streamVars>>
  \/ which = "rows" /\ T!Next
     /\ UNCHANGED <<seqVars, allocVars, handleVars, bufVars, externalVars, streamVars>>
  \/ which = "external" /\ X!Next
     /\ UNCHANGED <<seqVars, allocVars, handleVars, bufVars, rowVars, streamVars>>
  \/ which = "writer" /\ W!Next
     /\ UNCHANGED <<seqVars, allocVars, handleVars, bufVars, rowVars, externalVars, readerVars>>
  \/ which = "reader" /\ R!Next
     /\ UNCHANGED <<seqVars, allocVars, handleVars, bufVars, rowVars, externalVars, writerVars>>

FoundationsSpec == FoundationsInit /\ [][FoundationsNext /\ which' = which]_<<which, foundationVars>>

(* Stated and explained in the modules of the components, and joined with  *)
(* the types of their state.                                               *)
SuccessIsComplete == which = "runner" => S!TypeOK /\ S!SuccessIsComplete
AllocatorSound ==
  /\ which = "allocator" => A!TypeOK /\ A!InUseIsExact /\ A!MaxIsPeak /\ A!LayoutSound
  /\ which = "handles" => H!TypeOK /\ H!MemoryReturned
HoldsVector == which = "bytes" => B!TypeOK /\ B!HoldsVector
ConversionExact == which = "rows" => T!ConversionExact
RowsDelivered ==
  which = "external" => X!TypeOK /\ X!RowsDelivered /\ X!ReadBackExact
WriterExact == which = "writer" => W!TypeOK /\ W!WriterExact /\ W!BitsChargedOnce
ReaderExact == which = "reader" => R!TypeOK /\ R!ReaderExact /\ R!OverreadReported
===============================================================================
