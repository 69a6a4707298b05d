----------------------------- MODULE CacheAligned -----------------------------
(***************************************************************************)
(* jxl::CacheAligned (lib/jxl/base/cache_aligned.{h,cc}): aligned blocks   *)
(* carved out of malloc'ed memory with a header just before the payload,   *)
(* offsets that cycle to avoid aliasing, and three statistics kept with    *)
(* atomics by all threads at once.                                         *)
(*                                                                         *)
(* Each atomic access is an action.  Of an address only its residue        *)
(* modulo kAlias matters; malloc keeps different blocks apart.             *)
(* num_allocations, which is only counted and printed, is left out.        *)
(***************************************************************************)
EXTENDS Integers, FiniteSets, FiniteSetsExt

CONSTANTS
  Thread,        (* threads that allocate and free                         *)
  Sizes,         (* payload sizes they ask for                             *)
  Bases,         (* residues modulo kAlias malloc may return               *)
  kAlignment,    (* 128 in the code                                        *)
  kAlias,        (* 2048 in the code                                       *)
  Header,        (* sizeof(AllocationHeader)                               *)
  M,             (* 2^32 in the code: the values of the offset counter     *)
  MaxBlocks      (* bound on the blocks that exist at one time             *)

(* What the code assumes of them.  sizeof(AllocationHeader) is 16 bytes    *)
(* and a vector: 80 with AVX-512; with SVE or RVV it may exceed kAlignment *)
(* (cache_aligned.cc:74).                                                  *)
Assumptions ==
  /\ IsFiniteSet(Thread) /\ MaxBlocks \in Nat
  /\ Sizes \subseteq Nat
  /\ kAlignment \in Nat \ {0}
  /\ kAlias \in Nat \ {0} /\ kAlias % kAlignment = 0
  /\ Bases \subseteq 0 .. kAlias - 1
  /\ Header \in Nat \ {0}
  /\ M \in Nat \ {0} /\ M % (kAlias \div kAlignment) = 0

VARIABLES
  pc,         (* program counter of each thread                            *)
  block,      (* the block a thread is allocating or freeing               *)
  prev,       (* prev_bytes in each thread                                 *)
  expected,   (* expected_max in each thread                               *)
  live,       (* blocks given to callers                                   *)
  counter,    (* NextOffset's next                                         *)
  inUse,      (* bytes_in_use                                              *)
  maxInUse,   (* max_bytes_in_use                                          *)
  peak        (* history: the largest value bytes_in_use ever had          *)

stats == <<counter, inUse, maxInUse, peak>>
vars == <<pc, block, prev, expected, live, stats>>

NoBlock == [base |-> 0, offset |-> 0, size |-> 0, allocated |-> 0, payload |-> 0]

Block == [base : Bases \cup {0}, offset : Nat,
          size : Sizes \cup {0}, allocated : Nat, payload : Nat]

TypeOK ==
  /\ pc \in [Thread -> {"idle", "malloc", "bytes", "load", "cas", "done"}]
  /\ block \in [Thread -> Block]
  /\ prev \in [Thread -> Nat] /\ expected \in [Thread -> Nat]
  /\ \A l \in live : l.block \in Block /\ l.id \in 1 .. MaxBlocks
  /\ counter \in 0 .. M - 1
  /\ inUse \in Nat /\ maxInUse \in Nat /\ peak \in Nat

Init ==
  /\ pc = [t \in Thread |-> "idle"]
  /\ block = [t \in Thread |-> NoBlock]
  /\ prev = [t \in Thread |-> 0]
  /\ expected = [t \in Thread |-> 0]
  /\ live = {}
  /\ counter = 0 /\ inUse = 0 /\ maxInUse = 0 /\ peak = 0

RoundUpTo(x, to) == ((x + to - 1) \div to) * to

(* NextOffset: one of the kAlias / kAlignment groups in turn.              *)
NextOffset(c) == kAlignment * (c % (kAlias \div kAlignment))

Busy == {t \in Thread : pc[t] # "idle"}

(* Allocate: the offset is taken, and 0 replaced to make room for a header *)
TakeOffset(t, size) ==
  /\ pc[t] = "idle"
  /\ Cardinality(live) + Cardinality(Busy) < MaxBlocks
  /\ counter' = (counter + 1) % M
  /\ LET offset == NextOffset(counter)
     IN  block' = [block EXCEPT ![t] =
           [NoBlock EXCEPT !.size = size, 
              !.offset = IF offset = 0 THEN RoundUpTo(Header, kAlignment) ELSE offset]]
  /\ pc' = [pc EXCEPT ![t] = "malloc"]
  /\ UNCHANGED <<prev, expected, live, inUse, maxInUse, peak>>

MallocFails(t) ==
  /\ pc[t] = "malloc"
  /\ pc' = [pc EXCEPT ![t] = "idle"]
  /\ block' = [block EXCEPT ![t] = NoBlock]
  /\ UNCHANGED <<prev, expected, live, stats>>

(* Bytes to ask malloc for, and where the payload starts in them: the      *)
(* address rounded up past kAlias, plus the offset.                        *)
AllocatedSize(b) == kAlias + b.offset + b.size
PayloadAt(b, base) == ((base + kAlias) \div kAlias) * kAlias + b.offset

Malloc(t, base) ==
  /\ pc[t] = "malloc"
  /\ block' = [block EXCEPT ![t].base = base,
                            ![t].allocated = AllocatedSize(block[t]),
                            ![t].payload = PayloadAt(block[t], base)]
  /\ pc' = [pc EXCEPT ![t] = "bytes"]
  /\ UNCHANGED <<prev, expected, live, stats>>

CountBytes(t) ==
  /\ pc[t] = "bytes"
  /\ prev' = [prev EXCEPT ![t] = inUse]
  /\ inUse' = inUse + block[t].allocated
  /\ peak' = IF inUse' > peak THEN inUse' ELSE peak
  /\ pc' = [pc EXCEPT ![t] = "load"]
  /\ UNCHANGED <<block, expected, live, counter, maxInUse>>

LoadMax(t) ==
  /\ pc[t] = "load"
  /\ expected' = [expected EXCEPT ![t] = maxInUse]
  /\ pc' = [pc EXCEPT ![t] = "cas"]
  /\ UNCHANGED <<block, prev, live, stats>>

Desired(t) ==
  LET bytes == prev[t] + block[t].allocated
  IN  IF expected[t] > bytes THEN expected[t] ELSE bytes

(* Mutant: a plain store instead of the compare-and-exchange.              *)
StoreMax(t) ==
  /\ pc[t] = "cas"
  /\ maxInUse' = Desired(t)
  /\ pc' = [pc EXCEPT ![t] = "done"]
  /\ UNCHANGED <<block, prev, expected, live, counter, inUse, peak>>

CasSucceeds(t) ==
  /\ pc[t] = "cas"
  /\ maxInUse = expected[t]
  /\ maxInUse' = Desired(t)
  /\ pc' = [pc EXCEPT ![t] = "done"]
  /\ UNCHANGED <<block, prev, expected, live, counter, inUse, peak>>

CasFails(t) ==
  /\ pc[t] = "cas"
  /\ maxInUse # expected[t]
  /\ expected' = [expected EXCEPT ![t] = maxInUse]
  /\ UNCHANGED <<pc, block, prev, live, stats>>

(* The block is the caller's; equal blocks are told apart by a number.     *)
AllocateReturns(t) ==
  /\ pc[t] = "done"
  /\ live' = live \cup {[block |-> block[t], id |-> CHOOSE k \in 1 .. MaxBlocks :
                           \A l \in live : l.id # k]}
  /\ block' = [block EXCEPT ![t] = NoBlock]
  /\ prev' = [prev EXCEPT ![t] = 0]
  /\ expected' = [expected EXCEPT ![t] = 0]
  /\ pc' = [pc EXCEPT ![t] = "idle"]
  /\ UNCHANGED stats

(* Mutant: the payload's size is given back, not the allocation's.         *)
FreePayload(t, l) ==
  /\ pc[t] = "idle"
  /\ live' = live \ {l}
  /\ inUse' = inUse - l.block.size
  /\ UNCHANGED <<pc, block, prev, expected, counter, maxInUse, peak>>

(* Free: the header's size is subtracted; any thread may free any block.   *)
Free(t, l) ==
  /\ pc[t] = "idle"
  /\ live' = live \ {l}
  /\ inUse' = inUse - l.block.allocated
  /\ UNCHANGED <<pc, block, prev, expected, counter, maxInUse, peak>>

AllocateStep(t) ==
  \/ MallocFails(t)
  \/ \E base \in Bases : Malloc(t, base)
  \/ CountBytes(t)
  \/ LoadMax(t) \/ CasSucceeds(t) \/ CasFails(t)
  \/ AllocateReturns(t)

Next ==
  \E t \in Thread :
    \/ \E size \in Sizes : TakeOffset(t, size)
    \/ AllocateStep(t)
    \/ \E l \in live : Free(t, l)

Spec == Init /\ [][Next]_vars

-------------------------------------------------------------------------------
(* bytes_in_use is the sum of the allocated sizes of the live blocks and   *)
(* of those being allocated whose thread has counted them.                 *)
Counted == {t \in Thread : pc[t] \in {"load", "cas", "done"}}

InUseIsExact ==
  inUse = MapThenSumSet(LAMBDA l : l.block.allocated, live)
          + MapThenSumSet(LAMBDA t : block[t].allocated, Counted)

(* max_bytes_in_use never exceeds what was in use at one time, and is that *)
(* peak whenever no thread is on its way to record it: no lost update.     *)
MaxIsPeak ==
  /\ maxInUse <= peak
  /\ (\A t \in Thread : pc[t] \notin {"load", "cas"}) => maxInUse = peak

(* The payload is aligned and lies inside the malloc'ed block, and so does *)
(* the header before it whenever the offset leaves it room.  An offset of  *)
(* 0 is replaced by one that does; the other groups' offsets, kAlignment   *)
(* bytes and more, are taken as they are and leave room for a header of up *)
(* to kAlignment bytes.  A larger one, which the code reckons with, is     *)
(* written below a block whose address happens to be rounded up by little. *)
LayoutSound ==
  \A l \in live :
    LET b == l.block
    IN  /\ b.payload % kAlignment = 0
        /\ b.payload + b.size <= b.base + b.allocated
        /\ Header <= b.offset => b.payload - Header > b.base
        /\ Header <= kAlignment => Header <= b.offset
===============================================================================
