------------------------------ MODULE PaddedBytes ------------------------------
(***************************************************************************)
(* jxl::PaddedBytes (lib/jxl/base/padded_bytes.{h,cc}): the byte vector    *)
(* under BitWriter and the image encoders.  buf[o] is the object: its      *)
(* size_, its capacity_, and the memory it points to, the padding BitWriter*)
(* may write to included; no memory is the empty sequence.  A byte is      *)
(* zero, set to a value, or uninitialized.                                 *)
(*                                                                         *)
(* vec[o] is the std::vector the class stands in for: what the object must *)
(* hold, "any" where resize leaves the content open.                       *)
(***************************************************************************)
EXTENDS Integers, Sequences, SequencesExt

CONSTANTS
  Obj,          (* the objects                                             *)
  MaxSize,      (* bound on sizes and capacities asked for                 *)
  MinCapacity,  (* 64 in the code                                          *)
  Padding,      (* 8 in the code: bytes past the capacity                  *)
  MayFail       (* whether an allocation can fail                          *)

(* What the code assumes of them.                                          *)
Assumptions ==
  /\ MaxSize \in Nat
  /\ MinCapacity \in Nat \ {0}
  /\ Padding \in Nat \ {0}
  /\ MayFail \in BOOLEAN

Byte == {"zero", "set", "junk"}

VARIABLES
  buf,  (* the PaddedBytes objects                                         *)
  vec   (* history: the vectors they stand for                             *)

vars == <<buf, vec>>

(* Growing by half never takes more than half again of what was asked for. *)
MaxCapacity ==
  IF (3 * MaxSize) \div 2 > MinCapacity THEN (3 * MaxSize) \div 2 ELSE MinCapacity

TypeOK ==
  /\ buf \in [Obj -> [size : 0 .. MaxSize, capacity : 0 .. MaxCapacity,
                      data : Seq(Byte)]]
  /\ vec \in [Obj -> Seq({"zero", "set", "any"})]

Empty == [size |-> 0, capacity |-> 0, data |-> <<>>]

Init ==
  /\ buf = [o \in Obj |-> Empty]
  /\ vec = [o \in Obj |-> <<>>]

Larger(a, b) == IF a > b THEN a ELSE b

NewCapacity(b, capacity) ==
  Larger(MinCapacity, Larger(capacity, (3 * b.capacity) \div 2))

(* Mutant: the last byte is not copied.                                    *)
IncreaseCapacityShort(b, capacity, ok) ==
  LET n == NewCapacity(b, capacity)
  IN  IF ~ok THEN [b EXCEPT !.size = 0, !.capacity = 0]
      ELSE [size |-> b.size, capacity |-> n,
            data |-> [k \in 1 .. n + Padding |->
                       IF b.data # <<>> /\ k < b.size THEN b.data[k]
                       ELSE IF k = b.size + 1 THEN "zero" ELSE "junk"]]

(* IncreaseCapacityTo: the old memory is copied up to size_, and one byte  *)
(* after that, or the first byte of a first allocation, is cleared.  If    *)
(* the allocation fails size_ and capacity_ are reset and data_ is kept.   *)
IncreaseCapacityTo(b, capacity, ok) ==
  LET n == NewCapacity(b, capacity)
      first == b.data = <<>>
  IN  IF ~ok THEN [b EXCEPT !.size = 0, !.capacity = 0]
      ELSE [size |-> b.size, capacity |-> n,
            data |-> [k \in 1 .. n + Padding |->
                       CASE ~first /\ k <= b.size -> b.data[k]
                         [] k = (IF first THEN 1 ELSE b.size + 1) -> "zero"
                         [] OTHER -> "junk"]]

(* resize, and resize with a value for the new bytes.                      *)
Resized(b, n, ok) ==
  LET grown == IF n > b.capacity THEN IncreaseCapacityTo(b, n, ok) ELSE b
  IN  [grown EXCEPT !.size = IF grown.data = <<>> THEN 0 ELSE n]

Filled(b, from) ==
  [b EXCEPT !.data = [k \in DOMAIN b.data |->
     IF from < k /\ k <= b.size THEN "set" ELSE b.data[k]]]

(* memcpy or memmove of the bytes s to the position after from.            *)
Copied(b, from, s) ==
  [b EXCEPT !.data = [k \in DOMAIN b.data |->
     IF from < k /\ k <= from + Len(s) THEN s[k - from] ELSE b.data[k]]]

(* What the object holds, and the vector after a change of its size.       *)
Content(b) == SubSeq(b.data, 1, b.size)
Vec(v, n, fill) == [k \in 1 .. n |-> IF k <= Len(v) THEN v[k] ELSE fill]

(* Whether an allocation succeeds.                                         *)
Allocation == IF MayFail THEN BOOLEAN ELSE {TRUE}

-------------------------------------------------------------------------------
(* The operations.  A failed allocation is to discard all data.            *)
Set(o, b, v) ==
  /\ buf' = [buf EXCEPT ![o] = b]
  /\ vec' = [vec EXCEPT ![o] = v]

Reserve(o, n, ok) ==
  /\ n > buf[o].capacity
  /\ Set(o, IncreaseCapacityTo(buf[o], n, ok), IF ok THEN vec[o] ELSE <<>>)

Resize(o, n, ok) ==
  Set(o, Resized(buf[o], n, ok),
      IF ok \/ n <= buf[o].capacity THEN Vec(vec[o], n, "any") ELSE <<>>)

ResizeFilled(o, n, ok) ==
  Set(o, Filled(Resized(buf[o], n, ok), buf[o].size),
      IF ok \/ n <= buf[o].capacity THEN Vec(vec[o], n, "set") ELSE <<>>)

PushBack(o, ok) ==
  /\ buf[o].size < MaxSize
  /\ LET full == buf[o].size = buf[o].capacity
         b == IF full THEN IncreaseCapacityTo(buf[o], buf[o].capacity + 1, ok)
              ELSE buf[o]
     IN  IF b.data = <<>> THEN Set(o, b, <<>>)
         ELSE Set(o, Copied([b EXCEPT !.size = @ + 1], b.size, <<"set">>),
                  Append(IF full /\ ~ok THEN <<>> ELSE vec[o], "set"))

(* assign from bytes elsewhere: n bytes, all set.                          *)
AssignOutside(o, n, ok) ==
  LET s == [k \in 1 .. n |-> "set"]
  IN  Set(o, Copied(Resized(buf[o], n, ok), 0, s),
          IF ok \/ n <= buf[o].capacity THEN s ELSE <<>>)

(* assign from the object's own memory, bytes from + 1 .. to.              *)
AssignInside(o, from, to) ==
  /\ from < to
  /\ to <= buf[o].size
  /\ Set(o, Copied([buf[o] EXCEPT !.size = to - from], 0,
                   SubSeq(buf[o].data, from + 1, to)),
         SubSeq(vec[o], from + 1, to))

(* append: the bytes of another object.                                    *)
AppendFrom(o, p, ok) ==
  /\ o # p
  /\ buf[p].size > 0
  /\ buf[o].size + buf[p].size <= MaxSize
  /\ LET n == buf[o].size + buf[p].size
     IN  Set(o, Copied(Resized(buf[o], n, ok), buf[o].size, Content(buf[p])),
             IF ok \/ n <= buf[o].capacity THEN vec[o] \o vec[p] ELSE <<>>)

(* Copy assignment; self-assignment is safe.                               *)
CopyAssign(o, p, ok) ==
  LET n == buf[p].size
  IN  Set(o, Copied(Resized(buf[o], n, ok), 0, Content(buf[p])),
          IF ok \/ n <= buf[o].capacity THEN vec[p] ELSE <<>>)

(* Move assignment leaves the source empty.                                *)
MoveAssign(o, p) ==
  /\ o # p
  /\ buf' = [buf EXCEPT ![o] = buf[p], ![p] = Empty]
  /\ vec' = [vec EXCEPT ![o] = vec[p], ![p] = <<>>]

Swap(o, p) ==
  /\ o # p
  /\ buf' = [buf EXCEPT ![o] = buf[p], ![p] = buf[o]]
  /\ vec' = [vec EXCEPT ![o] = vec[p], ![p] = vec[o]]

(* The constructors, on an object that is empty.                           *)
Construct(o, n, ok) ==
  /\ buf[o] = Empty
  /\ n > 0
  /\ Set(o, IncreaseCapacityTo([Empty EXCEPT !.size = n], n, ok),
         IF ok THEN [k \in 1 .. n |-> "any"] ELSE <<>>)

CopyConstruct(o, p, ok) ==
  /\ o # p
  /\ buf[o] = Empty
  /\ buf[p].size > 0
  /\ LET b == IncreaseCapacityTo([Empty EXCEPT !.size = buf[p].size],
                                 buf[p].size, ok)
     IN  Set(o, Copied(b, 0, SubSeq(buf[p].data, 1, b.size)),
             IF ok THEN vec[p] ELSE <<>>)

Next ==
  \E o \in Obj, ok \in Allocation :
    \/ \E n \in 0 .. MaxSize :
         \/ Reserve(o, n, ok) \/ Resize(o, n, ok) \/ ResizeFilled(o, n, ok)
         \/ AssignOutside(o, n, ok) \/ Construct(o, n, ok)
    \/ \E from, to \in 0 .. MaxSize : AssignInside(o, from, to)
    \/ PushBack(o, ok)
    \/ \E p \in Obj :
         \/ AppendFrom(o, p, ok) \/ CopyAssign(o, p, ok) \/ MoveAssign(o, p)
         \/ Swap(o, p) \/ CopyConstruct(o, p, ok)

Spec == Init /\ [][Next]_vars

-------------------------------------------------------------------------------
(* The size never passes the capacity, and the memory holds the capacity   *)
(* and the padding BitWriter writes into without checking.                 *)
SizeWithinMemory ==
  \A o \in Obj :
    /\ buf[o].size <= buf[o].capacity
    /\ buf[o].capacity > 0 => Len(buf[o].data) >= buf[o].capacity + Padding

(* Across any sequence of growing, shrinking, copying, moving, swapping    *)
(* and overlapping assignments the object holds what a vector would.       *)
HoldsVector ==
  /\ SizeWithinMemory
  /\ \A o \in Obj :
       /\ buf[o].size = Len(vec[o])
       /\ \A k \in 1 .. buf[o].size :
            vec[o][k] # "any" => buf[o].data[k] = vec[o][k]

(* "If allocation fails, data() == nullptr and size_ = capacity_ = 0."     *)
FailureDiscards ==
  \A o \in Obj : buf[o].capacity = 0 => buf[o].data = <<>> /\ buf[o].size = 0
===============================================================================
