----------------------------- MODULE BitWriter -----------------------------
(***************************************************************************)
(* BitWriter (src/lib/jxl/enc_bit_writer): appends fields of bits to a      *)
(* PaddedBytes whose size is managed by nested allotments.                  *)
(*                                                                         *)
(* Memory, a word, a field and a string of bytes are the sets of the        *)
(* numbers of their bits that are one, from the least significant one of    *)
(* the first byte on; a little-endian store keeps that order.  Growing the  *)
(* storage exposes bytes of any content, while Write ors its first byte:    *)
(* the code keeps the next byte to be written zero.                         *)
(***************************************************************************)
EXTENDS Integers, SequencesExt

CONSTANTS MinCapacity, \* least capacity PaddedBytes allocates
          Junk,        \* contents that uninitialised memory may have
          Payloads,    \* the fields to write: number of bits and value
          Spans,       \* the strings to append: number of bytes and ones
          Allotments,  \* the max_bits a client may ask for
          MaxWritten,  \* bound on the bits written in a behaviour
          MaxBytes,    \* bound on size_, which grows by empty allotments too
          MaxNest      \* bound on nested allotments

kBitsPerByte == 8
kMaxBitsPerCall == 56
kPadding == 8          \* bytes past the capacity, and bytes in a word

Assumptions ==
  /\ MinCapacity \in Nat /\ MaxWritten \in Nat /\ MaxBytes \in Nat /\ MaxNest \in Nat
  /\ \A junk \in Junk : junk \subseteq Nat
  /\ \A field \in Payloads :
       field.n \in 1 .. kMaxBitsPerCall /\ field.ones \subseteq 0 .. field.n - 1
  /\ \A span \in Spans :
       span.size \in Nat /\ span.ones \subseteq 0 .. (kBitsPerByte * span.size) - 1
  /\ Allotments \subseteq Nat

VARIABLES mem, size, capacity, \* storage_: memory, size_ and capacity_
          bits,                \* bits_written_
          open,                \* the allotments in use, innermost last
          logical,             \* every one ever written or appended
          charged,             \* used bits reported by the reclaims so far
          appended             \* bits appended from other writers

vars == <<mem, size, capacity, bits, open, logical, charged, appended>>

DivCeil(a, b) == (a + b - 1) \div b
ByteOf(p) == p \div kBitsPerByte
BitsOf(bytes) == 0 .. (kBitsPerByte * bytes) - 1
(* The ones of s from bit number p on.                                      *)
At(p, s) == {p + b : b \in s}

Init ==
  /\ mem = {} /\ size = 0 /\ capacity = 0
  /\ bits = 0 /\ open = <<>>
  /\ logical = {} /\ charged = 0 /\ appended = 0

(* PaddedBytes::resize: only a reallocation clears a byte, the first after  *)
(* the old contents.                                                        *)
NewCapacity(n) ==
  LET least == IF n > (3 * capacity) \div 2 THEN n ELSE (3 * capacity) \div 2
  IN  IF least > MinCapacity THEN least ELSE MinCapacity
Grown(n, junk) ==
  IF n <= capacity THEN [mem |-> mem, capacity |-> capacity]
  ELSE [capacity |-> NewCapacity(n),
        mem |-> {p \in mem : ByteOf(p) < size}
                  \cup {p \in BitsOf(NewCapacity(n) + kPadding) :
                          ByteOf(p) > size /\ p \in junk}]

Resize(n) ==
  /\ size' = n
  /\ \E junk \in Junk :
       mem' = Grown(n, junk).mem /\ capacity' = Grown(n, junk).capacity

-----------------------------------------------------------------------------
(* Allotment::Allotment.                                                    *)
Allot(max) ==
  /\ Len(open) < MaxNest
  /\ size + DivCeil(max, kBitsPerByte) <= MaxBytes
  /\ Resize(size + DivCeil(max, kBitsPerByte))
  /\ open' = Append(open, [prev |-> bits, max |-> max])
  /\ UNCHANGED <<bits, logical, charged, appended>>

Used(allotment) == bits - allotment.prev

(* Write: the field is or'ed to the first byte, and the word stored over    *)
(* that byte and the seven after it, whatever the length of the field.  The *)
(* client stays within its innermost allotment.                             *)
\* The first byte is not read.
StoreWord_M(v) ==
  LET first == ByteOf(bits)
  IN  mem' = {p \in mem : ByteOf(p) \notin first .. first + kPadding - 1} \cup At(bits, v)
StoreWord(v) ==
  LET first == ByteOf(bits)
  IN  mem' = {p \in mem : ByteOf(p) \notin first + 1 .. first + kPadding - 1} \cup At(bits, v)

PutBits(n, v) ==
  /\ StoreWord(v)
  /\ bits' = bits + n
  /\ logical' = logical \cup At(bits, v)
  /\ UNCHANGED <<size, capacity, open, charged, appended>>

Write(field) ==
  /\ open # <<>>
  /\ Used(Last(open)) + field.n <= Last(open).max
  /\ bits + field.n <= MaxWritten
  /\ PutBits(field.n, field.ones)

ZeroPadToByte ==
  LET remainder == (kBitsPerByte * DivCeil(bits, kBitsPerByte)) - bits
  IN  /\ open # <<>>
      /\ remainder > 0
      /\ Used(Last(open)) + remainder <= Last(open).max
      /\ PutBits(remainder, {})

(* Allotment::PrivateReclaim.                                               *)
UnusedBytes(allotment) == (allotment.max - Used(allotment)) \div kBitsPerByte

\* Parents are charged for the bits of their children again.
Parents_M(used) == Front(open)
Parents(used) == [k \in 1 .. Len(open) - 1 |->
                    [open[k] EXCEPT !.prev = @ + used]]

ReclaimUnused ==
  /\ open # <<>>
  /\ size' = size - UnusedBytes(Last(open))
  /\ open' = Parents(Used(Last(open)))
  /\ charged' = charged + Used(Last(open))
  /\ UNCHANGED <<mem, capacity, bits, logical, appended>>

(* AppendByteAligned: the bytes of another writer, or of several, already   *)
(* charged there; and the zero byte for the next Write.                     *)
\* The zero byte is forgotten.
Appended_M(memory, span) ==
  {p \in memory : ByteOf(p) \notin ByteOf(bits) .. ByteOf(bits) + span.size - 1}
    \cup At(bits, span.ones)
Appended(memory, span) ==
  {p \in memory : ByteOf(p) \notin ByteOf(bits) .. ByteOf(bits) + span.size}
    \cup At(bits, span.ones)

AppendByteAligned(span) ==
  /\ span.size > 0
  /\ open = <<>>
  /\ bits % kBitsPerByte = 0
  /\ bits + (kBitsPerByte * span.size) <= MaxWritten
  /\ size + span.size < MaxBytes
  /\ size' = size + span.size + 1
  /\ \E junk \in Junk :
       LET new == Grown(size', junk)
       IN  mem' = Appended(new.mem, span) /\ capacity' = new.capacity
  /\ bits' = bits + (kBitsPerByte * span.size)
  /\ logical' = logical \cup At(bits, span.ones)
  /\ appended' = appended + (kBitsPerByte * span.size)
  /\ UNCHANGED <<open, charged>>

Next ==
  \/ \E max \in Allotments : Allot(max)
  \/ \E field \in Payloads : Write(field)
  \/ ZeroPadToByte
  \/ ReclaimUnused
  \/ \E span \in Spans : AppendByteAligned(span)

-----------------------------------------------------------------------------
(* No word is stored past the padding of the storage.                       *)
TypeOK ==
  /\ size \in 0 .. capacity
  /\ mem \subseteq BitsOf(capacity + kPadding)
  /\ bits \in 0 .. kBitsPerByte * size
  /\ \A k \in DOMAIN open :
       LET own == IF k = Len(open) THEN bits ELSE open[k + 1].prev
       IN  own - open[k].prev \in 0 .. open[k].max

(* The bytes hold what was written, bit by bit, and the unwritten bits of   *)
(* the byte that the next Write ors into are zero - across reallocation,    *)
(* which keeps only size_ bytes, reclaims, which shrink size_, and appends, *)
(* which do not go through Write (enc_bit_writer.cc:160-173).               *)
WriterExact ==
  {p \in mem : ByteOf(p) <= ByteOf(bits)} = logical

(* "Ensure we don't also charge the parent for these bits": whenever no     *)
(* allotment is open, each bit has been charged exactly once or belongs to  *)
(* an append (enc_bit_writer.cc:57-63).                                     *)
BitsChargedOnce == open = <<>> => charged + appended = bits
=============================================================================
