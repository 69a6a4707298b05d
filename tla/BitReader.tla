----------------------------- MODULE BitReader -----------------------------
(***************************************************************************)
(* BitReader (src/lib/jxl/dec_bit_reader.h): reads bits through a buffer    *)
(* of 64 that is refilled a word at a time, and with zeros past the end.    *)
(*                                                                         *)
(* Bits are numbered from the least significant one of the first byte on;   *)
(* a word, and the input, is the set of the numbers of its bits that are    *)
(* one.  A little-endian load keeps the order of the bits, so or, and, and  *)
(* the shifts are operations on sets of numbers.                            *)
(***************************************************************************)
EXTENDS Integers

CONSTANTS Inputs,      \* the inputs, as records of total bytes and ones
          ReadLengths, \* the numbers of bits a client reads at once
          SkipLengths, \* and skips at once
          MaxOver      \* bound on the bits requested past the end

kBitsPerByte == 8
kWordBits == 64
kMaxBitsPerCall == 56

Assumptions ==
  /\ \A input \in Inputs :
       /\ input.total \in Nat
       /\ input.ones \subseteq 0 .. (kBitsPerByte * input.total) - 1
  /\ ReadLengths \subseteq 0 .. kMaxBitsPerCall
  /\ SkipLengths \subseteq Nat
  /\ MaxOver \in Nat

VARIABLES data,      \* the input
          buf,       \* buf_: bits not yet consumed, and some not yet counted
          inBuf,     \* bits_in_buf_
          next,      \* next_byte_ - first_byte_
          overread,  \* overread_bytes_
          checked,   \* checked_out_of_bounds_bits_
          status,    \* "open", or what Close returned
          wanted,    \* bits the client has asked for
          got        \* what the latest call read: position, number of bits, value

vars == <<data, buf, inBuf, next, overread, checked, status, wanted, got>>

Min(a, b) == IF a < b THEN a ELSE b

Reader == [buf |-> buf, inBuf |-> inBuf, next |-> next, overread |-> overread]
Becomes(r) == /\ buf' = r.buf /\ inBuf' = r.inBuf
              /\ next' = r.next /\ overread' = r.overread

Total == data.total
TotalBits == kBitsPerByte * Total

(* The n bits from number p on.  Of the input these are what any reader is  *)
(* to deliver, with zeros past the end.                                     *)
BitsAt(ones, p, n) == {b \in 0 .. n - 1 : p + b \in ones}

-----------------------------------------------------------------------------
(* A load of so many bytes, shifted above bits_in_buf_ and or'ed in; only   *)
(* 64 bits remain.                                                          *)
Loaded(r, bytes) == BitsAt(data.ones, kBitsPerByte * r.next, kBitsPerByte * bytes)
OrAbove(r, bits) ==
  r.buf \cup {b \in 0 .. kWordBits - 1 : b >= r.inBuf /\ b - r.inBuf \in bits}

(* The bytes that fit into the buffer.                                      *)
Missing(r) == (kWordBits - 1 - r.inBuf) \div kBitsPerByte

(* Refill: a whole word while one is left; or'ing 56 into bits_in_buf_      *)
(* keeps its lower three bits ...                                           *)
FastRefill(r) ==
  [r EXCEPT !.buf = OrAbove(r, Loaded(r, 8)),
            !.next = @ + Missing(r),
            !.inBuf = 56 + (@ % 8)]

(* ... and single bytes, then zeros, near the end (BoundsCheckedRefill).    *)
BoundsCheckedRefill(r) ==
  LET whole == Min(Missing(r), Total - r.next)
  IN  [buf |-> OrAbove(r, Loaded(r, whole)),
       next |-> r.next + whole,
       overread |-> r.overread + (Missing(r) - whole),
       inBuf |-> r.inBuf + (kBitsPerByte * Missing(r))]

Refill(r) == IF r.next > Total - 8 THEN BoundsCheckedRefill(r) ELSE FastRefill(r)

PeekBits(r, n) == r.buf \cap (0 .. n - 1)

Consume(r, n) ==
  [r EXCEPT !.inBuf = @ - n, !.buf = BitsAt(@, n, kWordBits - n)]

TotalBitsConsumed(r) == (kBitsPerByte * (r.next + r.overread)) - r.inBuf

-----------------------------------------------------------------------------
Nothing == [from |-> 0, n |-> 0, value |-> {}]
NewReader == Refill([buf |-> {}, inBuf |-> 0, next |-> 0, overread |-> 0])

InitOn(input) ==
  /\ data = input
  /\ LET r == NewReader
     IN  buf = r.buf /\ inBuf = r.inBuf /\ next = r.next /\ overread = r.overread
  /\ checked = 0
  /\ status = "open"
  /\ wanted = 0
  /\ got = Nothing

Init == \E input \in Inputs : InitOn(input)

ReadBits(n) ==
  LET r == Refill(Reader)
  IN  /\ status = "open"
      /\ wanted + n <= TotalBits + MaxOver
      /\ Becomes(Consume(r, n))
      /\ wanted' = wanted + n
      /\ got' = [from |-> wanted, n |-> n, value |-> PeekBits(r, n)]
      /\ UNCHANGED <<data, checked, status>>

(* SkipBits: from the buffer alone; or by whole bytes and the rest from a   *)
(* fresh buffer.  A skip past the end stops there and consumes one byte of  *)
(* zeros, so the exact position is lost but not that it is past the end.    *)
\* Bits above bits_in_buf_ are left in the buffer.
Emptied_M(r) == [r EXCEPT !.buf = BitsAt(@, r.inBuf, kWordBits - r.inBuf), !.inBuf = 0]
Emptied(r) == [buf |-> {}, inBuf |-> 0, next |-> r.next, overread |-> r.overread]

Skipped(r, n) ==
  LET beyond == n - r.inBuf
      bytes == beyond \div kBitsPerByte
      rest == beyond % kBitsPerByte
  IN  IF n <= r.inBuf THEN Consume(r, n)
      ELSE IF bytes > Total - r.next
      THEN Consume(Refill([Emptied(r) EXCEPT !.next = Total]), rest + kBitsPerByte)
      ELSE Consume(Refill([Emptied(r) EXCEPT !.next = @ + bytes]), rest)

SkipBits(n) ==
  /\ status = "open"
  /\ wanted + n <= TotalBits + MaxOver
  /\ Becomes(Skipped(Reader, n))
  /\ wanted' = wanted + n
  /\ got' = Nothing
  /\ UNCHANGED <<data, checked, status>>

JumpToByteBoundary ==
  LET remainder == TotalBitsConsumed(Reader) % kBitsPerByte
  IN  remainder # 0 /\ ReadBits(kBitsPerByte - remainder)

PastEnd == TotalBitsConsumed(Reader) > TotalBits

AllReadsWithinBounds ==
  /\ status = "open"
  /\ checked' = TotalBitsConsumed(Reader)
  /\ got' = Nothing
  /\ UNCHANGED <<data, buf, inBuf, next, overread, status, wanted>>

Close ==
  /\ status = "open"
  /\ status' = IF TotalBitsConsumed(Reader) > checked /\ PastEnd
               THEN "failed" ELSE "closed"
  /\ got' = Nothing
  /\ UNCHANGED <<data, buf, inBuf, next, overread, checked, wanted>>

Next ==
  \/ \E n \in ReadLengths : ReadBits(n)
  \/ \E n \in SkipLengths : SkipBits(n)
  \/ JumpToByteBoundary
  \/ AllReadsWithinBounds
  \/ Close

-----------------------------------------------------------------------------
(* Consume never takes more than the buffer has.                            *)
TypeOK ==
  /\ buf \subseteq 0 .. kWordBits - 1
  /\ inBuf \in 0 .. kWordBits - 1
  /\ next \in 0 .. Total
  /\ overread \in Nat /\ checked \in Nat
  /\ status \in {"open", "closed", "failed"}

(* Whatever the mixture of reads, skips of any length and refills, a read   *)
(* returns the bits at the position the client has reached, zeros past the  *)
(* end, and TotalBitsConsumed is that position while it is in bounds; bits  *)
(* above bits_in_buf_ that a word-wide refill left behind are always the    *)
(* bits that the next refill ors in again (dec_bit_reader.h:86-201).        *)
ReaderExact ==
  /\ got.value = BitsAt(data.ones, got.from, got.n)
  /\ wanted <= TotalBits => TotalBitsConsumed(Reader) = wanted

(* "Close the bit reader and return whether all the previous reads were     *)
(* successful" (dec_bit_reader.h:251): having asked for more than there is  *)
(* is never forgotten - the reader is past the end from then on, and Close  *)
(* reports it unless the client has asked at that position or beyond.       *)
OverreadReported ==
  /\ wanted > TotalBits <=> PastEnd
  /\ status = "closed" => wanted <= TotalBits \/ checked > TotalBits
=============================================================================
