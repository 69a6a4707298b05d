------------------------------- MODULE JpegIcc -------------------------------
(***************************************************************************)
(* Color profiles of JPEG files (src/lib/extras/{enc,dec}/jpg.cc): one too  *)
(* long for one marker is cut into numbered chunks, to be put together      *)
(* again whatever their order in the file.                                  *)
(*                                                                          *)
(* A file is written by WriteICCProfile, or marker by marker by another     *)
(* program, and then read.  A byte of the profile is named by the marker    *)
(* and the position it was stored at.                                       *)
(***************************************************************************)
EXTENDS Integers, SequencesExt

CONSTANTS MaxMarkers,  \* bound on the ICC markers of a file
          MaxNumber,   \* bound on chunk numbers and counts (255)
          MaxLength,   \* the length a chunk can have (65519)
          ProfileSizes \* of the profiles given to WriteICCProfile

VARIABLES markers,     \* the ICC markers, in file order
          status,      \* "writing", "refused" or "read"
          icc,         \* the profile read
          encoded      \* history: the size given to WriteICCProfile

vars == <<markers, status, icc, encoded>>

ByOthers == -1

Marker == [number : 0 .. MaxNumber, count : 0 .. MaxNumber,
           length : 0 .. MaxLength]

Init ==
  /\ markers = <<>> /\ status = "writing" /\ icc = <<>>
  /\ encoded = ByOthers

WriteMarker(m) ==
  /\ status = "writing" /\ Len(markers) < MaxMarkers /\ encoded = ByOthers
  /\ markers' = Append(markers, m)
  /\ UNCHANGED <<status, icc, encoded>>

(* WriteICCProfile, called for a profile that is not empty: its numbers and *)
(* their count are written as single bytes.                                 *)
InByte(n) == n % (MaxNumber + 1)
NumMarkers(size) == (size + MaxLength - 1) \div MaxLength
ChunkLength(size, k) == Min({MaxLength, size - (k - 1) * MaxLength})
WriteICCProfile(size) ==
  /\ status = "writing" /\ markers = <<>> /\ encoded = ByOthers /\ size > 0
  /\ markers' = [k \in 1 .. NumMarkers(size) |->
                   [number |-> InByte(k), count |-> InByte(NumMarkers(size)),
                    length |-> ChunkLength(size, k)]]
  /\ encoded' = size
  /\ UNCHANGED <<status, icc>>

-----------------------------------------------------------------------------
(* marker_lengths after the first n markers: zero where none was seen.      *)
LengthsUpTo(n) ==
  [k \in 1 .. MaxNumber |->
     LET here == {i \in 1 .. n : markers[i].number = k}
     IN  IF here = {} THEN 0 ELSE markers[CHOOSE i \in here : TRUE].length]

(* The checks of the first loop, for marker i.                              *)
Inconsistent(i) ==
  LET m == markers[i]
  IN  \/ m.number = 0 \/ m.number > m.count
      \/ m.count # markers[1].count
      \/ m.length = 0
      \/ LengthsUpTo(i - 1)[m.number] # 0

Complete == Len(markers) = markers[1].count

(* partial_sum: where each chunk begins, and after the last one, the end.   *)
Offset(k) ==
  LET lengths == LengthsUpTo(Len(markers))
      sum[j \in 0 .. MaxNumber] == IF j = 0 THEN 0 ELSE sum[j - 1] + lengths[j]
  IN  sum[k]

(* The second loop copies each chunk to its place.                          *)
Assembled ==
  [b \in 0 .. Offset(markers[1].count) - 1 |->
     LET i == CHOOSE i \in DOMAIN markers :
                /\ Offset(markers[i].number - 1) <= b
                /\ b < Offset(markers[i].number)
     IN  <<i, b - Offset(markers[i].number - 1)>>]

ReadICCProfile ==
  /\ status = "writing"
  /\ IF \/ markers = <<>>
        \/ \E i \in DOMAIN markers : Inconsistent(i)
        \/ ~Complete
     THEN status' = "refused" /\ icc' = <<>>
     ELSE /\ status' = "read"
          /\ icc' = [j \in 1 .. Offset(markers[1].count) |-> Assembled[j - 1]]
  /\ UNCHANGED <<markers, encoded>>

Next ==
  \/ \E m \in Marker : WriteMarker(m)
  \/ \E size \in ProfileSizes : WriteICCProfile(size)
  \/ ReadICCProfile

Spec == Init /\ [][Next]_vars

-----------------------------------------------------------------------------
TypeOK ==
  /\ encoded = ByOthers => Len(markers) <= MaxMarkers
  /\ encoded \in {ByOthers} \cup ProfileSizes
  /\ \A i \in DOMAIN markers : markers[i] \in Marker
  /\ status \in {"writing", "refused", "read"}

(* The markers hold one profile: as many as each of them says, nonempty,    *)
(* and `order` lists them by number.                                        *)
HoldProfile(order) ==
  \A k \in DOMAIN order :
    LET m == markers[order[k]]
    IN  m.number = k /\ m.count = Len(order) /\ m.length > 0

(* A profile is read exactly if the markers hold one, and is then their     *)
(* contents in the order of their numbers, each byte once (jpg.cc:52-128).  *)
ProfileExact ==
  status # "writing" =>
    LET orders == {f \in SetToSeqs(DOMAIN markers) : HoldProfile(f)}
        bytes(i) == [j \in 1 .. markers[i].length |-> <<i, j - 1>>]
    IN  /\ status = "read" <=> markers # <<>> /\ orders # {}
        /\ status = "read" =>
             \A f \in orders :
               icc = FlattenSeq([k \in DOMAIN f |-> bytes(f[k])])

(* A profile that was written is read again, byte for byte, if its chunks   *)
(* can be numbered; one that takes more chunks, whose numbers and count     *)
(* wrap around, is never taken for a shorter one                            *)
(* (enc/jpg.cc:53-77, dec/jpg.cc:52-128).                                   *)
WrittenReadsBack ==
  encoded # ByOthers /\ status # "writing" =>
    IF NumMarkers(encoded) <= MaxNumber
    THEN /\ status = "read"
         /\ icc = [b \in 1 .. encoded |->
                     <<(b - 1) \div MaxLength + 1, (b - 1) % MaxLength>>]
    ELSE status = "refused"
=============================================================================
