------------------------------- MODULE GaussBlur -------------------------------
(***************************************************************************)
(* jxl::FastGaussian (lib/jxl/gauss_blur.{h,cc}): a Gaussian as the sum of *)
(* recursive filters, each                                                 *)
(*     y(n) = n2 (x(n - N - 1) + x(n + N - 1)) - d1 y(n - 1) - y(n - 2)    *)
(* over a line with zeros on both sides.  Rows are filtered four outputs   *)
(* at a time with unrolled coefficients, columns a strip of vectors at a   *)
(* time with a ring buffer.                                                *)
(*                                                                         *)
(* An action is one turn of a loop, or its end.  Floats are residues       *)
(* modulo a prime, where the algebra behind the unrolled coefficients is   *)
(* exact.  A row is filtered by itself, and each column of a strip in a    *)
(* lane of its own: one of each stands for all.                            *)
(***************************************************************************)
EXTENDS Integers, Sequences, FiniteSetsExt, SequencesExt

CONSTANTS
  Modulus,      (* a prime; its residues stand for floats                  *)
  N2, D1,       (* the coefficients n2 and d1 of each recursive filter     *)
  Radii,        (* values of N                                             *)
  LanesOf1D,    (* lanes of a vector of at most four: 4, or 1 (scalar)     *)
  Lines,        (* the lines filtered: sequences of residues               *)
  Widths        (* <<columns, lanes of a full vector>>                     *)

VARIABLES
  pass,         (* "horizontal" or "vertical"                              *)
  phase,        (* the loop it is in                                       *)
  line,         (* the input                                               *)
  N,            (* rg->radius                                              *)
  lanes,        (* lanes of a vector                                       *)
  n,            (* index of the next output, from 0                        *)
  prev, prev2,  (* horizontal: vectors of the last two outputs             *)
  ring, ctr,    (* vertical: outputs modulo kMod, and how many there were  *)
  xsize, x,     (* vertical: columns, and the first of this strip          *)
  vectors,      (* vertical: full vectors in this strip                    *)
  out,          (* the outputs written                                     *)
  touched,      (* history: indices of the input the last step accessed    *)
  filtered      (* history: how often each column was filtered             *)

given == <<pass, line, N, lanes, xsize>>
horizontal == <<prev, prev2>>
vertical == <<ring, ctr, x, vectors, filtered>>
vars == <<given, phase, n, horizontal, vertical, out, touched>>

Filter == DOMAIN N2
Size == Len(line)
Lane == 0 .. lanes - 1
kMod == 4
kPrefetchRows == 8
kCacheLineLanes == 16
Unwritten == -1

Assumptions ==
  /\ Modulus \in Nat \ {0, 1}
  /\ Radii \subseteq Nat \ {0}
  /\ DOMAIN N2 = DOMAIN D1
  /\ LanesOf1D \subseteq {1, 4}

(* What lies beyond a line is not zero unless the code makes it so.         *)
At(i) == IF i \in 0 .. Size - 1 THEN line[i + 1] ELSE 1
Left(i) == IF i >= 0 THEN {i} ELSE {}
Right(i) == IF i < Size THEN {i} ELSE {}
SumAt(S) == MapThenSumSet(At, S) % Modulus

Nothing == [i \in 1 .. Size |-> Unwritten]
Put(at, values) ==
  [i \in 1 .. Size |-> IF i - 1 - at \in DOMAIN values THEN values[i - 1 - at] ELSE out[i]]

-----------------------------------------------------------------------------
(* CreateRecursiveGaussian's tables for four consecutive outputs: what each *)
(* takes from the first input and from the two outputs before them.         *)
MulIn(k) == <<N2[k], -D1[k] * N2[k], (D1[k] ^ 2) * N2[k] - N2[k],
              2 * D1[k] * N2[k] - (D1[k] ^ 3) * N2[k]>>
MulPrev(k) == <<-D1[k], (D1[k] ^ 2) - 1, 2 * D1[k] - (D1[k] ^ 3),
                (D1[k] ^ 4) - 3 * (D1[k] ^ 2) + 1>>
MulPrev2(k) == <<-1, D1[k], 1 - (D1[k] ^ 2), (D1[k] ^ 3) - 2 * D1[k]>>

Load(table) == [j \in Lane |-> table[j + 1] % Modulus]
Set(value) == [j \in Lane |-> value]
Fma(a, b, c) == [j \in Lane |-> (a[j] * b[j] + c[j]) % Modulus]
Broadcast(vector, i) == [j \in Lane |-> vector[i]]
ShiftLeftLanes(vector, i) == [j \in Lane |-> IF j < i THEN 0 ELSE vector[j - i]]
Total(y) == [j \in Lane |-> MapThenSumSet(LAMBDA k : y[k][j], Filter) % Modulus]

FromPrevious(k, fromInput) ==
  Fma(Load(MulPrev(k)), prev[k], Fma(Load(MulPrev2(k)), prev2[k], fromInput))

-----------------------------------------------------------------------------
(* FastGaussian1D.  The first and the last outputs come one at a time, with *)
(* checks of the bounds; only the first lane is of use then.                *)
first_aligned == ((N + lanes) \div lanes) * lanes

OneOutput ==
  /\ touched' = Left(n - N - 1) \cup Right(n + N - 1)
  /\ prev2' = prev
  /\ prev' = [k \in Filter |->
                FromPrevious(k, Fma(Load(MulIn(k)), Set(SumAt(touched')), Set(0)))]
  /\ out' = IF n < 0 THEN out ELSE Put(n, [j \in {0} |-> Total(prev')[0]])
  /\ n' = n + 1
  /\ UNCHANGED <<given, phase, vertical>>

LeftOutput == phase = "left" /\ n < Min({first_aligned, Size}) /\ OneOutput

LeftDone ==
  /\ phase = "left" /\ n >= Min({first_aligned, Size})
  /\ phase' = "unrolled"
  /\ prev' = [k \in Filter |-> Broadcast(prev[k], 0)]
  /\ prev2' = [k \in Filter |-> Broadcast(prev2[k], 0)]
  /\ touched' = {}
  /\ UNCHANGED <<given, n, vertical, out>>

FromInputs(k, sum) ==
  FoldSet(LAMBDA i, acc : Fma(ShiftLeftLanes(Load(MulIn(k)), i), Broadcast(sum, i), acc),
          Set(0), Lane)

\* Mutant: the last lane loads past the end of the row.
FourOutputs_M ==
  /\ phase = "unrolled" /\ n < Size - N + 1
  /\ touched' = {n - N - 1 + j : j \in Lane} \cup {n + N - 1 + j : j \in Lane}
  /\ LET sum == [j \in Lane |-> (At(n - N - 1 + j) + At(n + N - 1 + j)) % Modulus]
         y == [k \in Filter |-> FromPrevious(k, FromInputs(k, sum))]
     IN  /\ prev2' = IF lanes = 1 THEN prev
                     ELSE [k \in Filter |-> Broadcast(y[k], lanes - 2)]
         /\ prev' = [k \in Filter |-> Broadcast(y[k], lanes - 1)]
         /\ out' = Put(n, Total(y))
  /\ n' = n + lanes
  /\ UNCHANGED <<given, phase, vertical>>

FourOutputs ==
  /\ phase = "unrolled" /\ n < Size - N + 1 - 3
  /\ touched' = {n - N - 1 + j : j \in Lane} \cup {n + N - 1 + j : j \in Lane}
  /\ LET sum == [j \in Lane |-> (At(n - N - 1 + j) + At(n + N - 1 + j)) % Modulus]
         y == [k \in Filter |-> FromPrevious(k, FromInputs(k, sum))]
     IN  /\ prev2' = IF lanes = 1 THEN prev
                     ELSE [k \in Filter |-> Broadcast(y[k], lanes - 2)]
         /\ prev' = [k \in Filter |-> Broadcast(y[k], lanes - 1)]
         /\ out' = Put(n, Total(y))
  /\ n' = n + lanes
  /\ UNCHANGED <<given, phase, vertical>>

UnrolledDone ==
  /\ phase = "unrolled" /\ n >= Size - N + 1 - 3
  /\ phase' = "remainder" /\ touched' = {}
  /\ UNCHANGED <<given, n, horizontal, vertical, out>>

LastOutput == phase = "remainder" /\ n < Size /\ OneOutput

RowDone ==
  /\ phase = "remainder" /\ n >= Size
  /\ phase' = "done" /\ touched' = {}
  /\ UNCHANGED <<given, n, horizontal, vertical, out>>

-----------------------------------------------------------------------------
(* FastGaussianVertical: strips of a cache line while they fit, then of a   *)
(* vector, the last of which may reach into the padding of the row.         *)
kCacheLineVectors ==
  IF lanes < kCacheLineLanes THEN kCacheLineLanes \div lanes ELSE 4
kFastPace == kCacheLineVectors * lanes

StartStrip(count) ==
  /\ phase = "strips"
  /\ phase' = "strip" /\ vectors' = count
  /\ n' = -N + 1 /\ ctr' = 0
  /\ ring' = [k \in Filter |-> [i \in 0 .. kMod - 1 |-> 0]]
  /\ out' = Nothing /\ touched' = {}
  /\ UNCHANGED <<given, horizontal, x, filtered>>
CacheLineStrip == x + kFastPace <= xsize /\ StartStrip(kCacheLineVectors)
VectorStrip == x + kFastPace > xsize /\ x < xsize /\ StartStrip(1)

(* VerticalBlock, with the outputs of a turn in `ring` at n_0.              *)
VerticalBlock(inputs, stored) ==
  LET n_0 == (ctr + 1) % kMod
      n_1 == ctr % kMod
      n_2 == (ctr - 1) % kMod
  IN  /\ ring' = [k \in Filter |->
                    [ring[k] EXCEPT ![n_0] =
                       (N2[k] * SumAt(inputs) - D1[k] * ring[k][n_1] - ring[k][n_2])
                         % Modulus]]
      /\ out' = IF stored
                THEN Put(n, [j \in {0} |->
                               MapThenSumSet(LAMBDA k : ring'[k][n_0], Filter) % Modulus])
                ELSE out
      /\ ctr' = ctr + 1 /\ n' = n + 1
      /\ UNCHANGED <<given, horizontal, x, vectors, filtered>>

(* VerticalStrip's four loops: above the image, until a row has left the    *)
(* window at the top, inside, and until the last row.                       *)
Top == n - N - 1
Bottom == n + N - 1
top_end == Min({N + 1, Size})
interior_end == Size - N + 1 - kPrefetchRows
Filtering == phase = "strip" /\ phase' = "strip"

Warmup ==
  /\ Filtering /\ n < 0
  /\ touched' = Right(Bottom)
  /\ VerticalBlock(Right(Bottom), FALSE)
FirstRows ==
  /\ Filtering /\ 0 <= n /\ n < top_end
  /\ touched' = Right(Bottom)
  /\ VerticalBlock(Right(Bottom), TRUE)
InteriorRows ==
  /\ Filtering /\ top_end <= n /\ n < interior_end
  /\ touched' = {Top, Bottom, Top + kPrefetchRows, Bottom + kPrefetchRows}
  /\ VerticalBlock({Top, Bottom}, TRUE)
LastRows ==
  /\ Filtering /\ top_end <= n /\ interior_end <= n /\ n < Size
  /\ touched' = {Top} \cup Right(Bottom)
  /\ VerticalBlock({Top} \cup Right(Bottom), TRUE)
StripDone ==
  /\ phase = "strip" /\ n >= Size
  /\ phase' = "strips" /\ x' = x + vectors * lanes
  /\ filtered' = [c \in DOMAIN filtered |->
                    filtered[c] + IF c \in x .. x' - 1 THEN 1 ELSE 0]
  /\ touched' = {}
  /\ UNCHANGED <<given, n, horizontal, ring, ctr, vectors, out>>
ColumnsDone ==
  /\ phase = "strips" /\ x >= xsize
  /\ phase' = "done" /\ touched' = {}
  /\ UNCHANGED <<given, n, horizontal, vertical, out>>

-----------------------------------------------------------------------------
Begin(p, l, radius, width) ==
  /\ pass = p /\ line = l /\ N = radius
  /\ xsize = width[1] /\ lanes = width[2]
  /\ phase = IF p = "horizontal" THEN "left" ELSE "strips"
  /\ n = -N + 1
  /\ prev = [k \in Filter |-> Set(0)] /\ prev2 = prev
  /\ ring = [k \in Filter |-> [i \in 0 .. kMod - 1 |-> 0]] /\ ctr = 0
  /\ x = 0 /\ vectors = 0
  /\ out = Nothing /\ touched = {}
  /\ filtered = [c \in 0 .. xsize - 1 |-> 0]

Init ==
  \E l \in Lines, radius \in Radii :
    \/ \E count \in LanesOf1D : Begin("horizontal", l, radius, <<0, count>>)
    \/ \E width \in Widths : Begin("vertical", l, radius, width)

Finished == phase = "done" /\ UNCHANGED vars

Next ==
  \/ LeftOutput \/ LeftDone \/ FourOutputs \/ UnrolledDone \/ LastOutput \/ RowDone
  \/ CacheLineStrip \/ VectorStrip
  \/ Warmup \/ FirstRows \/ InteriorRows \/ LastRows
  \/ StripDone \/ ColumnsDone
  \/ Finished

Spec == Init /\ [][Next]_vars

-----------------------------------------------------------------------------
(* The filter by its definition: the outputs from -N + 1 on, after zeros.   *)
Outside(i) == IF i \in 0 .. Size - 1 THEN line[i + 1] ELSE 0
Recurrence(k) ==
  FoldLeft(LAMBDA y, i :
             Append(y, (N2[k] * (Outside(i - N - 1) + Outside(i + N - 1))
                          - D1[k] * y[Len(y)] - y[Len(y) - 1]) % Modulus),
           <<0, 0>>, [j \in 1 .. Size + N - 1 |-> j - N])
Gaussian ==
  LET y == [k \in Filter |-> Recurrence(k)]
  IN  [i \in 1 .. Size |-> MapThenSumSet(LAMBDA k : y[k][i + N + 1], Filter) % Modulus]

(* Whatever the length of a line and wherever the loops hand over, a row    *)
(* and a column come out as the recurrence says, each output is written in  *)
(* order, nothing is read or prefetched outside the image, and each column  *)
(* is filtered once.                                                        *)
LineDone ==
  \/ pass = "horizontal" /\ phase = "done"
  \/ pass = "vertical" /\ phase = "strip" /\ n >= Size
FilterExact ==
  /\ touched \subseteq 0 .. Size - 1
  /\ \A i \in 1 .. Size : out[i] = Unwritten <=> i > n
  /\ LineDone => out = Gaussian
  /\ pass = "vertical" /\ phase = "done" => \A c \in DOMAIN filtered : filtered[c] = 1
================================================================================
