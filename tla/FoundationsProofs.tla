-------------------------- MODULE FoundationsProofs --------------------------
(***************************************************************************)
(* The components of Foundations, for every value of the constants: what   *)
(* runs check on small instances is an invariant of each of them.  The     *)
(* component is proved sound by itself, and a step of the composition is a *)
(* step of it or leaves its state alone.                                   *)
(***************************************************************************)
EXTENDS RowsProofs, FiniteSetTheorems, NaturalsInduction, WellFoundedInduction

-------------------------------------------------------------------------------
(***************************************************************************)
(* What hands out memory, for any threads, sizes and addresses.            *)
(*                                                                         *)
(* CacheAligned: the blocks in use stay apart, and the counters that       *)
(* threads update one by one account for every byte.  The sums over blocks *)
(* are defined by recursion over sets, and what is needed of them is shown *)
(* by looking at a smallest set it fails for.  RunnerHandles and           *)
(* PaddedBytes follow.                                                     *)
(***************************************************************************)

(* A set of naturals has a least element: induction is replaced by looking *)
(* at the least number a claim fails for.                                  *)
LEMMA LeastNatural ==
  ASSUME NEW N, N \subseteq Nat, N # {}
  PROVE  \E m \in N : \A k \in N : m <= k
<1>1. PICK m \in N : \A k \in N : ~ (<<k, m>> \in OpToRel(<, Nat))
  BY NatLessThanWellFounded, WFMin
<1>2. \A k \in N : ~ (k < m)
  BY <1>1 DEF OpToRel
<1> QED
  BY <1>2

(* The function that MapThenSumSet is defined by, of the weights w of the  *)
(* elements.                                                               *)
SumOver(w, g, s) ==
  IF s = {} THEN 0
  ELSE LET x == CHOOSE x \in s : TRUE IN w[x] + g[s \ {x}]
IsSum(w, s, g) == g = [r \in SUBSET s |-> SumOver(w, g, r)]

LEMMA SumUnique ==
  ASSUME NEW s, NEW r, NEW w, NEW v, NEW g, NEW h, IsSum(w, s, g), IsSum(v, r, h),
         NEW q \in SUBSET (s \cap r), IsFiniteSet(q), \A x \in q : w[x] = v[x]
  PROVE  g[q] = h[q]
<1> DEFINE Bad == {p \in SUBSET q : g[p] # h[p]}
<1> DEFINE N == {Cardinality(p) : p \in Bad}
<1> SUFFICES ASSUME g[q] # h[q] PROVE FALSE
  OBVIOUS
<1>1. \A p \in SUBSET q : IsFiniteSet(p) /\ Cardinality(p) \in Nat
  BY FS_Subset, FS_CardinalityType
<1>2. N \subseteq Nat /\ N # {}
  BY <1>1
<1>3. PICK m \in N : \A k \in N : m <= k
  <2> HIDE DEF N
  <2> QED
    BY <1>2, LeastNatural
<1>4. PICK p \in Bad : Cardinality(p) = m
  BY <1>3
<1>5. g[p] = SumOver(w, g, p) /\ h[p] = SumOver(v, h, p)
  BY <1>4 DEF IsSum
<1>6. CASE p = {}
  BY <1>4, <1>5, <1>6 DEF SumOver
<1>7. ASSUME p # {} PROVE FALSE
  <2> DEFINE x == CHOOSE x \in p : TRUE
  <2>1. x \in p
    BY <1>7
  <2> HIDE DEF x
  <2>2. IsFiniteSet(p \ {x}) /\ Cardinality(p \ {x}) = Cardinality(p) - 1 /\ Cardinality(p) \in Nat
    BY <2>1, <1>1, <1>4, FS_RemoveElement
  <2>3. Cardinality(p \ {x}) \notin N
    BY <1>3, <1>4, <2>2, <1>2
  <2>4. g[p \ {x}] = h[p \ {x}]
    BY <2>3, <1>4
  <2>5. g[p] = w[x] + g[p \ {x}] /\ h[p] = v[x] + h[p \ {x}]
    BY <1>5, <1>7 DEF SumOver, x
  <2> QED
    BY <2>1, <2>4, <2>5, <1>4
<1> QED
  BY <1>6, <1>7

LEMMA SumExists ==
  ASSUME NEW s, IsFiniteSet(s), NEW w
  PROVE  \E g : IsSum(w, s, g)
<1> DEFINE D(n) == {r \in SUBSET s : Cardinality(r) <= n}
<1> DEFINE Good(n) == \E g : g = [r \in D(n) |-> SumOver(w, g, r)]
<1> DEFINE N == {n \in Nat : ~ Good(n)}
<1>1. \A r \in SUBSET s : IsFiniteSet(r) /\ Cardinality(r) \in Nat /\ Cardinality(r) <= Cardinality(s)
  BY FS_Subset, FS_CardinalityType
<1>2. Good(0)
  <2>1. \A r \in D(0) : r = {}
    BY <1>1, FS_EmptySet
  <2> DEFINE g == [r \in D(0) |-> 0]
  <2>2. \A r \in D(0) : SumOver(w, g, r) = 0
    BY <2>1 DEF SumOver
  <2>3. g = [r \in D(0) |-> SumOver(w, g, r)]
    BY <2>2
  <2> QED
    BY <2>3
<1>3. ASSUME NEW n \in Nat, Good(n) PROVE Good(n + 1)
  <2>1. PICK g : g = [r \in D(n) |-> SumOver(w, g, r)]
    BY <1>3
  <2> DEFINE h == [r \in D(n + 1) |-> SumOver(w, g, r)]
  <2>2. \A r \in D(n) : r \in D(n + 1)
    BY <1>1
  <2>3. \A r \in D(n) : h[r] = g[r]
    <3> SUFFICES ASSUME NEW r \in D(n) PROVE h[r] = g[r]
      OBVIOUS
    <3>1. g[r] = SumOver(w, g, r)
      BY <2>1
    <3>2. h[r] = SumOver(w, g, r)
      BY <2>2
    <3> QED
      BY <3>1, <3>2
  <2>4. \A r \in D(n + 1) : SumOver(w, h, r) = SumOver(w, g, r)
    <3> SUFFICES ASSUME NEW r \in D(n + 1), r # {} PROVE SumOver(w, h, r) = SumOver(w, g, r)
      BY DEF SumOver
    <3> DEFINE x == CHOOSE x \in r : TRUE
    <3>1. x \in r
      OBVIOUS
    <3>2. IsFiniteSet(r) /\ Cardinality(r) \in Nat
      BY <1>1
    <3> HIDE DEF x
    <3>3. Cardinality(r \ {x}) = Cardinality(r) - 1
      BY <3>1, <3>2, FS_RemoveElement
    <3>4. r \ {x} \in D(n)
      BY <3>2, <3>3
    <3>5. h[r \ {x}] = g[r \ {x}]
      BY <3>4, <2>3
    <3>6. SumOver(w, h, r) = w[x] + h[r \ {x}] /\ SumOver(w, g, r) = w[x] + g[r \ {x}]
      BY DEF SumOver, x
    <3> QED
      BY <3>5, <3>6
  <2>5. h = [r \in D(n + 1) |-> SumOver(w, h, r)]
    BY <2>4
  <2> HIDE DEF h
  <2> QED
    BY <2>5
<1>4. N = {}
  <2> SUFFICES ASSUME N # {} PROVE FALSE
    OBVIOUS
  <2>1. PICK m \in N : \A k \in N : m <= k
    <3>1. N \subseteq Nat
      OBVIOUS
    <3> HIDE DEF N
    <3> QED
      BY <3>1, LeastNatural
  <2>2. m \in Nat /\ ~ Good(m)
    BY <2>1
  <2> HIDE DEF Good
  <2>3. m # 0
    BY <2>2, <1>2
  <2>4. m - 1 \in Nat /\ m - 1 \notin N
    BY <2>1, <2>2, <2>3
  <2>5. Good(m - 1)
    BY <2>4
  <2>6. Good((m - 1) + 1)
    BY <2>4, <2>5, <1>3
  <2>7. (m - 1) + 1 = m
    BY <2>2
  <2> QED
    BY <2>2, <2>6, <2>7
<1>5. Cardinality(s) \in Nat
  BY FS_CardinalityType
<1>6. Good(Cardinality(s))
  <2> HIDE DEF Good
  <2> QED
    BY <1>4, <1>5
<1>7. D(Cardinality(s)) = SUBSET s
  BY <1>1
<1> QED
  BY <1>6, <1>7 DEF IsSum

LEMMA SumType ==
  ASSUME NEW s, IsFiniteSet(s), NEW w, \A x \in s : w[x] \in Nat, NEW g, IsSum(w, s, g),
         NEW q \in SUBSET s
  PROVE  g[q] \in Nat
<1> DEFINE Bad == {p \in SUBSET s : g[p] \notin Nat}
<1> DEFINE N == {Cardinality(p) : p \in Bad}
<1> SUFFICES ASSUME g[q] \notin Nat PROVE FALSE
  OBVIOUS
<1>1. \A p \in SUBSET s : IsFiniteSet(p) /\ Cardinality(p) \in Nat
  BY FS_Subset, FS_CardinalityType
<1>2. N \subseteq Nat /\ N # {}
  BY <1>1
<1>3. PICK m \in N : \A k \in N : m <= k
  <2> HIDE DEF N
  <2> QED
    BY <1>2, LeastNatural
<1>4. PICK p \in Bad : Cardinality(p) = m
  BY <1>3
<1>5. g[p] = SumOver(w, g, p)
  BY <1>4 DEF IsSum
<1>6. p # {}
  BY <1>4, <1>5 DEF SumOver
<1> DEFINE x == CHOOSE x \in p : TRUE
<1>7. x \in p
  BY <1>6
<1>8. g[p] = w[x] + g[p \ {x}]
  BY <1>5, <1>6 DEF SumOver
<1> HIDE DEF x
<1>9. IsFiniteSet(p \ {x}) /\ Cardinality(p \ {x}) = Cardinality(p) - 1 /\ Cardinality(p) \in Nat
  BY <1>7, <1>1, <1>4, FS_RemoveElement
<1>10. Cardinality(p \ {x}) \notin N
  <2> HIDE DEF N
  <2> QED
    BY <1>3, <1>4, <1>9, <1>2
<1>11. g[p \ {x}] \in Nat
  BY <1>10, <1>4
<1> QED
  BY <1>4, <1>7, <1>8, <1>11

LEMMA SumPick ==
  ASSUME NEW s, IsFiniteSet(s), NEW w, \A x \in s : w[x] \in Nat, NEW g, IsSum(w, s, g),
         NEW q \in SUBSET s, NEW y \in q
  PROVE  g[q] = w[y] + g[q \ {y}]
<1> DEFINE Bad == {p \in SUBSET s : \E z \in p : g[p] # w[z] + g[p \ {z}]}
<1> DEFINE N == {Cardinality(p) : p \in Bad}
<1> SUFFICES ASSUME g[q] # w[y] + g[q \ {y}] PROVE FALSE
  OBVIOUS
<1>1. \A p \in SUBSET s : IsFiniteSet(p) /\ Cardinality(p) \in Nat /\ g[p] \in Nat
  BY FS_Subset, FS_CardinalityType, SumType
<1>2. N \subseteq Nat /\ N # {}
  BY <1>1
<1>3. PICK m \in N : \A k \in N : m <= k
  <2> HIDE DEF N
  <2> QED
    BY <1>2, LeastNatural
<1>4. PICK p \in Bad : Cardinality(p) = m
  BY <1>3
<1>5. PICK z \in p : g[p] # w[z] + g[p \ {z}]
  BY <1>4
<1>6. g[p] = SumOver(w, g, p)
  BY <1>4 DEF IsSum
<1> DEFINE c == CHOOSE x \in p : TRUE
<1>7. c \in p
  BY <1>5
<1>8. g[p] = w[c] + g[p \ {c}]
  BY <1>5, <1>6 DEF SumOver
<1> HIDE DEF c
<1>9. ASSUME NEW x \in p, NEW u \in p \ {x}
      PROVE  g[p \ {x}] = w[u] + g[(p \ {x}) \ {u}]
  <2>1. IsFiniteSet(p \ {x}) /\ Cardinality(p \ {x}) = Cardinality(p) - 1 /\ Cardinality(p) \in Nat
    BY <1>1, <1>4, FS_RemoveElement
  <2>2. Cardinality(p \ {x}) \notin N
    BY SMTT(40), <1>3, <1>4, <2>1, <1>2
  <2> QED
    BY <2>2, <1>4
<1>10. z # c
  BY <1>5, <1>8
<1>11. g[p \ {c}] = w[z] + g[(p \ {c}) \ {z}]
  BY <1>9, <1>7, <1>5, <1>10
<1>12. g[p \ {z}] = w[c] + g[(p \ {z}) \ {c}]
  BY <1>9, <1>7, <1>5, <1>10
<1>13. (p \ {c}) \ {z} = (p \ {z}) \ {c}
  OBVIOUS
<1>14. w[c] \in Nat /\ w[z] \in Nat /\ g[(p \ {c}) \ {z}] \in Nat
  BY <1>1, <1>4, <1>5, <1>7
<1>15. \A a, b, k \in Nat : a + (b + k) = b + (a + k)
  OBVIOUS
<1>16. g[p] = w[z] + g[p \ {z}]
  <2> DEFINE k == g[(p \ {c}) \ {z}]
  <2>1. g[p] = w[c] + (w[z] + k)
    BY <1>8, <1>11, Zenon
  <2>2. g[p \ {z}] = w[c] + k
    BY <1>12, <1>13, Zenon
  <2>3. w[c] + (w[z] + k) = w[z] + (w[c] + k)
    BY <1>14, <1>15, Zenon
  <2> QED
    BY <2>1, <2>2, <2>3, Zenon
<1> QED
  BY <1>5, <1>16

Sum(w, s) == (CHOOSE g : IsSum(w, s, g))[s]

LEMMA SumProperties ==
  ASSUME NEW s, IsFiniteSet(s), NEW w, \A x \in s : w[x] \in Nat
  PROVE  /\ Sum(w, s) \in Nat
         /\ s = {} => Sum(w, s) = 0
         /\ \A y \in s : \A v : (\A x \in s \ {y} : v[x] = w[x]) =>
              Sum(w, s) = w[y] + Sum(v, s \ {y})
         /\ \A v : (\A x \in s : v[x] = w[x]) => Sum(v, s) = Sum(w, s)
<1> DEFINE g == CHOOSE h : IsSum(w, s, h)
<1>1. IsSum(w, s, g)
  BY SumExists
<1>2. Sum(w, s) = g[s]
  BY DEF Sum
<1> HIDE DEF g
<1>3. Sum(w, s) \in Nat
  BY <1>1, <1>2, SumType
<1>4. s = {} => Sum(w, s) = 0
  <2>1. g[s] = SumOver(w, g, s)
    BY <1>1 DEF IsSum
  <2> QED
    BY <2>1, <1>2 DEF SumOver
<1>5. ASSUME NEW r \in SUBSET s, NEW v, \A x \in r : v[x] = w[x]
      PROVE  Sum(v, r) = g[r]
  <2>1. IsFiniteSet(r)
    BY FS_Subset
  <2> DEFINE h == CHOOSE h : IsSum(v, r, h)
  <2>2. IsSum(v, r, h)
    BY <2>1, SumExists
  <2>3. Sum(v, r) = h[r]
    BY DEF Sum
  <2> HIDE DEF h
  <2>4. r \in SUBSET (r \cap s)
    OBVIOUS
  <2> QED
    BY <1>1, <1>5, <2>1, <2>2, <2>3, <2>4, SumUnique
<1>6. ASSUME NEW y \in s PROVE g[s] = w[y] + g[s \ {y}]
  BY <1>1, SumPick
<1> QED
  BY <1>2, <1>3, <1>4, <1>5, <1>6


-------------------------------------------------------------------------------
(***************************************************************************)
(* CacheAligned: what each thread on its way through Allocate knows.       *)
(***************************************************************************)
Bytes(s) == Sum([l \in s |-> l.block.allocated], s)
Counting(b, s) == Sum([x \in s |-> b[x].allocated], s)

LEMMA BytesAreSummed ==
  ASSUME NEW L, IsFiniteSet(L)
  PROVE A!MapThenSumSet(LAMBDA l : l.block.allocated, L) = Bytes(L)
<1> DEFINE w == [l \in L |-> l.block.allocated]
<1> DEFINE g == CHOOSE iter : iter = [s \in SUBSET L |->
        IF s = {} THEN 0 ELSE LET x == CHOOSE x \in s : TRUE IN x.block.allocated + iter[s \ {x}]]
<1>1. A!MapThenSumSet(LAMBDA l : l.block.allocated, L) = g[L]
  BY DEF A!MapThenSumSet, A!MapThenFoldSet
<1>2. PICK h : IsSum(w, L, h)
  BY SumExists
<1>3. \A f, s : s \in SUBSET L => SumOver(w, f, s) = IF s = {} THEN 0 ELSE LET x == CHOOSE x \in s : TRUE IN x.block.allocated + f[s \ {x}]
  BY DEF SumOver
<1>4. h = [s \in SUBSET L |->
        IF s = {} THEN 0 ELSE LET x == CHOOSE x \in s : TRUE IN x.block.allocated + h[s \ {x}]]
  BY <1>2, <1>3 DEF IsSum
<1>5. g = [s \in SUBSET L |->
        IF s = {} THEN 0 ELSE LET x == CHOOSE x \in s : TRUE IN x.block.allocated + g[s \ {x}]]
  BY <1>4
<1> HIDE DEF g
<1>6. IsSum(w, L, g)
  BY <1>5, <1>3 DEF IsSum
<1>7. g[L] = h[L]
  BY <1>2, <1>6, SumUnique
<1> DEFINE k == CHOOSE k : IsSum(w, L, k)
<1>8. IsSum(w, L, k)
  BY <1>2
<1> QED
  BY <1>1, <1>6, <1>8, SumUnique DEF Bytes, Sum

LEMMA CountingIsSummed ==
  ASSUME NEW b, NEW L, IsFiniteSet(L)
  PROVE A!MapThenSumSet(LAMBDA x : b[x].allocated, L) = Counting(b, L)
<1> DEFINE w == [x \in L |-> b[x].allocated]
<1> DEFINE g == CHOOSE iter : iter = [s \in SUBSET L |->
        IF s = {} THEN 0 ELSE LET x == CHOOSE x \in s : TRUE IN b[x].allocated + iter[s \ {x}]]
<1>1. A!MapThenSumSet(LAMBDA x : b[x].allocated, L) = g[L]
  BY DEF A!MapThenSumSet, A!MapThenFoldSet
<1>2. PICK h : IsSum(w, L, h)
  BY SumExists
<1>3. \A f, s : s \in SUBSET L => SumOver(w, f, s) = IF s = {} THEN 0 ELSE LET x == CHOOSE x \in s : TRUE IN b[x].allocated + f[s \ {x}]
  BY DEF SumOver
<1>4. h = [s \in SUBSET L |->
        IF s = {} THEN 0 ELSE LET x == CHOOSE x \in s : TRUE IN b[x].allocated + h[s \ {x}]]
  BY <1>2, <1>3 DEF IsSum
<1>5. g = [s \in SUBSET L |->
        IF s = {} THEN 0 ELSE LET x == CHOOSE x \in s : TRUE IN b[x].allocated + g[s \ {x}]]
  BY <1>4
<1> HIDE DEF g
<1>6. IsSum(w, L, g)
  BY <1>5, <1>3 DEF IsSum
<1>7. g[L] = h[L]
  BY <1>2, <1>6, SumUnique
<1> DEFINE k == CHOOSE k : IsSum(w, L, k)
<1>8. IsSum(w, L, k)
  BY <1>2
<1> QED
  BY <1>1, <1>6, <1>8, SumUnique DEF Counting, Sum

OffsetTaken(b) ==
  /\ b.offset % kAlignment = 0
  /\ kAlignment <= b.offset
  /\ b.size \in Sizes

Placed(b) ==
  /\ OffsetTaken(b)
  /\ b.base \in Bases
  /\ b.allocated = kAlias + b.offset + b.size
  /\ b.payload = kAlias + b.offset

(* Types, and where blocks lie.                                            *)
BlocksInv ==
  /\ allocPc \in [Thread -> {"idle", "malloc", "bytes", "load", "cas", "done"}]
  /\ block \in [Thread -> A!Block]
  /\ \A x \in Thread : allocPc[x] = "malloc" => OffsetTaken(block[x])
  /\ \A x \in Thread : allocPc[x] \in {"bytes", "load", "cas", "done"} => Placed(block[x])
  /\ \A l \in live : l.block \in A!Block /\ l.id \in 1 .. MaxBlocks /\ Placed(l.block)
  /\ counter \in 0 .. Offsets - 1

(* A number is free for every block on its way.                            *)
NumbersInv ==
  /\ IsFiniteSet(live)
  /\ Cardinality(live) + Cardinality(A!Busy) <= MaxBlocks

BytesInv ==
  /\ inUse = Bytes(live) + Counting(block, A!Counted)

(* A thread that is recording what it saw: bytes, its old value plus its   *)
(* own.  The peak is in the maximum, or on its way there.                  *)
Recording == {x \in Thread : allocPc[x] \in {"load", "cas"}}

PeakInv ==
  /\ maxInUse \in Nat /\ peak \in Nat
  /\ prev \in [Thread -> Nat] /\ expected \in [Thread -> Nat]
  /\ maxInUse <= peak
  /\ \A x \in Thread : allocPc[x] = "cas" => expected[x] <= maxInUse
  /\ \A x \in Recording : prev[x] + block[x].allocated <= peak
  /\ maxInUse = peak \/ \E x \in Recording : prev[x] + block[x].allocated = peak

AllocInv == BlocksInv /\ NumbersInv /\ BytesInv /\ PeakInv

(* The counting of elements that the allocator is written with.           *)
LEMMA SameCounting ==
  /\ \A s : A!IsFiniteSet(s) <=> IsFiniteSet(s)
  /\ \A s : A!Cardinality(s) = Cardinality(s)
<1>1. \A s : A!IsFiniteSet(s) <=> IsFiniteSet(s)
  BY DEF A!IsFiniteSet, IsFiniteSet
<1>2. \A s : A!Cardinality(s) = Cardinality(s)
  BY DEF A!Cardinality, Cardinality
<1> QED
  BY <1>1, <1>2

LEMMA AllocConstants ==
  /\ IsFiniteSet(Thread) /\ MaxBlocks \in Nat
  /\ Sizes \subseteq Nat
  /\ kAlignment \in Nat \ {0}
  /\ kAlias \in Nat \ {0} /\ kAlias % kAlignment = 0
  /\ Bases \subseteq 0 .. kAlias - 1
  /\ Header \in Nat \ {0}
  /\ Offsets \in Nat \ {0}
BY FoundationsAssumption, SameCounting DEF A!Assumptions

LEMMA NextOffsetInGroup ==
  ASSUME NEW c \in Nat
  PROVE  /\ A!NextOffset(c) \in Nat
         /\ A!NextOffset(c) % kAlignment = 0
         /\ A!NextOffset(c) + kAlignment <= kAlias
<1> DEFINE groups == kAlias \div kAlignment
<1> DEFINE g == c % groups
<1>1. groups \in Nat /\ kAlias = groups * kAlignment
  BY AllocConstants
<1>2. groups # 0
  BY <1>1, AllocConstants
<1> HIDE DEF groups
<1>3. g \in Nat /\ g + 1 <= groups
  BY <1>1, <1>2
<1>4. A!NextOffset(c) = kAlignment * g
  BY DEF A!NextOffset, groups
<1> HIDE DEF g
<1>5. \A a, b, k \in Nat : a <= b => k * a <= k * b
  OBVIOUS
<1>6. kAlignment * (g + 1) <= kAlignment * groups
  BY <1>5, <1>3, <1>1, AllocConstants
<1>7. kAlignment * (g + 1) = kAlignment * g + kAlignment /\ kAlignment * groups = groups * kAlignment
      /\ kAlignment * g \in Nat
  BY <1>3, <1>1, AllocConstants
<1>8. (kAlignment * g) % kAlignment = 0
  BY <1>3, AllocConstants
<1> QED
  BY <1>1, <1>4, <1>6, <1>7, <1>8

LEMMA HeaderRoundsUp ==
  /\ A!RoundUpTo(Header, kAlignment) \in Nat
  /\ A!RoundUpTo(Header, kAlignment) % kAlignment = 0
  /\ kAlignment <= A!RoundUpTo(Header, kAlignment)
<1> DEFINE q == (Header + kAlignment - 1) \div kAlignment
<1>1. q \in Nat /\ q >= 1
  BY AllocConstants
<1>2. A!RoundUpTo(Header, kAlignment) = q * kAlignment
  BY DEF A!RoundUpTo
<1> HIDE DEF q
<1>3. q * kAlignment \in Nat /\ (q * kAlignment) % kAlignment = 0
  BY <1>1, AllocConstants
<1>4. kAlignment <= q * kAlignment
  BY <1>1, AllocConstants
<1> QED
  BY <1>2, <1>3, <1>4

LEMMA PayloadPlaced ==
  ASSUME NEW b \in A!Block, NEW base \in Bases
  PROVE  A!PayloadAt(b, base) = kAlias + b.offset
<1>1. (base + kAlias) \div kAlias = 1
  BY AllocConstants
<1> QED
  BY <1>1, AllocConstants DEF A!PayloadAt, A!Block

LEMMA FreeNumber ==
  ASSUME BlocksInv, NumbersInv, NEW x \in A!Busy
  PROVE  \E k \in 1 .. MaxBlocks : \A l \in live : l.id # k
<1> DEFINE Ids == {l.id : l \in live}
<1>1. IsFiniteSet(A!Busy) /\ Cardinality(A!Busy) \in Nat /\ Cardinality(A!Busy) # 0
  <2>1. A!Busy \in SUBSET Thread
    BY DEF A!Busy
  <2> QED
    BY <2>1, AllocConstants, FS_Subset, FS_CardinalityType, FS_EmptySet
<1>2. IsFiniteSet(Ids) /\ Cardinality(Ids) <= Cardinality(live)
      /\ Cardinality(Ids) \in Nat /\ Cardinality(live) \in Nat
  <2>1. IsFiniteSet(live) /\ Cardinality(live) \in Nat
    BY FS_CardinalityType DEF NumbersInv
  <2> DEFINE f == [l \in live |-> l.id]
  <2>2. f \in Surjection(live, Ids)
    BY DEF Surjection
  <2> HIDE DEF f, Ids
  <2> QED
    BY <2>1, <2>2, FS_Surjection, FS_CardinalityType
<1>3. Cardinality(Ids) < MaxBlocks
  BY <1>1, <1>2, AllocConstants DEF NumbersInv
<1>4. Cardinality(1 .. MaxBlocks) = MaxBlocks
  BY AllocConstants, FS_Interval
<1>5. Ids # 1 .. MaxBlocks
  <2> HIDE DEF Ids
  <2> QED
    BY <1>2, <1>3, <1>4, AllocConstants
<1>6. Ids \subseteq 1 .. MaxBlocks
  BY DEF BlocksInv
<1> QED
  BY <1>5, <1>6

LEMMA NoBlockType == A!NoBlock \in A!Block
BY AllocConstants DEF A!NoBlock, A!Block

LEMMA BlocksStep == BlocksInv /\ NumbersInv /\ [A!Next]_allocVars => BlocksInv'
<1> SUFFICES ASSUME BlocksInv, NumbersInv, [A!Next]_allocVars PROVE BlocksInv'
  OBVIOUS
<1> USE AllocConstants
<1>1. ASSUME NEW x \in Thread, NEW size \in Sizes, A!TakeOffset(x, size) PROVE BlocksInv'
  <2> DEFINE o == A!NextOffset(counter)
  <2> DEFINE off == IF o = 0 THEN A!RoundUpTo(Header, kAlignment) ELSE o
  <2>1. o \in Nat /\ o % kAlignment = 0 /\ o + kAlignment <= kAlias
    BY NextOffsetInGroup DEF BlocksInv
  <2> HIDE DEF o
  <2>3. o # 0 => kAlignment <= o
    BY <2>1
  <2>5. off \in Nat /\ off % kAlignment = 0 /\ kAlignment <= off
    BY <2>1, <2>3, HeaderRoundsUp
  <2> HIDE DEF off
  <2>6. counter' \in 0 .. Offsets - 1
    BY <1>1 DEF A!TakeOffset, BlocksInv
  <2> DEFINE b == [A!NoBlock EXCEPT !.size = size, !.offset = off]
  <2>7. b \in A!Block /\ OffsetTaken(b)
    <3>1. b.size = size /\ b.offset = off /\ b \in A!Block
      <4> HIDE DEF off
      <4>1. b = [A!NoBlock EXCEPT !.size = size, !.offset = off]
        OBVIOUS
      <4> HIDE DEF b
      <4> QED
        BY <4>1, <2>5, NoBlockType DEF A!Block
    <3> HIDE DEF b
    <3> QED
      BY <3>1, <2>5 DEF OffsetTaken
  <2>8. block' = [block EXCEPT ![x] = b]
    BY <1>1 DEF A!TakeOffset, off, o
  <2> HIDE DEF b
  <2> QED
    BY <1>1, <2>8, <2>7, <2>6 DEF A!TakeOffset, BlocksInv
<1>2. ASSUME NEW x \in Thread, A!MallocFails(x) PROVE BlocksInv'
  BY <1>2 DEF A!MallocFails, A!NoBlock, A!Block, BlocksInv, A!stats
<1>3. ASSUME NEW x \in Thread, NEW base \in Bases, A!Malloc(x, base) PROVE BlocksInv'
  <2> DEFINE b == [block[x] EXCEPT !.base = base, !.allocated = A!AllocatedSize(block[x]),
                                   !.payload = A!PayloadAt(block[x], base)]
  <2>1. block' = [block EXCEPT ![x] = b]
    BY <1>3 DEF A!Malloc
  <2>2. OffsetTaken(block[x]) /\ block[x] \in A!Block
    BY <1>3 DEF A!Malloc, BlocksInv
  <2>3. b \in A!Block /\ Placed(b)
    <3> DEFINE o == block[x].offset
    <3> DEFINE z == block[x].size
    <3>1. o \in Nat /\ o % kAlignment = 0 /\ kAlignment <= o /\ z \in Sizes
      BY <2>2 DEF A!Block, OffsetTaken
    <3>2. A!AllocatedSize(block[x]) = kAlias + o + z /\ A!PayloadAt(block[x], base) = kAlias + o
      BY <2>2, PayloadPlaced DEF A!AllocatedSize
    <3>3. /\ b \in A!Block /\ b.base = base /\ b.offset = o /\ b.size = z
          /\ b.allocated = kAlias + o + z /\ b.payload = kAlias + o
      <4>1. b = [block[x] EXCEPT !.base = base, !.allocated = A!AllocatedSize(block[x]),
                                 !.payload = A!PayloadAt(block[x], base)]
        OBVIOUS
      <4> HIDE DEF b, o, z
      <4>2. kAlias + o + z \in Nat /\ kAlias + o \in Nat
        BY <3>1
      <4>3. /\ b \in A!Block /\ b.base = base /\ b.size = block[x].size /\ b.offset = block[x].offset
            /\ b.allocated = A!AllocatedSize(block[x]) /\ b.payload = A!PayloadAt(block[x], base)
        BY <2>2, <3>2, <4>1, <4>2 DEF A!Block
      <4> QED
        BY <4>3, <3>2, Zenon DEF o, z
    <3> HIDE DEF b, o, z
    <3> QED
      BY <3>1, <3>3 DEF Placed, OffsetTaken
  <2> HIDE DEF b
  <2> QED
    BY ZenonT(30), <1>3, <2>1, <2>3 DEF A!Malloc, BlocksInv, A!stats
<1>4. ASSUME NEW x \in Thread, A!CountBytes(x) PROVE BlocksInv'
  BY <1>4 DEF A!CountBytes, BlocksInv
<1>5. ASSUME NEW x \in Thread, A!LoadMax(x) PROVE BlocksInv'
  BY <1>5 DEF A!LoadMax, BlocksInv, A!stats
<1>6. ASSUME NEW x \in Thread, A!CasSucceeds(x) PROVE BlocksInv'
  BY <1>6 DEF A!CasSucceeds, BlocksInv
<1>7. ASSUME NEW x \in Thread, A!CasFails(x) PROVE BlocksInv'
  BY <1>7 DEF A!CasFails, BlocksInv, A!stats
<1>8. ASSUME NEW x \in Thread, A!AllocateReturns(x) PROVE BlocksInv'
  <2>1. PICK k \in 1 .. MaxBlocks : live' = live \cup {[block |-> block[x], id |-> k]}
    BY <1>8, FreeNumber DEF A!AllocateReturns, A!Busy, NumbersInv, BlocksInv
  <2> QED
    BY <1>8, <2>1 DEF A!AllocateReturns, A!NoBlock, A!Block, BlocksInv, A!stats
<1>9. ASSUME NEW x \in Thread, NEW l \in live, A!Free(x, l) PROVE BlocksInv'
  BY <1>9 DEF A!Free, BlocksInv
<1>10. CASE UNCHANGED allocVars
  BY <1>10 DEF allocVars, BlocksInv
<1> QED
  BY <1>1, <1>2, <1>3, <1>4, <1>5, <1>6, <1>7, <1>8, <1>9, <1>10 DEF A!Next, A!AllocateStep

LEMMA NumbersStep == BlocksInv /\ NumbersInv /\ [A!Next]_allocVars => NumbersInv'
<1> SUFFICES ASSUME BlocksInv, NumbersInv, [A!Next]_allocVars PROVE NumbersInv'
  OBVIOUS
<1> USE AllocConstants, SameCounting
<1> DEFINE busy == A!Busy
<1>1. /\ IsFiniteSet(live) /\ Cardinality(live) \in Nat
      /\ IsFiniteSet(A!Busy) /\ Cardinality(A!Busy) \in Nat
  <2>1. A!Busy \in SUBSET Thread
    BY DEF A!Busy
  <2> QED
    BY <2>1, FS_Subset, FS_CardinalityType DEF NumbersInv
<1>2. ASSUME NEW x \in Thread, allocPc[x] # "idle", allocPc' = [allocPc EXCEPT ![x] = "idle"]
      PROVE  Cardinality(A!Busy') = Cardinality(A!Busy) - 1
  <2>1. x \in A!Busy /\ A!Busy' = A!Busy \ {x}
    BY <1>2 DEF A!Busy, BlocksInv
  <2> QED
    BY <2>1, <1>1, FS_RemoveElement
<1>3. ASSUME NEW x \in Thread, allocPc[x] # "idle", NEW p, p # "idle",
             allocPc' = [allocPc EXCEPT ![x] = p]
      PROVE  A!Busy' = A!Busy
  BY <1>3 DEF A!Busy, BlocksInv
<1>4. ASSUME NEW x \in Thread, NEW size \in Sizes, A!TakeOffset(x, size) PROVE NumbersInv'
  <2>1. x \notin A!Busy /\ A!Busy' = A!Busy \cup {x}
    BY <1>4 DEF A!TakeOffset, A!Busy, BlocksInv
  <2>2. Cardinality(A!Busy') = Cardinality(A!Busy) + 1
    BY <2>1, <1>1, FS_AddElement
  <2>3. Cardinality(live) + Cardinality(A!Busy) < MaxBlocks /\ live' = live
    BY <1>4 DEF A!TakeOffset
  <2> QED
    BY <1>1, <2>2, <2>3 DEF NumbersInv
<1>5. ASSUME NEW x \in Thread, A!MallocFails(x) PROVE NumbersInv'
  <2>1. allocPc[x] # "idle" /\ allocPc' = [allocPc EXCEPT ![x] = "idle"] /\ live' = live
    BY <1>5 DEF A!MallocFails
  <2>2. Cardinality(A!Busy') = Cardinality(A!Busy) - 1
    BY <1>2, <2>1
  <2> QED
    BY <1>1, <2>1, <2>2 DEF NumbersInv
<1>6. ASSUME NEW x \in Thread, NEW base \in Bases, A!Malloc(x, base) PROVE NumbersInv'
  BY <1>3, <1>6 DEF A!Malloc, NumbersInv
<1>7. ASSUME NEW x \in Thread, A!CountBytes(x) PROVE NumbersInv'
  BY <1>3, <1>7 DEF A!CountBytes, NumbersInv
<1>8. ASSUME NEW x \in Thread, A!LoadMax(x) PROVE NumbersInv'
  BY <1>3, <1>8 DEF A!LoadMax, NumbersInv
<1>9. ASSUME NEW x \in Thread, A!CasSucceeds(x) PROVE NumbersInv'
  BY <1>3, <1>9 DEF A!CasSucceeds, NumbersInv
<1>10. ASSUME NEW x \in Thread, A!CasFails(x) PROVE NumbersInv'
  BY <1>10 DEF A!CasFails, NumbersInv, A!Busy
<1>11. ASSUME NEW x \in Thread, A!AllocateReturns(x) PROVE NumbersInv'
  <2>1. PICK l : live' = live \cup {l}
    BY <1>11 DEF A!AllocateReturns
  <2>2. Cardinality(A!Busy') = Cardinality(A!Busy) - 1
    BY <1>2, <1>11 DEF A!AllocateReturns
  <2>3. IsFiniteSet(live') /\ Cardinality(live') <= Cardinality(live) + 1 /\ Cardinality(live') \in Nat
    <3>1. /\ IsFiniteSet(live \cup {l})
          /\ Cardinality(live \cup {l}) = IF l \in live THEN Cardinality(live) ELSE Cardinality(live) + 1
      BY <1>1, FS_AddElement
    <3> QED
      BY <1>1, <2>1, <3>1
  <2> QED
    BY <1>1, <2>2, <2>3 DEF NumbersInv
<1>12. ASSUME NEW x \in Thread, NEW l \in live, A!Free(x, l) PROVE NumbersInv'
  <2>1. live' = live \ {l} /\ A!Busy' = A!Busy
    BY <1>12 DEF A!Free, A!Busy
  <2>2. IsFiniteSet(live') /\ Cardinality(live') = Cardinality(live) - 1
    BY <1>1, <2>1, FS_RemoveElement
  <2> QED
    BY <1>1, <2>1, <2>2 DEF NumbersInv
<1>13. CASE UNCHANGED allocVars
  BY <1>13 DEF allocVars, NumbersInv, A!Busy
<1> QED
  BY <1>4, <1>5, <1>6, <1>7, <1>8, <1>9, <1>10, <1>11, <1>12, <1>13 DEF A!Next, A!AllocateStep

(* A block on its way that no action touches weighs the same.              *)
LEMMA CountingSteps ==
  ASSUME NEW b, NEW c, NEW s, IsFiniteSet(s), \A x \in s : b[x].allocated \in Nat
  PROVE  /\ Counting(b, s) \in Nat
         /\ (\A x \in s : c[x] = b[x]) => Counting(c, s) = Counting(b, s)
<1> DEFINE w == [x \in s |-> b[x].allocated]
<1>1. \A x \in s : w[x] \in Nat
  OBVIOUS
<1>2. (\A x \in s : c[x] = b[x]) => \A x \in s : [z \in s |-> c[z].allocated][x] = w[x]
  OBVIOUS
<1>3. Counting(b, s) = Sum(w, s)
  BY DEF Counting
<1> HIDE DEF w
<1> QED
  BY <1>1, <1>2, <1>3, SumProperties DEF Counting

LEMMA CountingWithout ==
  ASSUME NEW b, NEW c, NEW s, IsFiniteSet(s), \A x \in s : b[x].allocated \in Nat,
         NEW y \in s, \A x \in s \ {y} : c[x] = b[x]
  PROVE  Counting(b, s) = b[y].allocated + Counting(c, s \ {y})
<1> DEFINE w == [x \in s |-> b[x].allocated]
<1> DEFINE v == [x \in s \ {y} |-> c[x].allocated]
<1>1. \A x \in s : w[x] \in Nat
  OBVIOUS
<1>2. w[y] = b[y].allocated /\ \A x \in s \ {y} : v[x] = w[x]
  OBVIOUS
<1>3. Counting(b, s) = Sum(w, s) /\ Counting(c, s \ {y}) = Sum(v, s \ {y})
  BY DEF Counting
<1> HIDE DEF w, v
<1>4. Sum(w, s) = w[y] + Sum(v, s \ {y})
  BY <1>1, <1>2, SumProperties
<1> QED
  BY <1>2, <1>3, <1>4

LEMMA BytesSteps ==
  ASSUME NEW s, IsFiniteSet(s), \A l \in s : l.block.allocated \in Nat
  PROVE  /\ Bytes(s) \in Nat
         /\ s = {} => Bytes(s) = 0
         /\ \A l \in s : Bytes(s) = l.block.allocated + Bytes(s \ {l})
<1> DEFINE w == [l \in s |-> l.block.allocated]
<1>1. \A x \in s : w[x] \in Nat /\ w[x] = x.block.allocated
  OBVIOUS
<1>2. Bytes(s) = Sum(w, s)
  BY DEF Bytes
<1>3. \A l \in s : Bytes(s \ {l}) = Sum([x \in s \ {l} |-> x.block.allocated], s \ {l})
  BY DEF Bytes
<1>4. \A l \in s : \A z \in s \ {l} : [x \in s \ {l} |-> x.block.allocated][z] = w[z]
  OBVIOUS
<1> HIDE DEF w
<1>5. Sum(w, s) \in Nat /\ (s = {} => Sum(w, s) = 0)
  BY <1>1, SumProperties
<1>6. ASSUME NEW l \in s PROVE Bytes(s) = l.block.allocated + Bytes(s \ {l})
  <2> DEFINE v == [x \in s \ {l} |-> x.block.allocated]
  <2>1. \A z \in s \ {l} : v[z] = w[z]
    BY <1>4
  <2> HIDE DEF v
  <2>2. Sum(w, s) = w[l] + Sum(v, s \ {l})
    BY <1>1, <2>1, SumProperties
  <2>3. Bytes(s \ {l}) = Sum(v, s \ {l})
    BY DEF Bytes, v
  <2> QED
    BY <1>1, <1>2, <2>2, <2>3
<1> QED
  BY <1>2, <1>5, <1>6

LEMMA BytesInUse == BlocksInv /\ NumbersInv /\ BytesInv => inUse \in Nat
<1> SUFFICES ASSUME BlocksInv, NumbersInv, BytesInv PROVE inUse \in Nat
  OBVIOUS
<1>1. IsFiniteSet(A!Counted) /\ IsFiniteSet(live)
  <2>1. A!Counted \in SUBSET Thread
    BY DEF A!Counted
  <2> QED
    BY <2>1, AllocConstants, FS_Subset DEF NumbersInv
<1>2. /\ \A x \in A!Counted : block[x].allocated \in Nat
      /\ \A l \in live : l.block.allocated \in Nat
  BY DEF BlocksInv, A!Block, A!Counted
<1>3. Bytes(live) \in Nat /\ Counting(block, A!Counted) \in Nat
  BY <1>1, <1>2, BytesSteps, CountingSteps
<1> QED
  BY <1>3 DEF BytesInv

LEMMA BytesStep == BlocksInv /\ NumbersInv /\ BytesInv /\ [A!Next]_allocVars => BytesInv'
<1> SUFFICES ASSUME BlocksInv, NumbersInv, BytesInv, [A!Next]_allocVars PROVE BytesInv'
  OBVIOUS
<1>1. IsFiniteSet(A!Counted) /\ IsFiniteSet(live)
  <2>1. A!Counted \in SUBSET Thread
    BY DEF A!Counted
  <2> QED
    BY <2>1, AllocConstants, FS_Subset DEF NumbersInv
<1>2. /\ \A x \in Thread : block[x].allocated \in Nat
      /\ \A l \in live : l.block.allocated \in Nat
  BY DEF BlocksInv, A!Block
<1>3. Bytes(live) \in Nat /\ Counting(block, A!Counted) \in Nat
  <2>1. \A x \in A!Counted : block[x].allocated \in Nat
    BY <1>2 DEF A!Counted
  <2> QED
    BY <1>1, <1>2, <2>1, BytesSteps, CountingSteps
<1>4. ASSUME live' = live, inUse' = inUse, A!Counted' = A!Counted,
             \A x \in A!Counted : block'[x] = block[x]
      PROVE  BytesInv'
  <2>1. \A x \in A!Counted : block[x].allocated \in Nat
    BY <1>2 DEF A!Counted
  <2>2. Counting(block', A!Counted) = Counting(block, A!Counted)
    BY <1>1, <1>4, <2>1, CountingSteps
  <2> QED
    BY <1>4, <2>2 DEF BytesInv
<1>5. ASSUME NEW x \in Thread, NEW size \in Sizes, A!TakeOffset(x, size) PROVE BytesInv'
  <2>1. live' = live /\ inUse' = inUse /\ A!Counted' = A!Counted
    BY <1>5 DEF A!TakeOffset, A!Counted, BlocksInv
  <2>2. \A y \in A!Counted : block'[y] = block[y]
    BY <1>5 DEF A!TakeOffset, A!Counted, BlocksInv
  <2> QED
    BY <1>4, <2>1, <2>2
<1>6. ASSUME NEW x \in Thread, A!MallocFails(x) PROVE BytesInv'
  <2>1. live' = live /\ inUse' = inUse /\ A!Counted' = A!Counted
    BY <1>6 DEF A!MallocFails, A!Counted, BlocksInv, A!stats
  <2>2. \A y \in A!Counted : block'[y] = block[y]
    BY <1>6 DEF A!MallocFails, A!Counted, BlocksInv
  <2> QED
    BY <1>4, <2>1, <2>2
<1>7. ASSUME NEW x \in Thread, NEW base \in Bases, A!Malloc(x, base) PROVE BytesInv'
  <2>1. live' = live /\ inUse' = inUse /\ A!Counted' = A!Counted
    BY <1>7 DEF A!Malloc, A!Counted, BlocksInv, A!stats
  <2>2. \A y \in A!Counted : block'[y] = block[y]
    BY <1>7 DEF A!Malloc, A!Counted, BlocksInv
  <2> QED
    BY <1>4, <2>1, <2>2
<1>8. ASSUME NEW x \in Thread, A!CountBytes(x) PROVE BytesInv'
  <2>1. /\ x \in A!Counted' /\ A!Counted' \ {x} = A!Counted /\ A!Counted' = A!Counted \cup {x}
        /\ live' = live /\ block' = block /\ inUse' = inUse + block[x].allocated
    BY <1>8 DEF A!CountBytes, A!Counted, BlocksInv
  <2>2. IsFiniteSet(A!Counted')
    BY <1>1, <2>1, FS_AddElement
  <2>3. \A y \in A!Counted' : block[y].allocated \in Nat
    BY <1>2 DEF A!Counted
  <2>4. Counting(block, A!Counted') = block[x].allocated + Counting(block, A!Counted)
    BY <2>1, <2>2, <2>3, CountingWithout
  <2> QED
    BY <1>2, <1>3, <2>1, <2>4 DEF BytesInv
<1>9. ASSUME NEW x \in Thread, A!LoadMax(x) PROVE BytesInv'
  <2>1. live' = live /\ inUse' = inUse /\ block' = block /\ A!Counted' = A!Counted
    BY <1>9 DEF A!LoadMax, A!Counted, BlocksInv, A!stats
  <2> QED
    BY <1>4, <2>1
<1>10. ASSUME NEW x \in Thread, A!CasSucceeds(x) PROVE BytesInv'
  <2>1. live' = live /\ inUse' = inUse /\ block' = block /\ A!Counted' = A!Counted
    BY <1>10 DEF A!CasSucceeds, A!Counted, BlocksInv
  <2> QED
    BY <1>4, <2>1
<1>11. ASSUME NEW x \in Thread, A!CasFails(x) PROVE BytesInv'
  <2>1. live' = live /\ inUse' = inUse /\ block' = block /\ A!Counted' = A!Counted
    BY <1>11 DEF A!CasFails, A!Counted, BlocksInv, A!stats
  <2> QED
    BY <1>4, <2>1
<1>12. ASSUME NEW x \in Thread, A!AllocateReturns(x) PROVE BytesInv'
  <2>1. x \in A!Busy
    BY <1>12 DEF A!AllocateReturns, A!Busy
  <2>2. PICK k \in 1 .. MaxBlocks :
          live' = live \cup {[block |-> block[x], id |-> k]} /\ \A l \in live : l.id # k
    BY <1>12, <2>1, FreeNumber DEF A!AllocateReturns
  <2> DEFINE new == [block |-> block[x], id |-> k]
  <2>3. new \notin live /\ new.block = block[x]
    BY <2>2
  <2> HIDE DEF new
  <2>4. live' = live \cup {new} /\ live' \ {new} = live /\ new \in live'
    BY <2>2, <2>3 DEF new
  <2>5. IsFiniteSet(live') /\ \A l \in live' : l.block.allocated \in Nat
    BY <1>1, <1>2, <2>3, <2>4, FS_AddElement
  <2>6. Bytes(live') = block[x].allocated + Bytes(live)
    BY <2>3, <2>4, <2>5, BytesSteps
  <2>7. /\ x \in A!Counted /\ A!Counted' = A!Counted \ {x} /\ inUse' = inUse
        /\ \A y \in A!Counted \ {x} : block'[y] = block[y]
    BY <1>12 DEF A!AllocateReturns, A!Counted, A!stats, BlocksInv
  <2>8. \A y \in A!Counted : block[y].allocated \in Nat
    BY <1>2 DEF A!Counted
  <2>9. Counting(block, A!Counted) = block[x].allocated + Counting(block', A!Counted')
    <3>1. Counting(block, A!Counted) = block[x].allocated + Counting(block', A!Counted \ {x})
      <4> DEFINE c == block'
      <4>1. x \in A!Counted /\ \A y \in A!Counted \ {x} : c[y] = block[y]
        BY <2>7
      <4> HIDE DEF c
      <4>2. Counting(block, A!Counted) = block[x].allocated + Counting(c, A!Counted \ {x})
        BY <1>1, <2>8, <4>1, CountingWithout
      <4> QED
        BY <4>2, Zenon DEF c
    <3> QED
      BY <2>7, <3>1
  <2>10. Counting(block', A!Counted') \in Nat
    <3>1. IsFiniteSet(A!Counted') /\ \A y \in A!Counted' : block'[y].allocated \in Nat
      BY <1>1, <2>7, <2>8, FS_RemoveElement
    <3> QED
      BY <3>1, CountingSteps
  <2> QED
    BY <1>2, <1>3, <2>6, <2>7, <2>9, <2>10 DEF BytesInv
<1>13. ASSUME NEW x \in Thread, NEW l \in live, A!Free(x, l) PROVE BytesInv'
  <2>1. /\ live' = live \ {l} /\ inUse' = inUse - l.block.allocated
        /\ block' = block /\ A!Counted' = A!Counted
    BY <1>13 DEF A!Free, A!Counted
  <2>2. Bytes(live) = l.block.allocated + Bytes(live')
    BY <1>1, <1>2, <2>1, BytesSteps
  <2>3. Bytes(live') \in Nat
    <3>1. IsFiniteSet(live') /\ \A m \in live' : m.block.allocated \in Nat
      BY <1>1, <1>2, <2>1, FS_RemoveElement
    <3> QED
      BY <3>1, BytesSteps
  <2> QED
    BY <1>2, <1>3, <2>1, <2>2, <2>3 DEF BytesInv
<1>14. CASE UNCHANGED allocVars
  <2>1. live' = live /\ inUse' = inUse /\ block' = block /\ A!Counted' = A!Counted
    BY <1>14 DEF allocVars, A!Counted
  <2> QED
    BY <1>4, <2>1
<1> QED
  BY <1>5, <1>6, <1>7, <1>8, <1>9, <1>10, <1>11, <1>12, <1>13, <1>14 DEF A!Next, A!AllocateStep

LEMMA PeakStep == BlocksInv /\ NumbersInv /\ BytesInv /\ PeakInv /\ [A!Next]_allocVars => PeakInv'
<1> SUFFICES ASSUME BlocksInv, NumbersInv, BytesInv, PeakInv, [A!Next]_allocVars PROVE PeakInv'
  OBVIOUS
<1>1. inUse \in Nat
  BY BytesInUse
<1>2. \A x \in Thread : block[x].allocated \in Nat
  BY DEF BlocksInv, A!Block
<1>3. ASSUME maxInUse' = maxInUse, peak' = peak, Recording' = Recording,
             \A x \in Recording : prev'[x] = prev[x] /\ block'[x] = block[x],
             prev' \in [Thread -> Nat], expected' \in [Thread -> Nat],
             \A x \in Thread : allocPc'[x] = "cas" => expected'[x] <= maxInUse
      PROVE  PeakInv'
  BY <1>3 DEF PeakInv
<1>4. ASSUME NEW x \in Thread, NEW size \in Sizes, A!TakeOffset(x, size) PROVE PeakInv'
  <2>1. Recording' = Recording /\ x \notin Recording
    BY <1>4 DEF A!TakeOffset, Recording, BlocksInv
  <2> QED
    BY <1>3, <1>4, <2>1 DEF A!TakeOffset, Recording, PeakInv, BlocksInv
<1>5. ASSUME NEW x \in Thread, A!MallocFails(x) PROVE PeakInv'
  <2>1. Recording' = Recording /\ x \notin Recording
    BY <1>5 DEF A!MallocFails, Recording, BlocksInv
  <2> QED
    BY <1>3, <1>5, <2>1 DEF A!MallocFails, A!stats, Recording, PeakInv, BlocksInv
<1>6. ASSUME NEW x \in Thread, NEW base \in Bases, A!Malloc(x, base) PROVE PeakInv'
  <2>1. Recording' = Recording /\ x \notin Recording
    BY <1>6 DEF A!Malloc, Recording, BlocksInv
  <2> QED
    BY <1>3, <1>6, <2>1 DEF A!Malloc, A!stats, Recording, PeakInv, BlocksInv
<1>7. ASSUME NEW x \in Thread, A!CountBytes(x) PROVE PeakInv'
  <2>1. /\ Recording' = Recording \cup {x} /\ x \notin Recording
        /\ block' = block /\ expected' = expected /\ maxInUse' = maxInUse
        /\ prev' = [prev EXCEPT ![x] = inUse]
        /\ peak' = IF inUse + block[x].allocated > peak THEN inUse + block[x].allocated ELSE peak
    BY <1>7 DEF A!CountBytes, Recording, BlocksInv
  <2>2. prev'[x] = inUse /\ \A y \in Recording : prev'[y] = prev[y]
    BY <2>1 DEF PeakInv, Recording
  <2>3. peak' \in Nat /\ peak <= peak' /\ maxInUse <= peak'
    BY <1>1, <1>2, <2>1 DEF PeakInv
  <2>4. \A y \in Recording' : prev'[y] + block'[y].allocated <= peak'
    BY <1>1, <1>2, <2>1, <2>2, <2>3 DEF PeakInv, Recording
  <2>5. maxInUse' = peak' \/ \E y \in Recording' : prev'[y] + block'[y].allocated = peak'
    BY <2>1, <2>2 DEF PeakInv
  <2>6. \A y \in Thread : allocPc'[y] = "cas" => expected'[y] <= maxInUse'
    BY <1>7, <2>1 DEF A!CountBytes, PeakInv, BlocksInv
  <2>7. prev' \in [Thread -> Nat]
    BY <1>1, <2>1 DEF PeakInv
  <2> QED
    BY <2>1, <2>3, <2>4, <2>5, <2>6, <2>7 DEF PeakInv
<1>8. ASSUME NEW x \in Thread, A!LoadMax(x) PROVE PeakInv'
  <2>1. Recording' = Recording
    BY <1>8 DEF A!LoadMax, Recording, BlocksInv
  <2>2. \A y \in Thread : allocPc'[y] = "cas" => expected'[y] <= maxInUse
    BY <1>8 DEF A!LoadMax, PeakInv, BlocksInv
  <2> QED
    BY <1>3, <1>8, <2>1, <2>2 DEF A!LoadMax, A!stats, PeakInv
<1>9. ASSUME NEW x \in Thread, A!CasSucceeds(x) PROVE PeakInv'
  <2> DEFINE bytes == prev[x] + block[x].allocated
  <2>1. bytes \in Nat /\ bytes <= peak
    BY <1>2, <1>9 DEF A!CasSucceeds, PeakInv, Recording
  <2>2. /\ x \in Recording /\ Recording' = Recording \ {x}
        /\ block' = block /\ prev' = prev /\ expected' = expected /\ peak' = peak
        /\ maxInUse' = IF maxInUse > bytes THEN maxInUse ELSE bytes
    BY <1>9 DEF A!CasSucceeds, A!Desired, Recording, BlocksInv
  <2>3. maxInUse' \in Nat /\ maxInUse <= maxInUse' /\ bytes <= maxInUse' /\ maxInUse' <= peak
    BY <2>1, <2>2 DEF PeakInv
  <2>4. maxInUse' = peak' \/ \E y \in Recording' : prev'[y] + block'[y].allocated = peak'
    <3>1. CASE maxInUse = peak
      BY <2>2, <2>3, <3>1 DEF PeakInv
    <3>2. ASSUME NEW y \in Recording, prev[y] + block[y].allocated = peak
          PROVE maxInUse' = peak' \/ \E z \in Recording' : prev'[z] + block'[z].allocated = peak'
      BY <2>1, <2>2, <2>3, <3>2 DEF PeakInv
    <3> QED
      BY <3>1, <3>2 DEF PeakInv
  <2>5. \A y \in Thread : allocPc'[y] = "cas" => expected'[y] <= maxInUse'
    <3> SUFFICES ASSUME NEW y \in Thread, allocPc'[y] = "cas" PROVE expected'[y] <= maxInUse'
      OBVIOUS
    <3>1. allocPc[y] = "cas"
      BY <1>9 DEF A!CasSucceeds, BlocksInv
    <3>2. expected[y] \in Nat /\ expected[y] <= maxInUse /\ maxInUse \in Nat
      BY <3>1 DEF PeakInv
    <3> QED
      BY <2>2, <2>3, <3>2
  <2> HIDE DEF bytes
  <2> QED
    BY <2>2, <2>3, <2>4, <2>5 DEF PeakInv
<1>10. ASSUME NEW x \in Thread, A!CasFails(x) PROVE PeakInv'
  <2>1. Recording' = Recording
    BY <1>10 DEF A!CasFails, Recording, BlocksInv
  <2>2. \A y \in Thread : allocPc'[y] = "cas" => expected'[y] <= maxInUse
    BY <1>10 DEF A!CasFails, PeakInv, BlocksInv
  <2> QED
    BY <1>3, <1>10, <2>1, <2>2 DEF A!CasFails, A!stats, PeakInv
<1>11. ASSUME NEW x \in Thread, A!AllocateReturns(x) PROVE PeakInv'
  <2>1. Recording' = Recording /\ x \notin Recording
    BY <1>11 DEF A!AllocateReturns, Recording, BlocksInv
  <2> QED
    BY <1>3, <1>11, <2>1 DEF A!AllocateReturns, A!stats, Recording, PeakInv, BlocksInv
<1>12. ASSUME NEW x \in Thread, NEW l \in live, A!Free(x, l) PROVE PeakInv'
  <2>1. Recording' = Recording
    BY <1>12 DEF A!Free, Recording
  <2> QED
    BY <1>3, <1>12, <2>1 DEF A!Free, PeakInv
<1>13. CASE UNCHANGED allocVars
  BY <1>13 DEF allocVars, PeakInv, Recording
<1> QED
  BY <1>4, <1>5, <1>6, <1>7, <1>8, <1>9, <1>10, <1>11, <1>12, <1>13 DEF A!Next, A!AllocateStep

LEMMA AllocInit == A!Init => AllocInv
<1> SUFFICES ASSUME A!Init PROVE AllocInv
  OBVIOUS
<1>1. BlocksInv
  BY NoBlockType, AllocConstants DEF A!Init, BlocksInv
<1>2. /\ live = {} /\ A!Busy = {} /\ A!Counted = {} /\ Recording = {}
  BY DEF A!Init, A!Busy, A!Counted, Recording
<1>3. NumbersInv
  BY <1>2, FS_EmptySet, AllocConstants DEF NumbersInv
<1>4. BytesInv
  <2>1. Bytes({}) = 0
    BY FS_EmptySet, BytesSteps
  <2>2. Counting(block, {}) = 0
    BY FS_EmptySet, SumProperties DEF Counting
  <2> QED
    BY <1>2, <2>1, <2>2 DEF BytesInv, A!Init
<1>5. PeakInv
  BY <1>2 DEF A!Init, PeakInv
<1> QED
  BY <1>1, <1>3, <1>4, <1>5 DEF AllocInv

LEMMA AllocStep == AllocInv /\ [A!Next]_allocVars => AllocInv'
BY BlocksStep, NumbersStep, BytesStep, PeakStep DEF AllocInv

LEMMA MultiplesAdd ==
  ASSUME NEW k \in Nat \ {0}, NEW a \in Nat, NEW b \in Nat, a % k = 0, b % k = 0
  PROVE  (a + b) % k = 0
<1> DEFINE p == a \div k
<1> DEFINE q == b \div k
<1>1. p \in Nat /\ a = k * p
  OBVIOUS
<1>2. q \in Nat /\ b = k * q
  OBVIOUS
<1> HIDE DEF p, q
<1>3. a + b = k * (p + q)
  BY <1>1, <1>2
<1>4. (k * (p + q)) % k = 0
  BY <1>1, <1>2
<1> QED
  BY <1>3, <1>4

LEMMA AllocSound ==
  AllocInv => A!TypeOK /\ A!InUseIsExact /\ A!MaxIsPeak /\ A!LayoutSound
<1> SUFFICES ASSUME AllocInv PROVE A!TypeOK /\ A!InUseIsExact /\ A!MaxIsPeak /\ A!LayoutSound
  OBVIOUS
<1>1. A!TypeOK
  BY BytesInUse DEF AllocInv, BlocksInv, PeakInv, A!TypeOK
<1>2. A!InUseIsExact
  <2>1. IsFiniteSet(A!Counted) /\ IsFiniteSet(live)
    <3>1. A!Counted \in SUBSET Thread
      BY DEF A!Counted
    <3> QED
      BY <3>1, AllocConstants, FS_Subset DEF NumbersInv, AllocInv
  <2>2. A!MapThenSumSet(LAMBDA l : l.block.allocated, live) = Bytes(live)
    BY <2>1, BytesAreSummed
  <2>3. A!MapThenSumSet(LAMBDA x : block[x].allocated, A!Counted) = Counting(block, A!Counted)
    BY <2>1, CountingIsSummed
  <2> QED
    BY <2>2, <2>3 DEF AllocInv, BytesInv, A!InUseIsExact
<1>3. A!MaxIsPeak
  BY DEF A!MaxIsPeak, AllocInv, PeakInv, Recording
<1>4. A!LayoutSound
  <2> SUFFICES ASSUME NEW b \in A!Block, Placed(b)
               PROVE  /\ b.payload % kAlignment = 0
                      /\ b.payload + b.size <= b.base + b.allocated
                      /\ Header <= b.offset => b.payload - Header > b.base
                      /\ Header <= kAlignment => Header <= b.offset
    BY DEF A!LayoutSound, AllocInv, BlocksInv
  <2>1. /\ b.offset \in Nat /\ b.size \in Nat /\ b.base \in 0 .. kAlias - 1
        /\ b.payload = kAlias + b.offset /\ b.allocated = kAlias + b.offset + b.size
        /\ b.offset % kAlignment = 0 /\ kAlignment <= b.offset
    <3>1. b.offset \in Nat /\ b.size \in Sizes \cup {0}
      BY DEF A!Block
    <3>2. /\ b.offset % kAlignment = 0 /\ kAlignment <= b.offset /\ b.base \in Bases
          /\ b.payload = kAlias + b.offset /\ b.allocated = kAlias + b.offset + b.size
      BY DEF Placed, OffsetTaken
    <3>3. b.offset \in Nat
      BY <3>1, AllocConstants
    <3>4. b.size \in Nat
      <4>1. Sizes \subseteq Nat
        BY AllocConstants
      <4>2. 0 \in Nat
        OBVIOUS
      <4>3. b.size \in Sizes \/ b.size = 0
        BY <3>1, Zenon
      <4> QED
        BY <4>1, <4>2, <4>3, Zenon
    <3>5. b.base \in 0 .. kAlias - 1
      BY <3>2, AllocConstants
    <3> QED
      BY <3>2, <3>3, <3>4, <3>5
  <2>2. (kAlias + b.offset) % kAlignment = 0
    BY <2>1, MultiplesAdd, AllocConstants
  <2> QED
    BY <2>1, <2>2, AllocConstants
<1> QED
  BY <1>1, <1>2, <1>3, <1>4

-------------------------------------------------------------------------------
(***************************************************************************)
(* RunnerHandles: a fixed pool keeps the manager its memory came from.     *)
(***************************************************************************)
Owners == Opaques \cup {"", H!Default, H!Operators}

HandleInv ==
  /\ mine \in H!Managers
  /\ owner \in [Handles -> Owners] /\ object \in [Handles -> Opaques \cup {"", H!Default}]
  /\ \A h \in Handles : owner[h] # H!Operators => object[h] = owner[h]
  /\ \A h \in Handles : owner[h] = H!Operators => object[h] = ""
  /\ \A e \in log : e[1] = e[2] /\ ~e[3]

LEMMA HandleInit == H!Init => HandleInv
BY DEF H!Init, HandleInv, Owners, H!Operators, H!Default

LEMMA Freed == ASSUME NEW x, NEW e, e = <<x, x, FALSE>> PROVE e[1] = e[2] /\ ~e[3]
<1>1. \A z : <<x, x, z>>[3] = z /\ <<x, x, z>>[1] = x /\ <<x, x, z>>[2] = x
  OBVIOUS
<1>2. <<x, x, FALSE>>[3] = FALSE /\ <<x, x, FALSE>>[1] = x /\ <<x, x, FALSE>>[2] = x
  BY <1>1, Zenon
<1> QED
  BY <1>2, Zenon

LEMMA HandleStep == HandleInv /\ [H!Next]_handleVars => HandleInv'
<1> SUFFICES ASSUME HandleInv, [H!Next]_handleVars PROVE HandleInv'
  OBVIOUS
<1>1. /\ H!Operators \notin Opaques \cup {"", H!Default}
      /\ "" \notin Opaques \cup {H!Default, H!Operators}
  BY FoundationsAssumption DEF H!Assumptions, H!Operators, H!Default
<1>2. H!Initialized(mine) \in Opaques \cup {H!Default}
  BY DEF HandleInv, H!Initialized, H!Managers
<1>3. CASE H!CallerChangesManager
  BY <1>3 DEF H!CallerChangesManager, HandleInv
<1>4. ASSUME NEW h \in Handles, NEW m \in Opaques \cup {H!Default}, H!CreateIn(h, m)
      PROVE HandleInv'
  BY <1>1, <1>4 DEF H!CreateIn, HandleInv, Owners
<1>5. ASSUME NEW h \in Handles, H!ThreadParallelRunnerCreate(h) PROVE HandleInv'
  BY <1>2, <1>4, <1>5 DEF H!ThreadParallelRunnerCreate
<1>6. ASSUME NEW h \in Handles, H!ThreadParallelRunnerDestroy(h) PROVE HandleInv'
  <2>1. /\ owner' = [owner EXCEPT ![h] = ""] /\ object' = [object EXCEPT ![h] = ""]
        /\ mine' = mine /\ object[h] = owner[h]
        /\ \A e \in log' : e \in log \/ e = <<owner[h], object[h], object'[h] # "">>
    BY <1>6 DEF H!ThreadParallelRunnerDestroy, HandleInv
  <2>2. (object'[h] # "") = FALSE
    BY <2>1 DEF HandleInv
  <2>3. \A e \in log' : e[1] = e[2] /\ ~e[3]
    <3> SUFFICES ASSUME NEW e \in log', e \notin log PROVE e[1] = e[2] /\ ~e[3]
      BY DEF HandleInv
    <3>1. e = <<owner[h], owner[h], FALSE>>
      BY <2>1, <2>2, Zenon
    <3> QED
      BY <3>1, Freed, Zenon
  <2> QED
    BY <1>1, <2>1, <2>3 DEF HandleInv, Owners
<1>7. ASSUME NEW h \in Handles, H!ResizableParallelRunnerCreate(h) PROVE HandleInv'
  BY <1>1, <1>7 DEF H!ResizableParallelRunnerCreate, HandleInv, Owners
<1>8. ASSUME NEW h \in Handles, H!ResizableParallelRunnerDestroy(h) PROVE HandleInv'
  <2>1. /\ owner' = [owner EXCEPT ![h] = ""] /\ object' = object /\ object[h] = ""
        /\ mine' = mine /\ owner[h] = H!Operators
    BY <1>8 DEF H!ResizableParallelRunnerDestroy, HandleInv
  <2>2. log' = log \cup {<<H!Operators, H!Operators, FALSE>>}
    BY <1>8, <2>1, Zenon DEF H!ResizableParallelRunnerDestroy
  <2>3. \A e \in log' : e[1] = e[2] /\ ~e[3]
    <3> SUFFICES ASSUME NEW e \in log', e \notin log PROVE e[1] = e[2] /\ ~e[3]
      BY DEF HandleInv
    <3>1. e = <<H!Operators, H!Operators, FALSE>>
      BY <2>2, Zenon
    <3> QED
      BY <3>1, Freed, Zenon
  <2> QED
    BY <1>1, <2>1, <2>3 DEF HandleInv, Owners
<1>9. CASE UNCHANGED handleVars
  BY <1>9 DEF handleVars, HandleInv
<1> QED
  BY <1>3, <1>5, <1>6, <1>7, <1>8, <1>9 DEF H!Next

LEMMA HandleSound == HandleInv => H!TypeOK /\ H!MemoryReturned
<1>1. H!Operators \notin Opaques \cup {"", H!Default}
  BY FoundationsAssumption DEF H!Assumptions, H!Operators, H!Default
<1> QED
  BY <1>1 DEF HandleInv, H!TypeOK, H!MemoryReturned, Owners

-------------------------------------------------------------------------------
(***************************************************************************)
(* PaddedBytes: every operation keeps an object that stands for a vector.  *)
(***************************************************************************)
Content == {"zero", "set", "any"}
Objects == [size : 0 .. MaxSize, capacity : 0 .. B!MaxCapacity, data : Seq(B!Byte)]

(* The memory of an object holds its capacity and the padding.             *)
Memory(b) ==
  /\ b \in Objects
  /\ b.size <= b.capacity
  /\ b.capacity = 0 => b.data = <<>>
  /\ b.capacity > 0 => Len(b.data) >= b.capacity + Padding

Stands(b, v) ==
  /\ Memory(b)
  /\ v \in Seq(Content)
  /\ b.size = Len(v)
  /\ \A k \in 1 .. b.size : v[k] # "any" => b.data[k] = v[k]

VectorInv ==
  /\ buf = [o \in Obj |-> buf[o]]
  /\ vec = [o \in Obj |-> vec[o]]
  /\ \A o \in Obj : Stands(buf[o], vec[o])

(* Growing and resizing when the allocation succeeds.                      *)
Grown(b, n) == B!IncreaseCapacityTo(b, n, TRUE)
Sized(b, n) == B!Resized(b, n, TRUE)

LEMMA ByteConstants ==
  /\ MaxSize \in Nat /\ MinCapacity \in Nat \ {0} /\ Padding \in Nat \ {0}
  /\ B!MaxCapacity \in Nat /\ MaxSize <= B!MaxCapacity /\ MinCapacity <= B!MaxCapacity
  /\ (3 * MaxSize) \div 2 <= B!MaxCapacity
  /\ B!Allocation = {TRUE}
<1>1. MaxSize \in Nat /\ MinCapacity \in Nat \ {0} /\ Padding \in Nat \ {0}
  BY FoundationsAssumption DEF B!Assumptions
<1>2. B!Allocation = {TRUE}
  BY DEF B!Allocation
<1>3. MaxSize <= (3 * MaxSize) \div 2 /\ (3 * MaxSize) \div 2 \in Nat
  BY <1>1
<1> QED
  BY <1>1, <1>2, <1>3 DEF B!MaxCapacity

LEMMA FunctionIsSequence ==
  ASSUME NEW D, NEW n \in Nat, NEW f \in [1 .. n -> D]
  PROVE  f \in Seq(D) /\ Len(f) = n /\ DOMAIN f = 1 .. n
BY SeqDef

LEMMA MemoryBytes ==
  ASSUME NEW b, Memory(b)
  PROVE  /\ b.size \in 0 .. MaxSize /\ b.capacity \in 0 .. B!MaxCapacity
         /\ b.data \in Seq(B!Byte) /\ Len(b.data) \in Nat
         /\ DOMAIN b.data = 1 .. Len(b.data)
         /\ \A k \in 1 .. Len(b.data) : b.data[k] \in B!Byte
         /\ b.size <= Len(b.data)
         /\ b.capacity > 0 => b.capacity < Len(b.data)
<1>1. /\ b.size \in 0 .. MaxSize /\ b.capacity \in 0 .. B!MaxCapacity
      /\ b.data \in Seq(B!Byte)
  BY DEF Memory, Objects
<1>2. /\ Len(b.data) \in Nat /\ DOMAIN b.data = 1 .. Len(b.data)
      /\ \A k \in 1 .. Len(b.data) : b.data[k] \in B!Byte
  BY <1>1, LenProperties, ElementOfSeq
<1> QED
  BY <1>1, <1>2, ByteConstants DEF Memory

LEMMA Increased ==
  ASSUME NEW b \in Objects, NEW n \in 0 .. MaxSize, NEW c,
         b.capacity < n, b.size <= n, b.data # <<>> => b.size <= Len(b.data),
         c = Grown(b, n)
  PROVE  /\ Memory(c) /\ c.size = b.size /\ c.capacity >= n /\ c.data # <<>>
         /\ \A k \in 1 .. b.size : b.data # <<>> => c.data[k] = b.data[k]
<1> DEFINE m == B!NewCapacity(b, n)
           d == [k \in 1 .. m + Padding |->
                  CASE ~(b.data = <<>>) /\ k <= b.size -> b.data[k]
                    [] k = (IF b.data = <<>> THEN 1 ELSE b.size + 1) -> "zero"
                    [] OTHER -> "junk"]
<1>1. /\ b.size \in 0 .. MaxSize /\ b.capacity \in 0 .. B!MaxCapacity
      /\ b.data \in Seq(B!Byte)
  BY DEF Objects
<1>2. /\ \A k \in 1 .. Len(b.data) : b.data[k] \in B!Byte
      /\ Len(b.data) \in Nat
  BY <1>1, ElementOfSeq, LenProperties
<1>3. m \in 0 .. B!MaxCapacity /\ m >= n
  <2>1. b.capacity <= MaxSize /\ 3 * b.capacity <= 3 * MaxSize
    BY <1>1, ByteConstants
  <2>2. (3 * b.capacity) \div 2 <= (3 * MaxSize) \div 2 /\ (3 * b.capacity) \div 2 \in Nat
    BY <1>1, <2>1, ByteConstants
  <2> QED
    BY <1>1, <2>2, ByteConstants DEF B!NewCapacity, B!Larger
<1>4. c = [size |-> b.size, capacity |-> m, data |-> d]
  BY DEF Grown, B!IncreaseCapacityTo
<1> HIDE DEF m
<1>5. \A k \in 1 .. m + Padding : d[k] \in B!Byte
  BY <1>1, <1>2 DEF B!Byte
<1>6. d \in [1 .. m + Padding -> B!Byte]
  BY <1>5
<1>7. \A k \in 1 .. b.size : b.data # <<>> => d[k] = b.data[k]
  BY <1>1, <1>3, ByteConstants
<1> HIDE DEF d
<1>8. m + Padding \in Nat
  BY <1>3, ByteConstants
<1>9. d \in Seq(B!Byte) /\ Len(d) = m + Padding
  BY <1>6, <1>8, FunctionIsSequence
<1>10. d # <<>>
  BY <1>3, <1>9, ByteConstants
<1>11. c.size = b.size /\ c.capacity = m /\ c.data = d
  BY <1>4
<1>12. c \in Objects
  BY <1>1, <1>3, <1>4, <1>9 DEF Objects
<1>13. Memory(c)
  BY <1>1, <1>3, <1>9, <1>11, <1>12, ByteConstants DEF Memory
<1> QED
  BY <1>3, <1>7, <1>10, <1>11, <1>13

LEMMA ResizedStands ==
  ASSUME NEW b, Memory(b), NEW n \in 0 .. MaxSize, NEW r, r = Sized(b, n)
  PROVE  /\ Memory(r) /\ r.size = n
         /\ \A k \in 1 .. b.size : k <= n => r.data[k] = b.data[k]
<1> DEFINE g == IF n > b.capacity THEN Grown(b, n) ELSE b
<1>1. /\ Memory(g) /\ g.capacity >= n
      /\ \A k \in 1 .. b.size : k <= n => g.data[k] = b.data[k]
  <2> b.size \in Nat /\ b.capacity \in Nat
    BY MemoryBytes, ByteConstants
  <2>1. CASE n > b.capacity
    <3> g = Grown(b, n)
      BY <2>1
    <3> HIDE DEF g
    <3>1. b \in Objects /\ b.size <= n /\ b.capacity < n /\ b.size <= Len(b.data)
      BY <2>1, MemoryBytes DEF Memory
    <3>2. b.data = <<>> => b.size = 0
      BY MemoryBytes
    <3>3. /\ Memory(g) /\ g.capacity >= n
          /\ \A k \in 1 .. b.size : b.data # <<>> => g.data[k] = b.data[k]
      BY <2>1, <3>1, Increased
    <3> QED
      BY <3>2, <3>3
  <2>2. CASE ~(n > b.capacity)
    <3> g = b
      BY <2>2
    <3> HIDE DEF g
    <3> QED
      BY <2>2
  <2> QED
    BY <2>1, <2>2
<1>2. r = [g EXCEPT !.size = IF g.data = <<>> THEN 0 ELSE n]
  BY DEF Sized, Grown, B!Resized
<1> HIDE DEF g
<1>3. g.data = <<>> => n = 0
  <2>1. g.data = <<>> => g.capacity = 0
    BY <1>1, MemoryBytes
  <2> QED
    BY <1>1, <2>1
<1>4. r = [g EXCEPT !.size = n]
  BY <1>2, <1>3
<1>5. g \in Objects
  BY <1>1 DEF Memory
<1>6. r \in Objects /\ r.size = n /\ r.capacity = g.capacity /\ r.data = g.data
  BY <1>4, <1>5 DEF Objects
<1> QED
  BY <1>1, <1>6 DEF Memory

LEMMA Overwritten ==
  ASSUME NEW b, Memory(b), NEW d \in [DOMAIN b.data -> B!Byte], NEW c,
         c = [b EXCEPT !.data = d]
  PROVE  Memory(c) /\ c.size = b.size /\ c.data = d
<1>1. b \in Objects
  BY DEF Memory
<1>2. d \in Seq(B!Byte) /\ Len(d) = Len(b.data)
  BY MemoryBytes, FunctionIsSequence
<1>3. c \in Objects /\ c.size = b.size /\ c.capacity = b.capacity /\ c.data = d
  BY <1>1, <1>2 DEF Objects
<1>4. b.data = <<>> => d = <<>>
  BY <1>2, MemoryBytes, EmptySeq
<1> QED
  BY <1>2, <1>3, <1>4 DEF Memory

LEMMA CopiedStands ==
  ASSUME NEW b, Memory(b), NEW from \in Nat, NEW s \in Seq(B!Byte)
  PROVE  /\ Memory(B!Copied(b, from, s)) /\ B!Copied(b, from, s).size = b.size
         /\ \A k \in 1 .. b.size :
              B!Copied(b, from, s).data[k] =
                IF from < k /\ k <= from + Len(s) THEN s[k - from] ELSE b.data[k]
<1> DEFINE c == B!Copied(b, from, s)
           d == [k \in DOMAIN b.data |->
                  IF from < k /\ k <= from + Len(s) THEN s[k - from] ELSE b.data[k]]
<1>1. \A k \in 1 .. Len(s) : s[k] \in B!Byte
  BY ElementOfSeq
<1>2. Len(s) \in Nat
  OBVIOUS
<1>3. d \in [DOMAIN b.data -> B!Byte]
  BY <1>1, <1>2, MemoryBytes
<1>4. c = [b EXCEPT !.data = d]
  BY DEF B!Copied
<1>5. \A k \in 1 .. b.size :
        d[k] = IF from < k /\ k <= from + Len(s) THEN s[k - from] ELSE b.data[k]
  BY MemoryBytes
<1> HIDE DEF d
<1>6. Memory(c) /\ c.size = b.size /\ c.data = d
  BY <1>3, <1>4, Overwritten
<1> QED
  BY <1>5, <1>6

LEMMA FilledStands ==
  ASSUME NEW b, Memory(b), NEW from \in Nat, NEW c, c = B!Filled(b, from)
  PROVE  /\ Memory(c) /\ c.size = b.size
         /\ \A k \in 1 .. b.size : c.data[k] = IF from < k THEN "set" ELSE b.data[k]
<1> DEFINE d == [k \in DOMAIN b.data |->
                  IF from < k /\ k <= b.size THEN "set" ELSE b.data[k]]
<1>1. d \in [DOMAIN b.data -> B!Byte]
  BY MemoryBytes DEF B!Byte
<1>2. c = [b EXCEPT !.data = d]
  BY DEF B!Filled
<1>3. \A k \in 1 .. b.size : d[k] = IF from < k THEN "set" ELSE b.data[k]
  BY MemoryBytes
<1> HIDE DEF d
<1>4. Memory(c) /\ c.size = b.size /\ c.data = d
  BY <1>1, <1>2, Overwritten
<1> QED
  BY <1>3, <1>4

LEMMA VecIs ==
  ASSUME NEW v \in Seq(Content), NEW n \in Nat, NEW fill \in Content
  PROVE  /\ B!Vec(v, n, fill) \in Seq(Content) /\ Len(B!Vec(v, n, fill)) = n
         /\ \A k \in 1 .. n :
              B!Vec(v, n, fill)[k] = IF k <= Len(v) THEN v[k] ELSE fill
<1> DEFINE w == B!Vec(v, n, fill)
<1>1. Len(v) \in Nat /\ \A k \in 1 .. Len(v) : v[k] \in Content
  BY ElementOfSeq
<1>2. w = [k \in 1 .. n |-> IF k <= Len(v) THEN v[k] ELSE fill]
  BY DEF B!Vec
<1>3. w \in [1 .. n -> Content]
  BY <1>1, <1>2
<1> QED
  BY <1>2, <1>3, FunctionIsSequence

LEMMA SetStands ==
  ASSUME VectorInv, NEW o \in Obj, NEW b, NEW v, Stands(b, v), B!Set(o, b, v)
  PROVE  VectorInv'
BY DEF VectorInv, B!Set

LEMMA VectorInit == B!Init => VectorInv
<1> SUFFICES ASSUME B!Init PROVE VectorInv
  OBVIOUS
<1>1. B!Empty \in Objects /\ B!Empty.size = 0 /\ B!Empty.capacity = 0 /\ B!Empty.data = <<>>
  BY ByteConstants DEF B!Empty, Objects
<1>2. Stands(B!Empty, <<>>)
  BY <1>1 DEF Stands, Memory
<1> QED
  BY <1>2 DEF B!Init, VectorInv

LEMMA GrowStands ==
  ASSUME NEW b, NEW v, Stands(b, v), NEW n \in 0 .. MaxSize, n > b.capacity
  PROVE  Stands(Grown(b, n), v) /\ Grown(b, n).capacity >= n /\ Grown(b, n).size = b.size
<1> DEFINE c == Grown(b, n)
<1>1. Memory(b) /\ b \in Objects /\ b.size = Len(v) /\ v \in Seq(Content)
  BY DEF Stands, Memory
<1>2. b.size \in Nat /\ b.size <= Len(b.data) /\ b.size <= n /\ b.capacity < n
  BY <1>1, MemoryBytes, ByteConstants DEF Memory
<1>3. /\ Memory(c) /\ c.size = b.size /\ c.capacity >= n
      /\ \A k \in 1 .. b.size : b.data # <<>> => c.data[k] = b.data[k]
  BY <1>1, <1>2, Increased
<1> HIDE DEF c
<1>4. b.data = <<>> => b.size = 0
  BY <1>1, <1>2
<1>5. Stands(c, v)
  BY <1>1, <1>2, <1>3, <1>4 DEF Stands
<1> QED
  BY <1>3, <1>5 DEF c

LEMMA SizedVec ==
  ASSUME NEW b, NEW v, Stands(b, v), NEW n \in 0 .. MaxSize, NEW r, r = Sized(b, n),
         NEW w, w = B!Vec(v, n, "any")
  PROVE  Stands(r, w)
<1>1. Memory(b) /\ b.size = Len(v) /\ v \in Seq(Content) /\ n \in Nat /\ "any" \in Content
  BY ByteConstants DEF Stands, Content
<1>2. b.size \in Nat
  BY <1>1, MemoryBytes, ByteConstants
<1>3. /\ Memory(r) /\ r.size = n
      /\ \A k \in 1 .. b.size : k <= n => r.data[k] = b.data[k]
  BY <1>1, ResizedStands
<1>4. /\ w \in Seq(Content) /\ Len(w) = n
      /\ \A k \in 1 .. n : w[k] = IF k <= Len(v) THEN v[k] ELSE "any"
  <2>1. v \in Seq(Content) /\ n \in Nat /\ "any" \in Content
    BY <1>1
  <2>2. w \in Seq(Content)
    BY ONLY <2>1, VecIs, w = B!Vec(v, n, "any")
  <2>3. Len(w) = n
    BY ONLY <2>1, VecIs, w = B!Vec(v, n, "any")
  <2>4. \A k \in 1 .. n : w[k] = IF k <= Len(v) THEN v[k] ELSE "any"
    BY ONLY <2>1, VecIs, w = B!Vec(v, n, "any")
  <2> QED
    BY <2>2, <2>3, <2>4
<1>5. \A k \in 1 .. n : w[k] # "any" => r.data[k] = w[k]
  BY <1>1, <1>2, <1>3, <1>4 DEF Stands
<1> QED
  BY <1>3, <1>4, <1>5 DEF Stands

LEMMA FilledVec ==
  ASSUME NEW b, NEW v, Stands(b, v), NEW n \in 0 .. MaxSize,
         NEW c, c = B!Filled(Sized(b, n), b.size), NEW w, w = B!Vec(v, n, "set")
  PROVE  Stands(c, w)
<1> DEFINE r == Sized(b, n)
<1>1. Memory(b) /\ b.size = Len(v) /\ v \in Seq(Content) /\ n \in Nat /\ "set" \in Content
  BY ByteConstants DEF Stands, Content
<1>2. b.size \in Nat
  BY <1>1, MemoryBytes, ByteConstants
<1>3. /\ Memory(r) /\ r.size = n
      /\ \A k \in 1 .. b.size : k <= n => r.data[k] = b.data[k]
  BY <1>1, ResizedStands
<1>4. c = B!Filled(r, b.size)
  OBVIOUS
<1> HIDE DEF r
<1>5. /\ Memory(c) /\ c.size = n
      /\ \A k \in 1 .. n : c.data[k] = IF b.size < k THEN "set" ELSE r.data[k]
  BY ZenonT(30), <1>2, <1>3, <1>4, FilledStands
<1>6. /\ w \in Seq(Content) /\ Len(w) = n
      /\ \A k \in 1 .. n : w[k] = IF k <= Len(v) THEN v[k] ELSE "set"
  <2>1. v \in Seq(Content) /\ n \in Nat /\ "set" \in Content
    BY <1>1
  <2>2. w \in Seq(Content)
    BY ONLY <2>1, VecIs, w = B!Vec(v, n, "set")
  <2>3. Len(w) = n
    BY ONLY <2>1, VecIs, w = B!Vec(v, n, "set")
  <2>4. \A k \in 1 .. n : w[k] = IF k <= Len(v) THEN v[k] ELSE "set"
    BY ONLY <2>1, VecIs, w = B!Vec(v, n, "set")
  <2> QED
    BY <2>2, <2>3, <2>4
<1>7. \A k \in 1 .. n : w[k] # "any" => c.data[k] = w[k]
  BY <1>1, <1>2, <1>3, <1>5, <1>6 DEF Stands
<1> QED
  BY <1>5, <1>6, <1>7 DEF Stands

(* A copy behind the first bytes of what an object is resized to.          *)
Matches(s, u) ==
  /\ s \in Seq(B!Byte) /\ u \in Seq(Content) /\ Len(s) = Len(u)
  /\ \A k \in 1 .. Len(s) : u[k] # "any" => s[k] = u[k]

Joins(w, v, from, u) ==
  /\ w \in Seq(Content) /\ Len(w) = from + Len(u)
  /\ \A k \in 1 .. from : w[k] = v[k]
  /\ \A k \in 1 .. Len(u) : w[from + k] = u[k]

LEMMA SizedCopy ==
  ASSUME NEW b, NEW v, Stands(b, v), NEW from \in 0 .. b.size,
         NEW s, NEW u, Matches(s, u), NEW w, Joins(w, v, from, u),
         NEW n \in 0 .. MaxSize, n = from + Len(s)
  PROVE  Stands(B!Copied(Sized(b, n), from, s), w)
<1> DEFINE r == Sized(b, n)
           c == B!Copied(r, from, s)
<1>1. Memory(b) /\ b.size = Len(v) /\ v \in Seq(Content) /\ n \in 0 .. MaxSize
  BY DEF Stands
<1>2. /\ s \in Seq(B!Byte) /\ u \in Seq(Content) /\ Len(s) = Len(u)
      /\ \A k \in 1 .. Len(s) : u[k] # "any" => s[k] = u[k]
  BY DEF Matches
<1>3. /\ w \in Seq(Content) /\ Len(w) = n
      /\ \A k \in 1 .. from : w[k] = v[k]
      /\ \A k \in 1 .. Len(s) : w[from + k] = u[k]
  BY <1>2 DEF Joins
<1>4. b.size \in Nat /\ from \in Nat /\ Len(s) \in Nat
  BY <1>1, <1>2, MemoryBytes, ByteConstants
<1>5. /\ Memory(r) /\ r.size = n
      /\ \A k \in 1 .. b.size : k <= n => r.data[k] = b.data[k]
  BY <1>1, ResizedStands
<1>6. c = B!Copied(r, from, s)
  OBVIOUS
<1> HIDE DEF c, r
<1>7. /\ Memory(c) /\ c.size = n
      /\ \A k \in 1 .. n :
           c.data[k] = IF from < k /\ k <= n THEN s[k - from] ELSE r.data[k]
  <2>1. /\ Memory(c) /\ c.size = r.size
        /\ \A k \in 1 .. r.size :
             c.data[k] = IF from < k /\ k <= from + Len(s) THEN s[k - from] ELSE r.data[k]
    <3> QED
      <4>1. Memory(r) /\ from \in Nat /\ s \in Seq(B!Byte) /\ c = B!Copied(r, from, s)
        BY <1>4, <1>5, <1>6, <1>2
      <4> QED
        BY ONLY <4>1, CopiedStands
  <2> QED
    BY <1>5, <2>1
<1>8. \A k \in 1 .. n : w[k] # "any" => c.data[k] = w[k]
  <2> SUFFICES ASSUME NEW k \in 1 .. n, w[k] # "any" PROVE c.data[k] = w[k]
    OBVIOUS
  <2>1. CASE k <= from
    <3>1. c.data[k] = r.data[k] /\ r.data[k] = b.data[k] /\ w[k] = v[k] /\ k \in 1 .. b.size
      BY <1>4, <1>5, <1>7, <1>3, <2>1
    <3> QED
      BY <3>1 DEF Stands
  <2>2. CASE k > from
    <3> DEFINE j == k - from
    <3>1. j \in 1 .. Len(s) /\ k = from + j
      BY <1>4, <2>2
    <3>2. w[k] = u[j] /\ c.data[k] = s[j]
      BY <1>4, <1>7, <1>3, <2>2, <3>1
    <3> QED
      BY <1>2, <3>1, <3>2
  <2> QED
    BY <1>4, <2>1, <2>2
<1> QED
  BY <1>7, <1>8, <1>3 DEF Stands, c, r

(* The bytes of an object, and the vector they stand for.                  *)
LEMMA PartStands ==
  ASSUME NEW b, NEW v, Stands(b, v), NEW from \in Nat, NEW to \in Nat,
         from <= to, to <= b.size
  PROVE  /\ SubSeq(b.data, from + 1, to) \in Seq(B!Byte)
         /\ SubSeq(v, from + 1, to) \in Seq(Content)
         /\ Len(SubSeq(b.data, from + 1, to)) = to - from
         /\ Len(SubSeq(v, from + 1, to)) = to - from
         /\ \A k \in 1 .. to - from :
              /\ SubSeq(v, from + 1, to)[k] = v[from + k]
              /\ v[from + k] # "any" => SubSeq(b.data, from + 1, to)[k] = v[from + k]
<1>1. Memory(b) /\ b.size = Len(v) /\ v \in Seq(Content)
  BY DEF Stands
<1>2. b.size \in Nat /\ Len(b.data) \in Nat /\ b.size <= Len(b.data) /\ b.data \in Seq(B!Byte)
  BY <1>1, MemoryBytes, ByteConstants
<1>3. /\ SubSeq(b.data, from + 1, to) \in Seq(B!Byte)
      /\ Len(SubSeq(b.data, from + 1, to)) = to - from
      /\ \A k \in 1 .. to - from : SubSeq(b.data, from + 1, to)[k] = b.data[from + k]
  <2>1. from + 1 \in 1 .. Len(b.data) + 1 /\ to \in from .. Len(b.data)
    BY <1>2
  <2> QED
    BY <1>2, <2>1, SubSeqProperties
<1>4. /\ SubSeq(v, from + 1, to) \in Seq(Content)
      /\ Len(SubSeq(v, from + 1, to)) = to - from
      /\ \A k \in 1 .. to - from : SubSeq(v, from + 1, to)[k] = v[from + k]
  <2>1. from + 1 \in 1 .. Len(v) + 1 /\ to \in from .. Len(v)
    BY <1>1, <1>2
  <2> QED
    BY <1>1, <1>2, <2>1, SubSeqProperties
<1>5. \A k \in 1 .. to - from : v[from + k] # "any" => b.data[from + k] = v[from + k]
  <2>1. \A k \in 1 .. to - from : from + k \in 1 .. b.size
    BY <1>2
  <2> QED
    BY <2>1 DEF Stands
<1> QED
  BY <1>3, <1>4, <1>5

(* The first bytes of an object are all that it holds.                     *)
LEMMA WholeStands ==
  ASSUME NEW b, NEW v, Stands(b, v), NEW s, s = SubSeq(b.data, 1, b.size)
  PROVE  /\ s \in Seq(B!Byte) /\ Len(s) = b.size /\ Len(v) = b.size
         /\ b.size \in 0 .. MaxSize /\ v \in Seq(Content)
         /\ \A k \in 1 .. Len(s) : v[k] # "any" => s[k] = v[k]
<1>1. Memory(b) /\ b.size = Len(v) /\ v \in Seq(Content)
  BY DEF Stands
<1>2. b.size \in Nat /\ b.size \in 0 .. MaxSize
  BY <1>1, MemoryBytes, ByteConstants
<1>3. b.data \in Seq(B!Byte) /\ b.size <= Len(b.data) /\ \A k \in 1 .. b.size : b.data[k] \in B!Byte
  BY <1>1, <1>2, MemoryBytes
<1>4. /\ s \in Seq(B!Byte) /\ Len(s) = b.size
      /\ \A k \in 1 .. b.size : s[k] = b.data[k]
  BY <1>2, <1>3, SubSeqProperties
<1> QED
  BY <1>1, <1>2, <1>4 DEF Stands

(* The bytes a caller copies from, all set.                                *)
LEMMA AllSet ==
  ASSUME NEW n \in Nat, NEW s, s = [k \in 1 .. n |-> "set"]
  PROVE  /\ s \in Seq(B!Byte) /\ s \in Seq(Content) /\ Len(s) = n
         /\ \A k \in 1 .. n : s[k] = "set"
<1>1. s \in [1 .. n -> B!Byte] /\ s \in [1 .. n -> Content]
  BY DEF B!Byte, Content
<1> QED
  BY <1>1, FunctionIsSequence

LEMMA PushStands ==
  ASSUME NEW b, NEW v, Stands(b, v), b.size < b.capacity, b.size < MaxSize,
         NEW c, c = B!Copied([b EXCEPT !.size = b.size + 1], b.size, <<"set">>)
  PROVE  Stands(c, Append(v, "set"))
<1> DEFINE r == [b EXCEPT !.size = b.size + 1]
           w == Append(v, "set")
<1>1. Memory(b) /\ b.size = Len(v) /\ v \in Seq(Content) /\ b \in Objects
  BY DEF Stands, Memory
<1>2. b.size \in Nat
  BY <1>1, MemoryBytes, ByteConstants
<1>3. r \in Objects /\ r.size = b.size + 1 /\ r.capacity = b.capacity /\ r.data = b.data
  BY <1>1, <1>2, ByteConstants DEF Objects
<1>4. Memory(r)
  BY <1>1, <1>2, <1>3 DEF Memory, Objects
<1>5. <<"set">> \in Seq(B!Byte) /\ Len(<<"set">>) = 1 /\ <<"set">>[1] = "set"
  BY DEF B!Byte
<1>6. c = B!Copied(r, b.size, <<"set">>)
  OBVIOUS
<1> HIDE DEF r
<1>7. /\ Memory(c) /\ c.size = r.size
      /\ \A k \in 1 .. r.size :
           c.data[k] = IF b.size < k /\ k <= b.size + Len(<<"set">>) THEN <<"set">>[k - b.size]
                       ELSE r.data[k]
  BY ONLY <1>2, <1>4, <1>5, <1>6, CopiedStands
<1>8. /\ w \in Seq(Content) /\ Len(w) = b.size + 1 /\ w[b.size + 1] = "set"
      /\ \A k \in 1 .. b.size : w[k] = v[k]
  BY <1>1, AppendProperties DEF Content
<1>9. \A k \in 1 .. b.size + 1 : w[k] # "any" => c.data[k] = w[k]
  <2> SUFFICES ASSUME NEW k \in 1 .. b.size + 1, w[k] # "any" PROVE c.data[k] = w[k]
    OBVIOUS
  <2>1. CASE k = b.size + 1
    BY <1>2, <1>3, <1>5, <1>7, <1>8, <2>1
  <2>2. CASE k # b.size + 1
    <3>1. k \in 1 .. b.size /\ k \in 1 .. r.size /\ ~(b.size < k)
      BY <1>2, <1>3, <2>2
    <3>2. c.data[k] = b.data[k] /\ w[k] = v[k]
      BY <1>3, <1>7, <1>8, <3>1
    <3> QED
      BY <3>1, <3>2 DEF Stands
  <2> QED
    BY <2>1, <2>2
<1> QED
  BY <1>3, <1>7, <1>8, <1>9 DEF Stands

(* A copy over all that an object holds.                                   *)
LEMMA CopyOver ==
  ASSUME NEW r, Memory(r), NEW s \in Seq(B!Byte), NEW u \in Seq(Content),
         Len(s) = r.size, Len(u) = r.size,
         \A k \in 1 .. Len(s) : u[k] # "any" => s[k] = u[k],
         NEW c, c = B!Copied(r, 0, s)
  PROVE  Stands(c, u)
<1>1. r.size \in Nat /\ 0 \in Nat
  BY MemoryBytes, ByteConstants
<1>2. /\ Memory(c) /\ c.size = r.size
      /\ \A k \in 1 .. r.size :
           c.data[k] = IF 0 < k /\ k <= 0 + Len(s) THEN s[k - 0] ELSE r.data[k]
  <2>1. PICK from \in Nat : from = 0
    BY <1>1
  <2>2. Memory(r) /\ from \in Nat /\ s \in Seq(B!Byte) /\ c = B!Copied(r, from, s)
    BY <2>1
  <2>3. /\ Memory(c) /\ c.size = r.size
        /\ \A k \in 1 .. r.size :
             c.data[k] = IF from < k /\ k <= from + Len(s) THEN s[k - from] ELSE r.data[k]
    BY ONLY <2>2, CopiedStands
  <2> QED
    BY <2>1, <2>3
<1> QED
  BY <1>1, <1>2 DEF Stands

LEMMA ShrunkMemory ==
  ASSUME NEW b, Memory(b), NEW n \in 0 .. b.size, NEW r, r = [b EXCEPT !.size = n]
  PROVE  Memory(r) /\ r.size = n
<1>1. b \in Objects /\ b.size \in 0 .. MaxSize
  BY MemoryBytes DEF Memory
<1>2. r \in Objects /\ r.size = n /\ r.capacity = b.capacity /\ r.data = b.data
  BY <1>1, ByteConstants DEF Objects
<1> QED
  BY <1>1, <1>2 DEF Memory, Objects

(* Constructing an object of n bytes.                                      *)
LEMMA MadeMemory ==
  ASSUME NEW n \in 1 .. MaxSize, NEW c, c = Grown([B!Empty EXCEPT !.size = n], n)
  PROVE  Memory(c) /\ c.size = n
<1> DEFINE e == [B!Empty EXCEPT !.size = n]
<1>1. e \in Objects /\ e.size = n /\ e.capacity = 0 /\ e.data = <<>>
  <2>1. /\ B!Empty \in Objects /\ B!Empty.capacity = 0 /\ B!Empty.data = <<>>
    BY ByteConstants DEF B!Empty, Objects
  <2>2. \A z \in Objects :
          LET y == [z EXCEPT !.size = n]
          IN  y \in Objects /\ y.size = n /\ y.capacity = z.capacity /\ y.data = z.data
    BY ByteConstants DEF Objects
  <2> QED
    BY <2>1, <2>2
<1>2. c = Grown(e, n)
  OBVIOUS
<1> HIDE DEF e
<1>3. e.capacity < n /\ e.size <= n /\ (e.data # <<>> => e.size <= Len(e.data)) /\ n \in 0 .. MaxSize
  BY <1>1
<1>4. Memory(c) /\ c.size = e.size
  BY ONLY <1>1, <1>2, <1>3, Increased
<1> QED
  BY <1>1, <1>4

LEMMA VecUnset ==
  ASSUME NEW n \in Nat, NEW w, w = [k \in 1 .. n |-> "any"]
  PROVE  w \in Seq(Content) /\ Len(w) = n /\ \A k \in 1 .. n : w[k] = "any"
<1>1. w \in [1 .. n -> Content]
  BY DEF Content
<1> QED
  BY <1>1, FunctionIsSequence

LEMMA VectorStep == VectorInv /\ [B!Next]_bufVars => VectorInv'
<1> SUFFICES ASSUME VectorInv, [B!Next]_bufVars PROVE VectorInv'
  OBVIOUS
<1> USE ByteConstants
<1>1. \A o \in Obj : Stands(buf[o], vec[o]) /\ Memory(buf[o]) /\ buf[o].size \in 0 .. MaxSize
                     /\ buf[o].capacity \in Nat /\ buf[o].size <= buf[o].capacity
  <2> SUFFICES ASSUME NEW o \in Obj
               PROVE  /\ Stands(buf[o], vec[o]) /\ Memory(buf[o])
                      /\ buf[o].size \in 0 .. MaxSize
                      /\ buf[o].capacity \in Nat /\ buf[o].size <= buf[o].capacity
    OBVIOUS
  <2>1. Stands(buf[o], vec[o]) /\ Memory(buf[o])
    BY DEF VectorInv, Stands
  <2> QED
    BY <2>1, MemoryBytes DEF Memory
<1>2. ASSUME NEW o \in Obj, NEW n \in 0 .. MaxSize, B!Reserve(o, n, TRUE) PROVE VectorInv'
  <2>1. n > buf[o].capacity /\ B!Set(o, Grown(buf[o], n), vec[o])
    BY <1>2 DEF B!Reserve, Grown
  <2>2. Stands(Grown(buf[o], n), vec[o])
    BY <1>1, <2>1, GrowStands
  <2> QED
    BY <2>1, <2>2, SetStands
<1>3. ASSUME NEW o \in Obj, NEW n \in 0 .. MaxSize, B!Resize(o, n, TRUE) PROVE VectorInv'
  <2>1. B!Set(o, Sized(buf[o], n), B!Vec(vec[o], n, "any"))
    BY <1>3 DEF B!Resize, Sized
  <2>2. Stands(Sized(buf[o], n), B!Vec(vec[o], n, "any"))
    BY <1>1, SizedVec
  <2> QED
    BY <2>1, <2>2, SetStands
<1>4. ASSUME NEW o \in Obj, NEW n \in 0 .. MaxSize, B!ResizeFilled(o, n, TRUE) PROVE VectorInv'
  <2>1. B!Set(o, B!Filled(Sized(buf[o], n), buf[o].size), B!Vec(vec[o], n, "set"))
    BY <1>4 DEF B!ResizeFilled, Sized
  <2>2. Stands(B!Filled(Sized(buf[o], n), buf[o].size), B!Vec(vec[o], n, "set"))
    BY <1>1, FilledVec
  <2> QED
    BY <2>1, <2>2, SetStands
<1>5. ASSUME NEW o \in Obj, B!PushBack(o, TRUE) PROVE VectorInv'
  <2> DEFINE b == IF buf[o].size = buf[o].capacity
                  THEN Grown(buf[o], buf[o].capacity + 1) ELSE buf[o]
  <2>1. /\ buf[o].size < MaxSize
        /\ IF b.data = <<>> THEN B!Set(o, b, <<>>)
           ELSE B!Set(o, B!Copied([b EXCEPT !.size = b.size + 1], b.size, <<"set">>),
                      Append(vec[o], "set"))
    BY <1>5 DEF B!PushBack, Grown
  <2>2. Stands(b, vec[o]) /\ b.size < b.capacity /\ b.size = buf[o].size
    <3>1. CASE buf[o].size = buf[o].capacity
      <4>1. buf[o].capacity + 1 \in 0 .. MaxSize
        BY <1>1, <2>1, <3>1
      <4> DEFINE g == Grown(buf[o], buf[o].capacity + 1)
      <4>2. Stands(g, vec[o]) /\ g.capacity >= buf[o].capacity + 1 /\ g.size = buf[o].size
        BY <1>1, <4>1, GrowStands
      <4>3. b = g
        BY <3>1
      <4> HIDE DEF g, b
      <4>4. g.capacity \in Nat
        BY <4>2, MemoryBytes DEF Stands
      <4> QED
        BY <1>1, <3>1, <4>2, <4>3, <4>4
    <3>2. CASE buf[o].size # buf[o].capacity
      BY <1>1, <3>2
    <3> QED
      BY <3>1, <3>2
  <2> HIDE DEF b
  <2>3. b.data # <<>>
    <3>1. Memory(b) /\ b.size \in Nat /\ b.capacity \in Nat
      BY <2>2, MemoryBytes DEF Stands
    <3> QED
      BY <2>2, <3>1 DEF Memory
  <2> DEFINE c == B!Copied([b EXCEPT !.size = b.size + 1], b.size, <<"set">>)
  <2>4. Stands(c, Append(vec[o], "set"))
    BY <2>1, <2>2, PushStands
  <2>5. B!Set(o, c, Append(vec[o], "set"))
    BY <2>1, <2>3
  <2> HIDE DEF c
  <2> QED
    BY <2>4, <2>5, SetStands
<1>6. ASSUME NEW o \in Obj, NEW n \in 0 .. MaxSize, B!AssignOutside(o, n, TRUE)
      PROVE  VectorInv'
  <2> DEFINE s == [k \in 1 .. n |-> "set"]
             r == Sized(buf[o], n)
             c == B!Copied(r, 0, s)
  <2>1. B!Set(o, c, s)
    BY <1>6 DEF B!AssignOutside, Sized
  <2>2. Memory(r) /\ r.size = n
    BY <1>1, ResizedStands
  <2>3. /\ s \in Seq(B!Byte) /\ s \in Seq(Content) /\ Len(s) = n
    <3>1. n \in Nat /\ s = [k \in 1 .. n |-> "set"]
      OBVIOUS
    <3> HIDE DEF s
    <3> QED
      BY ONLY <3>1, AllSet
  <2> HIDE DEF s, r
  <2>4. Stands(c, s)
    BY <2>2, <2>3, CopyOver
  <2> QED
    BY <2>1, <2>4, SetStands
<1>7. ASSUME NEW o \in Obj, NEW from \in 0 .. MaxSize, NEW to \in 0 .. MaxSize,
             B!AssignInside(o, from, to)
      PROVE  VectorInv'
  <2> DEFINE s == SubSeq(buf[o].data, from + 1, to)
             u == SubSeq(vec[o], from + 1, to)
             r == [buf[o] EXCEPT !.size = to - from]
             c == B!Copied(r, 0, s)
  <2>1. B!Set(o, c, u) /\ from < to /\ to <= buf[o].size
    BY <1>7 DEF B!AssignInside
  <2>2. Memory(r) /\ r.size = to - from
    BY <1>1, <2>1, ShrunkMemory
  <2>3. /\ s \in Seq(B!Byte) /\ u \in Seq(Content) /\ Len(s) = to - from /\ Len(u) = to - from
        /\ \A k \in 1 .. to - from : u[k] # "any" => s[k] = u[k]
    BY <1>1, <2>1, PartStands
  <2> HIDE DEF s, u, r
  <2>4. Stands(c, u)
    BY <2>2, <2>3, CopyOver
  <2> QED
    BY <2>1, <2>4, SetStands
<1>8. ASSUME NEW o \in Obj, NEW p \in Obj, B!AppendFrom(o, p, TRUE) PROVE VectorInv'
  <2> DEFINE s == SubSeq(buf[p].data, 1, buf[p].size)
             c == B!Copied(Sized(buf[o], buf[o].size + Len(s)), buf[o].size, s)
             w == vec[o] \o vec[p]
  <2>1. /\ s \in Seq(B!Byte) /\ vec[p] \in Seq(Content) /\ Len(s) = buf[p].size
        /\ Len(vec[p]) = buf[p].size
        /\ \A k \in 1 .. Len(s) : vec[p][k] # "any" => s[k] = vec[p][k]
    BY ZenonT(30), <1>1, WholeStands
  <2>2. B!Set(o, c, w) /\ buf[o].size + Len(s) \in 0 .. MaxSize
    <3>1. /\ buf[o].size + buf[p].size <= MaxSize
          /\ B!Set(o, B!Copied(Sized(buf[o], buf[o].size + buf[p].size), buf[o].size, s), w)
      BY <1>8 DEF B!AppendFrom, B!Content, Sized
    <3> HIDE DEF s, w
    <3> QED
      BY <1>1, <2>1, <3>1
  <2>3. vec[o] \in Seq(Content) /\ Len(vec[o]) = buf[o].size
    BY <1>1 DEF Stands
  <2>4. /\ w \in Seq(Content) /\ Len(w) = buf[o].size + Len(s)
        /\ \A k \in 1 .. buf[o].size : w[k] = vec[o][k]
        /\ \A k \in 1 .. Len(s) : w[buf[o].size + k] = vec[p][k]
    <3>1. /\ w \in Seq(Content) /\ Len(w) = Len(vec[o]) + Len(vec[p])
          /\ \A k \in 1 .. Len(vec[o]) + Len(vec[p]) :
               w[k] = IF k <= Len(vec[o]) THEN vec[o][k] ELSE vec[p][k - Len(vec[o])]
      BY <2>1, <2>3, ConcatProperties
    <3>2. buf[o].size \in Nat /\ buf[p].size \in Nat
      BY <1>1
    <3> HIDE DEF s, w
    <3>3. /\ Len(w) = buf[o].size + Len(s)
          /\ \A k \in 1 .. buf[o].size + buf[p].size :
               w[k] = IF k <= buf[o].size THEN vec[o][k] ELSE vec[p][k - buf[o].size]
      BY <2>1, <2>3, <3>1
    <3>4. \A k \in 1 .. buf[o].size : w[k] = vec[o][k]
      <4> SUFFICES ASSUME NEW k \in 1 .. buf[o].size PROVE w[k] = vec[o][k]
        OBVIOUS
      <4>1. k \in 1 .. buf[o].size + buf[p].size /\ k <= buf[o].size
        BY ONLY <3>2, k \in 1 .. buf[o].size
      <4> QED
        BY ONLY <3>3, <4>1
    <3>5. \A k \in 1 .. buf[p].size : w[buf[o].size + k] = vec[p][k]
      <4> SUFFICES ASSUME NEW k \in 1 .. buf[p].size PROVE w[buf[o].size + k] = vec[p][k]
        OBVIOUS
      <4> DEFINE j == buf[o].size + k
      <4>1. j \in 1 .. buf[o].size + buf[p].size /\ ~(j <= buf[o].size) /\ j - buf[o].size = k
        BY ONLY <3>2, k \in 1 .. buf[p].size
      <4> HIDE DEF j
      <4>2. w[j] = vec[p][j - buf[o].size]
        BY ONLY <3>3, <4>1
      <4> QED
        BY <4>1, <4>2 DEF j
    <3> QED
      BY <2>1, <3>1, <3>3, <3>4, <3>5
  <2> HIDE DEF s, w
  <2>5. Stands(buf[o], vec[o]) /\ buf[o].size \in 0 .. buf[o].size /\ Len(s) = Len(vec[p])
        /\ c = B!Copied(Sized(buf[o], buf[o].size + Len(s)), buf[o].size, s)
    BY <1>1, <2>1
  <2> HIDE DEF c
  <2>6. Stands(c, w)
    <3>1. PICK n \in 0 .. MaxSize : n = buf[o].size + Len(s)
      BY <2>2
    <3>2. PICK from \in 0 .. buf[o].size : from = buf[o].size
      BY <2>5
    <3>3. /\ Stands(buf[o], vec[o]) /\ from \in 0 .. buf[o].size
          /\ n \in 0 .. MaxSize /\ n = from + Len(s)
          /\ c = B!Copied(Sized(buf[o], n), from, s)
      BY <2>5, <3>1, <3>2
    <3>5. Matches(s, vec[p])
      BY <2>1 DEF Matches
    <3>6. Joins(w, vec[o], from, vec[p])
      BY <2>1, <2>4, <3>2 DEF Joins
    <3>4. Stands(B!Copied(Sized(buf[o], n), from, s), w)
      BY ONLY <3>3, <3>5, <3>6, SizedCopy
    <3> QED
      BY <3>3, <3>4
  <2> QED
    BY <2>2, <2>6, SetStands
<1>9. ASSUME NEW o \in Obj, NEW p \in Obj, B!CopyAssign(o, p, TRUE) PROVE VectorInv'
  <2> DEFINE s == SubSeq(buf[p].data, 1, buf[p].size)
             r == Sized(buf[o], buf[p].size)
             c == B!Copied(r, 0, s)
  <2>1. B!Set(o, c, vec[p])
    BY <1>9 DEF B!CopyAssign, B!Content, Sized
  <2>2. Memory(r) /\ r.size = buf[p].size
    BY <1>1, ResizedStands
  <2>3. /\ s \in Seq(B!Byte) /\ vec[p] \in Seq(Content) /\ Len(s) = buf[p].size
        /\ Len(vec[p]) = buf[p].size
        /\ \A k \in 1 .. Len(s) : vec[p][k] # "any" => s[k] = vec[p][k]
    BY ZenonT(30), <1>1, WholeStands
  <2> HIDE DEF s, r
  <2>4. Stands(c, vec[p])
    BY <2>2, <2>3, CopyOver
  <2> QED
    BY <2>1, <2>4, SetStands
<1>10. ASSUME NEW o \in Obj, NEW p \in Obj, B!MoveAssign(o, p) PROVE VectorInv'
  <2>1. Stands(B!Empty, <<>>)
    <3>1. B!Empty \in Objects /\ B!Empty.size = 0 /\ B!Empty.capacity = 0 /\ B!Empty.data = <<>>
      BY DEF B!Empty, Objects
    <3> QED
      BY <3>1 DEF Stands, Memory
  <2> QED
    BY <1>10, <2>1 DEF B!MoveAssign, VectorInv
<1>11. ASSUME NEW o \in Obj, NEW p \in Obj, B!Swap(o, p) PROVE VectorInv'
  BY <1>11 DEF B!Swap, VectorInv
<1>12. ASSUME NEW o \in Obj, NEW n \in 0 .. MaxSize, B!Construct(o, n, TRUE) PROVE VectorInv'
  <2> DEFINE c == Grown([B!Empty EXCEPT !.size = n], n)
             w == [k \in 1 .. n |-> "any"]
  <2>1. B!Set(o, c, w) /\ n \in 1 .. MaxSize
    BY <1>12 DEF B!Construct, B!Set, Grown
  <2>2. Memory(c) /\ c.size = n
    BY <2>1, MadeMemory
  <2>3. w \in Seq(Content) /\ Len(w) = n /\ \A k \in 1 .. n : w[k] = "any"
    <3>1. n \in Nat /\ w = [k \in 1 .. n |-> "any"]
      OBVIOUS
    <3> HIDE DEF w
    <3> QED
      BY ONLY <3>1, VecUnset
  <2> HIDE DEF c, w
  <2>4. Stands(c, w)
    BY <2>2, <2>3 DEF Stands
  <2> QED
    BY <2>1, <2>4, SetStands
<1>13. ASSUME NEW o \in Obj, NEW p \in Obj, B!CopyConstruct(o, p, TRUE) PROVE VectorInv'
  <2> DEFINE s == SubSeq(buf[p].data, 1, buf[p].size)
             r == Grown([B!Empty EXCEPT !.size = buf[p].size], buf[p].size)
             c == B!Copied(r, 0, s)
  <2>1. buf[p].size \in 1 .. MaxSize
    BY <1>1, <1>13 DEF B!CopyConstruct
  <2>2. Memory(r) /\ r.size = buf[p].size
    BY <2>1, MadeMemory
  <2>3. B!Set(o, c, vec[p])
    BY <1>13, <2>2 DEF B!CopyConstruct, Grown
  <2>4. /\ s \in Seq(B!Byte) /\ vec[p] \in Seq(Content) /\ Len(s) = buf[p].size
        /\ Len(vec[p]) = buf[p].size
        /\ \A k \in 1 .. Len(s) : vec[p][k] # "any" => s[k] = vec[p][k]
    BY ZenonT(30), <1>1, WholeStands
  <2> HIDE DEF s, r
  <2>5. Stands(c, vec[p])
    BY <2>2, <2>4, CopyOver
  <2> QED
    BY <2>3, <2>5, SetStands
<1>14. CASE UNCHANGED bufVars
  BY <1>14 DEF bufVars, VectorInv
<1> QED
  BY <1>2, <1>3, <1>4, <1>5, <1>6, <1>7, <1>8, <1>9, <1>10, <1>11, <1>12, <1>13, <1>14 DEF B!Next

LEMMA VectorSound == VectorInv => B!TypeOK /\ B!HoldsVector
<1> SUFFICES ASSUME VectorInv PROVE B!TypeOK /\ B!HoldsVector
  OBVIOUS
<1>1. \A o \in Obj : Stands(buf[o], vec[o]) /\ Memory(buf[o]) /\ buf[o] \in Objects
  BY DEF VectorInv, Stands, Memory
<1>2. B!TypeOK
  BY <1>1 DEF VectorInv, Stands, Content, Objects, B!TypeOK
<1>3. B!SizeWithinMemory
  BY <1>1 DEF Memory, B!SizeWithinMemory
<1> QED
  BY <1>1, <1>2, <1>3 DEF Stands, B!HoldsVector

-------------------------------------------------------------------------------
(***************************************************************************)
(* SequentialRunner: where the thread is says how much of the range ran.   *)
(***************************************************************************)
RangeLength == IF range[1] < range[2] THEN range[2] - range[1] ELSE 0

(* What the return code says of the call.                                  *)
CodeSays ==
  /\ ret = 0 => Len(calls) = RangeLength /\ (calls # <<>> => told = 1)
  /\ ret # 0 => calls = <<>>
  /\ refused => ret = (IF facade = "pool" THEN -1 ELSE InitCode)
  /\ ~refused => ret = (IF S!ReversedRange THEN -1 ELSE 0)

SeqInv ==
  /\ S!TypeOK
  /\ calls = [k \in 1 .. Len(calls) |-> range[1] + k - 1]
  /\ facade = "pool" => range[1] <= range[2]
  /\ seqPc = "enter" =>
       calls = <<>> /\ told = 0 /\ ret = 0 /\ i = range[1] /\ ~refused
       /\ (facade = "pool" => range[1] < range[2])
  /\ seqPc \in {"loop", "call"} => ~refused /\ ~S!ReversedRange
  /\ seqPc = "loop" =>
       told = 1 /\ ret = 0 /\ i = range[1] + Len(calls) /\ (calls # <<>> => i <= range[2])
  /\ seqPc = "call" =>
       told = 1 /\ ret = 0 /\ i = range[1] + Len(calls) - 1 /\ i < range[2]
  /\ seqPc \in {"leave", "idle"} => CodeSays
  /\ seqPc = "idle" => status = IF facade = "direct" THEN "code"
                               ELSE IF ret = 0 THEN "true" ELSE "false"

LEMMA ModSmall == ASSUME NEW m \in Nat, NEW n \in Nat, n < m PROVE n % m = n
OBVIOUS

LEMMA SeqConstants ==
  M \in Nat \ {0} /\ Ranges \subseteq (0 .. M - 1) \X (0 .. M - 1) /\ InitCode \in Int \ {0, -1}
BY FoundationsAssumption DEF S!Assumptions

LEMMA SeqInit == S!Init => SeqInv
<1> SUFFICES ASSUME S!Init PROVE SeqInv
  OBVIOUS
<1>1. S!TypeOK
  <2>1. calls \in Seq(0 .. M - 1) /\ range \in (0 .. M - 1) \X (0 .. M - 1) /\ i \in 0 .. M - 1
    BY SeqConstants DEF S!Init
  <2>2. refused \in BOOLEAN
    BY Zenon DEF S!Init
  <2> QED
    BY <2>1, <2>2, Zenon DEF S!Init, S!TypeOK, S!Runners, S!Facades
<1>2. calls = <<>> /\ calls = [k \in 1 .. Len(calls) |-> range[1] + k - 1]
  BY DEF S!Init
<1> QED
  BY <1>1, <1>2 DEF S!Init, SeqInv, CodeSays, RangeLength, S!ReversedRange

LEMMA SeqStep == SeqInv /\ [S!Next]_seqVars => SeqInv'
<1> SUFFICES ASSUME SeqInv, [S!Next]_seqVars PROVE SeqInv'
  OBVIOUS
<1> USE SeqConstants
<1>1. ASSUME NEW k \in S!Runners, NEW f \in S!Facades, NEW r \in Ranges, S!Call(k, f, r)
      PROVE SeqInv'
  <2>1. calls' = <<>> /\ calls' = [j \in 1 .. Len(calls') |-> range'[1] + j - 1]
    BY <1>1 DEF S!Call
  <2>2. S!TypeOK'
    <3>1. calls' \in Seq(0 .. M - 1) /\ r \in (0 .. M - 1) \X (0 .. M - 1) /\ r[1] \in 0 .. M - 1
      BY <2>1
    <3>2. refused' \in BOOLEAN
      BY <1>1, Zenon DEF S!Call
    <3> QED
      BY <1>1, <3>1, <3>2, Zenon DEF S!Call, S!TypeOK, S!Facades, S!Runners, SeqInv
  <2> QED
    BY <1>1, <2>1, <2>2 DEF S!Call, CodeSays, RangeLength, S!ReversedRange, SeqInv, S!Facades
<1>2. CASE S!RangeRejected
  BY <1>2 DEF S!RangeRejected, CodeSays, RangeLength, S!ReversedRange, SeqInv, S!TypeOK
<1>3. ASSUME NEW good \in BOOLEAN, S!CallInit(good) PROVE SeqInv'
  <2>1. S!TypeOK'
    <3>1. refused' \in BOOLEAN
      BY <1>3, Zenon DEF S!CallInit
    <3> QED
      BY <1>3, <3>1, Zenon DEF S!CallInit, SeqInv, S!TypeOK
  <2>2. /\ refused' <=> ~good
        /\ seqPc = "enter" /\ (runner = "noWorkers" => range[1] < range[2]) /\ told' = 1
        /\ ret' = IF good THEN 0 ELSE IF facade = "pool" THEN -1 ELSE InitCode
        /\ seqPc' = IF good THEN "loop" ELSE "leave"
        /\ UNCHANGED <<runner, facade, range, i, status, calls>>
    BY <1>3, Zenon DEF S!CallInit
  <2> QED
    BY <2>1, <2>2 DEF CodeSays, RangeLength, S!ReversedRange, SeqInv, S!TypeOK
<1>4. CASE S!CallTask
  <2>1. /\ i \in 0 .. M - 1 /\ calls \in Seq(0 .. M - 1) /\ range \in (0 .. M - 1) \X (0 .. M - 1)
        /\ Len(calls) \in Nat /\ i = range[1] + Len(calls) /\ i < range[2] /\ range[1] \in Int
        /\ calls' = Append(calls, i) /\ range' = range
        /\ \A j \in 1 .. Len(calls) : calls[j] = range[1] + j - 1
    BY <1>4 DEF S!CallTask, SeqInv, S!TypeOK
  <2>2. /\ calls' \in Seq(0 .. M - 1) /\ Len(calls') = Len(calls) + 1
        /\ \A j \in 1 .. Len(calls) : calls'[j] = calls[j]
        /\ calls'[Len(calls) + 1] = i
    BY <2>1, AppendProperties
  <2>3. \A j \in 1 .. Len(calls') : calls'[j] = range[1] + j - 1
    BY <2>1, <2>2
  <2>4. calls' = [j \in 1 .. Len(calls') |-> calls'[j]]
    BY <2>2
  <2>5. calls' = [j \in 1 .. Len(calls') |-> range'[1] + j - 1]
    BY <2>1, <2>3, <2>4
  <2> QED
    BY <1>4, <2>1, <2>2, <2>5 DEF S!CallTask, CodeSays, RangeLength, S!ReversedRange, SeqInv, S!TypeOK
<1>5. CASE S!TaskReturns
  <2>1. i \in Nat /\ i + 1 <= range[2] /\ range[2] <= M - 1 /\ range[2] \in Nat
    BY <1>5 DEF S!TaskReturns, SeqInv, S!TypeOK
  <2>2. i + 1 \in Nat /\ M \in Nat /\ i + 1 < M
    BY <2>1
  <2>3. (i + 1) % M = i + 1
    BY <2>2, ModSmall, Zenon
  <2> QED
    BY SMTT(30), <1>5, <2>1, <2>3 DEF S!TaskReturns, CodeSays, RangeLength, S!ReversedRange, SeqInv, S!TypeOK
<1>6. CASE S!LoopEnds
  BY <1>6 DEF S!LoopEnds, CodeSays, RangeLength, S!ReversedRange, SeqInv, S!TypeOK
<1>7. CASE S!Leave
  BY <1>7 DEF S!Leave, CodeSays, RangeLength, S!ReversedRange, SeqInv, S!TypeOK
<1>8. CASE UNCHANGED seqVars
  BY <1>8 DEF seqVars, CodeSays, RangeLength, S!ReversedRange, SeqInv, S!TypeOK
<1> QED
  BY <1>1, <1>2, <1>3, <1>4, <1>5, <1>6, <1>7, <1>8 DEF S!Next

LEMMA SeqSound == SeqInv => S!TypeOK /\ S!SuccessIsComplete
BY SeqConstants DEF SeqInv, S!TypeOK, S!Facades, S!SuccessIsComplete, S!Succeeded, S!ReversedRange, CodeSays, RangeLength

-------------------------------------------------------------------------------
(***************************************************************************)
(* BitReader: the bits in the buffer are those of the input from the       *)
(* reader's position on, the counted ones all of them.                     *)
(***************************************************************************)
Readers(d) ==
  [buf : SUBSET (0 .. 63), inBuf : 0 .. 63, next : 0 .. d.total, overread : Nat]
Input(d) == d.total \in Nat /\ d.ones \subseteq 0 .. (8 * d.total) - 1
Position(r) == (8 * (r.next + r.overread)) - r.inBuf

Buffered(d, r) ==
  /\ r \in Readers(d)
  /\ r.overread > 0 => r.next = d.total
  /\ Position(r) \in Nat
  /\ \A b \in 0 .. 63 :
       /\ b \in r.buf => Position(r) + b \in d.ones
       /\ b < r.inBuf /\ Position(r) + b \in d.ones => b \in r.buf

LEMMA FreshReader ==
  ASSUME Input(data), NEW r \in Readers(data), r.buf = {}, r.inBuf = 0,
         r.overread > 0 => r.next = data.total
  PROVE  Buffered(data, r)
BY DEF Buffered, Readers, Position, Input

LEMMA MissingBits ==
  ASSUME NEW n \in 0 .. 63
  PROVE  /\ (64 - 1 - n) \div 8 \in 0 .. 7
         /\ n + (8 * ((64 - 1 - n) \div 8)) = 56 + (n % 8)
         /\ 56 + (n % 8) \in 56 .. 63
OBVIOUS

LEMMA RefillBuffered ==
  ASSUME Input(data), NEW r, Buffered(data, r), NEW s, s = R!Refill(r)
  PROVE  /\ Buffered(data, s) /\ Position(s) = Position(r)
         /\ s.inBuf \in 56 .. 63
<1> DEFINE m == (64 - 1 - r.inBuf) \div 8
<1>1. /\ r \in Readers(data) /\ r.buf \subseteq 0 .. 63 /\ r.inBuf \in 0 .. 63
      /\ r.next \in 0 .. data.total /\ r.overread \in Nat /\ data.total \in Nat
      /\ data.ones \subseteq 0 .. (8 * data.total) - 1
  BY DEF Buffered, Readers, Input
<1>2. m \in 0 .. 7 /\ r.inBuf + (8 * m) \in 56 .. 63
  BY <1>1, MissingBits
<1>9. 56 + (r.inBuf % 8) = r.inBuf + (8 * m)
  BY <1>1, MissingBits
<1>3. R!Missing(r) = m
  BY DEF R!Missing, R!kWordBits, R!kBitsPerByte
<1> HIDE DEF m
<1>4. \A n : R!Loaded(r, n) = {b \in 0 .. (8 * n) - 1 : (8 * r.next) + b \in data.ones}
  BY DEF R!Loaded, R!BitsAt, R!kBitsPerByte
<1>5. \A n : R!OrAbove(r, R!Loaded(r, n)) =
        r.buf \cup {b \in 0 .. 63 : b >= r.inBuf /\ b - r.inBuf \in 0 .. (8 * n) - 1
                                   /\ (8 * r.next) + (b - r.inBuf) \in data.ones}
  BY <1>1, <1>4 DEF R!OrAbove, R!kWordBits
<1>8. Position(r) = (8 * (r.next + r.overread)) - r.inBuf /\ r.next \in Int /\ r.inBuf \in Int
  BY <1>1 DEF Position
<1>6. CASE r.next > data.total - 8
  <2> DEFINE whole == R!Min(m, data.total - r.next)
  <2>1. whole \in 0 .. 7 /\ whole <= m /\ whole <= data.total - r.next
        /\ (whole < m => whole = data.total - r.next)
    BY <1>1, <1>2 DEF R!Min
  <2>2. s = [buf |-> R!OrAbove(r, R!Loaded(r, whole)), next |-> r.next + whole,
             overread |-> r.overread + (m - whole), inBuf |-> r.inBuf + (8 * m)]
    BY <1>3, <1>6 DEF R!Refill, R!BoundsCheckedRefill, R!Total, R!kBitsPerByte
  <2> HIDE DEF whole
  <2>8. /\ s.next = r.next + whole /\ s.overread = r.overread + (m - whole)
        /\ s.inBuf = r.inBuf + (8 * m)
    BY <2>2
  <2>9. /\ r.next \in Nat /\ r.overread \in Nat /\ r.inBuf \in Nat /\ data.total \in Nat
        /\ whole \in Nat /\ m \in Nat
    BY <1>1, <1>2, <2>1
  <2>3. /\ s.buf = r.buf \cup {b \in 0 .. 63 : b >= r.inBuf /\ b - r.inBuf \in 0 .. (8 * whole) - 1
                                   /\ (8 * r.next) + (b - r.inBuf) \in data.ones}
    BY <1>5, <2>2
  <2>4. s \in Readers(data)
    <3>1. s.buf \in SUBSET (0 .. 63)
      BY <1>1, <2>3
    <3> QED
      BY <1>1, <1>2, <2>1, <2>2, <2>8, <3>1 DEF Readers
  <2>5. Position(s) = Position(r)
    BY <2>8, <2>9 DEF Position
  <2>6. s.overread > 0 => s.next = data.total
    BY <1>1, <2>1, <2>8, <2>9 DEF Buffered
  <2>7. ASSUME NEW b \in 0 .. 63
        PROVE  /\ b \in s.buf => Position(r) + b \in data.ones
               /\ b < s.inBuf /\ Position(r) + b \in data.ones => b \in s.buf
    <3>1. /\ b \in r.buf => Position(r) + b \in data.ones
          /\ b < r.inBuf /\ Position(r) + b \in data.ones => b \in r.buf
      BY DEF Buffered
    <3>2. CASE r.overread = 0
      <4>1. Position(r) + b = (8 * r.next) + (b - r.inBuf)
        BY <1>1, <1>8, <3>2
      <4>2. b \in s.buf => Position(r) + b \in data.ones
        BY <2>3, <3>1, <4>1
      <4>3. ASSUME b < s.inBuf, Position(r) + b \in data.ones, b >= r.inBuf PROVE b \in s.buf
        <5>1. (8 * r.next) + (b - r.inBuf) < 8 * data.total /\ b < r.inBuf + (8 * m)
          BY <1>1, <2>8, <4>1, <4>3
        <5>3. b - r.inBuf < 8 * whole
          <6>1. CASE whole = m
            BY <2>9, <5>1, <6>1
          <6>2. CASE whole = data.total - r.next
            BY <2>9, <5>1, <6>2
          <6> QED
            BY <2>1, <2>9, <6>1, <6>2
        <5>2. b - r.inBuf \in 0 .. (8 * whole) - 1
          BY <2>9, <4>3, <5>3
        <5> QED
          BY <2>3, <4>1, <4>3, <5>2
      <4> QED
        BY <1>1, <2>3, <3>1, <4>2, <4>3
    <3>3. CASE r.overread # 0
      <4>1. r.next = data.total
        BY <1>1, <3>3 DEF Buffered
      <4>2. \A k \in Nat : (8 * r.next) + k \notin data.ones
        BY <1>1, <4>1
      <4>3. b \in s.buf => b \in r.buf
        BY <1>1, <2>3, <4>2
      <4>4. b >= r.inBuf => Position(r) + b \notin data.ones
        BY SMTT(30), <1>1, <4>1, <3>3 DEF Position
      <4> QED
        BY <1>1, <2>3, <3>1, <4>3, <4>4
    <3> QED
      BY <3>2, <3>3
  <2> QED
    BY <1>2, <2>4, <2>5, <2>6, <2>7, <2>8 DEF Buffered
<1>7. CASE ~(r.next > data.total - 8)
  <2>1. s = [r EXCEPT !.buf = R!OrAbove(r, R!Loaded(r, 8)), !.next = @ + m,
                      !.inBuf = 56 + (@ % 8)]
    BY <1>3, <1>7 DEF R!Refill, R!FastRefill, R!Total
  <2>2. /\ s.next = r.next + m /\ s.overread = r.overread
        /\ s.inBuf = r.inBuf + (8 * m)
        /\ s.buf = r.buf \cup {b \in 0 .. 63 : b >= r.inBuf /\ b - r.inBuf \in 0 .. (8 * 8) - 1
                                   /\ (8 * r.next) + (b - r.inBuf) \in data.ones}
    BY <1>1, <1>5, <1>9, <2>1 DEF Readers
  <2>3. s \in Readers(data)
    <3>1. s.buf \in SUBSET (0 .. 63)
      BY <1>1, <2>2
    <3>2. s.next \in 0 .. data.total
      BY <1>1, <1>2, <1>7, <2>2
    <3>3. s.inBuf \in 0 .. 63 /\ s.overread \in Nat
      BY <1>1, <1>2, <2>2
    <3>4. s = [buf |-> s.buf, inBuf |-> s.inBuf, next |-> s.next, overread |-> s.overread]
      BY <1>1, <2>1 DEF Readers
    <3> QED
      BY <3>1, <3>2, <3>3, <3>4 DEF Readers
  <2>4. Position(s) = Position(r)
    BY <1>1, <1>2, <2>2 DEF Position
  <2>5. r.overread = 0 /\ s.overread = 0
    BY <1>1, <1>7, <2>2 DEF Buffered
  <2>6. ASSUME NEW b \in 0 .. 63
        PROVE  /\ b \in s.buf => Position(r) + b \in data.ones
               /\ b < s.inBuf /\ Position(r) + b \in data.ones => b \in s.buf
    <3>1. /\ b \in r.buf => Position(r) + b \in data.ones
          /\ b < r.inBuf /\ Position(r) + b \in data.ones => b \in r.buf
      BY DEF Buffered
    <3>2. Position(r) + b = (8 * r.next) + (b - r.inBuf)
      BY <1>1, <2>5 DEF Position
    <3>3. b >= r.inBuf => b - r.inBuf \in 0 .. (8 * 8) - 1
      BY <1>1
    <3> QED
      BY <1>1, <2>2, <3>1, <3>2, <3>3
  <2>7. s.inBuf \in 56 .. 63
    BY <1>2, <2>2
  <2>8. Position(s) \in Nat /\ (s.overread > 0 => s.next = data.total)
    BY <2>4, <2>5 DEF Buffered
  <2>9. Buffered(data, s)
    BY ONLY <2>3, <2>4, <2>6, <2>8 DEF Buffered
  <2> QED
    BY ONLY <2>4, <2>7, <2>9
<1> QED
  BY <1>1, <1>6, <1>7

LEMMA ConsumeBuffered ==
  ASSUME Input(data), NEW r, Buffered(data, r), NEW n \in 0 .. r.inBuf,
         NEW s, s = R!Consume(r, n)
  PROVE  Buffered(data, s) /\ Position(s) = Position(r) + n
<1>1. /\ r \in Readers(data) /\ r.buf \subseteq 0 .. 63 /\ r.inBuf \in 0 .. 63
      /\ r.next \in 0 .. data.total /\ r.overread \in Nat /\ data.total \in Nat
      /\ data.ones \subseteq 0 .. (8 * data.total) - 1
  BY DEF Buffered, Readers, Input
<1>2. /\ s = [r EXCEPT !.inBuf = r.inBuf - n, !.buf = {b \in 0 .. 64 - n - 1 : n + b \in r.buf}]
  BY <1>1 DEF R!Consume, R!BitsAt, R!kWordBits, Readers
<1>3. /\ s.inBuf = r.inBuf - n /\ s.buf = {b \in 0 .. 64 - n - 1 : n + b \in r.buf}
      /\ s.next = r.next /\ s.overread = r.overread
  BY <1>1, <1>2 DEF Readers
<1>4. s \in Readers(data)
  <2>1. s.buf \in SUBSET (0 .. 63) /\ s.inBuf \in 0 .. 63
    BY <1>1, <1>3
  <2> QED
    BY <1>1, <1>2, <1>3, <2>1 DEF Readers
<1>5. Position(s) = Position(r) + n /\ Position(s) \in Nat
  <2>1. Position(r) \in Nat /\ n \in Nat
    BY <1>1 DEF Buffered
  <2>2. Position(s) = Position(r) + n
    BY <1>1, <1>3, <2>1 DEF Position
  <2> QED
    BY <2>1, <2>2
<1>6. ASSUME NEW b \in 0 .. 63
      PROVE  /\ b \in s.buf => Position(s) + b \in data.ones
             /\ b < s.inBuf /\ Position(s) + b \in data.ones => b \in s.buf
  <2>1. Position(s) + b = Position(r) + (n + b)
    BY <1>1, <1>5 DEF Buffered
  <2>2. b \in s.buf => n + b \in 0 .. 63 /\ n + b \in r.buf
    BY <1>1, <1>3
  <2>3. b < s.inBuf => n + b \in 0 .. 63 /\ n + b < r.inBuf /\ b \in 0 .. 64 - n - 1
    BY <1>1, <1>3
  <2> QED
    BY <1>3, <2>1, <2>2, <2>3 DEF Buffered
<1> QED
  BY <1>1, <1>3, <1>4, <1>5, <1>6 DEF Buffered

-------------------------------------------------------------------------------
ReaderInv ==
  /\ Input(data)
  /\ Buffered(data, R!Reader)
  /\ wanted \in Nat /\ checked \in Nat
  /\ readStatus \in {"open", "closed", "failed"}
  /\ wanted <= 8 * data.total => Position(R!Reader) = wanted
  /\ wanted > 8 * data.total => Position(R!Reader) > 8 * data.total
  /\ got.value = {b \in 0 .. got.n - 1 : got.from + b \in data.ones}
  /\ readStatus = "closed" => wanted <= 8 * data.total \/ checked > 8 * data.total

LEMMA ReaderConstants ==
  /\ \A d \in Inputs : Input(d)
  /\ ReadLengths \subseteq 0 .. 56
  /\ SkipLengths \subseteq Nat /\ MaxOver \in Nat
BY FoundationsAssumption DEF R!Assumptions, R!kBitsPerByte, R!kMaxBitsPerCall, Input

LEMMA ReaderFields ==
  /\ R!Reader.buf = word /\ R!Reader.inBuf = inBuf
  /\ R!Reader.next = next /\ R!Reader.overread = overread
BY DEF R!Reader

LEMMA BecomesReader ==
  ASSUME NEW r, Buffered(data, r), R!Becomes(r), data' = data
  PROVE  Buffered(data', R!Reader') /\ Position(R!Reader') = Position(r)
<1>1. r = [buf |-> r.buf, inBuf |-> r.inBuf, next |-> r.next, overread |-> r.overread]
  BY DEF Buffered, Readers
<1>2. R!Reader' = r
  BY <1>1 DEF R!Becomes, R!Reader
<1> QED
  BY <1>2

LEMMA ReaderInit == R!Init => ReaderInv
<1> SUFFICES ASSUME R!Init PROVE ReaderInv
  OBVIOUS
<1>1. PICK d \in Inputs : R!InitOn(d)
  BY DEF R!Init
<1>2. Input(data) /\ data = d
  BY <1>1, ReaderConstants DEF R!InitOn
<1> DEFINE r == [buf |-> {}, inBuf |-> 0, next |-> 0, overread |-> 0]
           s == R!Refill(r)
<1>3. r \in Readers(data) /\ r.buf = {} /\ r.inBuf = 0 /\ ~(r.overread > 0) /\ Position(r) = 0
  BY <1>2 DEF Readers, Input, Position
<1> HIDE DEF r
<1>4. Buffered(data, r)
  BY <1>2, <1>3, FreshReader
<1>5. Buffered(data, s) /\ Position(s) = 0
  BY <1>2, <1>3, <1>4, RefillBuffered
<1>6. word = s.buf /\ inBuf = s.inBuf /\ next = s.next /\ overread = s.overread
  BY <1>1 DEF R!InitOn, R!NewReader, r
<1> HIDE DEF s
<1>7. R!Reader = s
  BY <1>5, <1>6 DEF R!Reader, Buffered, Readers
<1> QED
  BY <1>1, <1>2, <1>5, <1>7 DEF ReaderInv, R!InitOn, R!Nothing, Input

(* What a read takes from the buffer is at the reader's position.          *)
LEMMA PeekExact ==
  ASSUME Input(data), NEW r, Buffered(data, r), NEW n \in 0 .. r.inBuf
  PROVE  R!PeekBits(r, n) = {b \in 0 .. n - 1 : Position(r) + b \in data.ones}
<1>1. r.inBuf \in 0 .. 63 /\ r.buf \subseteq 0 .. 63
  BY DEF Buffered, Readers
<1>2. \A b \in 0 .. n - 1 : b \in 0 .. 63 /\ b < r.inBuf
  BY <1>1
<1> QED
  BY <1>1, <1>2 DEF R!PeekBits, Buffered

LEMMA ReadStep ==
  ASSUME ReaderInv, NEW n \in 0 .. 56, R!ReadBits(n)
  PROVE  ReaderInv'
<1> DEFINE r == R!Refill(R!Reader)
           s == R!Consume(r, n)
<1>1. Input(data) /\ Buffered(data, R!Reader) /\ data' = data /\ wanted \in Nat
  BY DEF ReaderInv, R!ReadBits
<1>2. Buffered(data, r) /\ Position(r) = Position(R!Reader) /\ r.inBuf \in 56 .. 63
  BY <1>1, RefillBuffered
<1>3. n \in 0 .. r.inBuf
  BY <1>2
<1>4. R!Becomes(s) /\ wanted' = wanted + n
      /\ got' = [from |-> wanted, n |-> n, value |-> R!PeekBits(r, n)]
      /\ UNCHANGED <<checked, readStatus>> /\ readStatus = "open"
  BY DEF R!ReadBits
<1> HIDE DEF r
<1>5. Buffered(data, s) /\ Position(s) = Position(r) + n
  BY <1>1, <1>2, <1>3, ConsumeBuffered
<1> HIDE DEF s
<1>6. Buffered(data', R!Reader') /\ Position(R!Reader') = Position(R!Reader) + n
  BY <1>1, <1>2, <1>4, <1>5, BecomesReader
<1>7. R!PeekBits(r, n) = {b \in 0 .. n - 1 : wanted + b \in data.ones}
  <2>1. R!PeekBits(r, n) = {b \in 0 .. n - 1 : Position(R!Reader) + b \in data.ones}
    BY <1>1, <1>2, <1>3, PeekExact
  <2>2. CASE wanted <= 8 * data.total
    BY <2>1, <2>2 DEF ReaderInv
  <2>3. CASE wanted > 8 * data.total
    <3>1. \A b \in 0 .. n - 1 : wanted + b \notin data.ones /\ Position(R!Reader) + b \notin data.ones
      BY <1>1, <2>3 DEF ReaderInv, Input, Buffered
    <3> QED
      BY <2>1, <3>1
  <2> QED
    BY <1>1, <2>2, <2>3 DEF Input
<1>8. got'.value = {b \in 0 .. got'.n - 1 : got'.from + b \in data'.ones}
  BY <1>1, <1>4, <1>7
<1>9. /\ wanted' <= 8 * data'.total => Position(R!Reader') = wanted'
      /\ wanted' > 8 * data'.total => Position(R!Reader') > 8 * data'.total
  <2>1. Position(R!Reader) \in Nat /\ data.total \in Nat
    BY <1>1 DEF Buffered, Input
  <2> QED
    BY <1>1, <1>4, <1>6, <2>1 DEF ReaderInv
<1> QED
  BY <1>1, <1>4, <1>6, <1>8, <1>9 DEF ReaderInv

(* A skip moves the position by as many bits, or past the end for good.    *)
LEMMA SkippedBuffered ==
  ASSUME Input(data), NEW r, Buffered(data, r), NEW n \in Nat, NEW s, s = R!Skipped(r, n)
  PROVE  /\ Buffered(data, s)
         /\ \/ Position(s) = Position(r) + n
            \/ Position(s) > 8 * data.total /\ Position(r) + n > 8 * data.total
<1> DEFINE beyond == n - r.inBuf
           bytes == beyond \div 8
           rest == beyond % 8
           e == R!Emptied(r)
<1>1. /\ r \in Readers(data) /\ r.inBuf \in 0 .. 63
      /\ r.next \in 0 .. data.total /\ r.overread \in Nat /\ data.total \in Nat
  BY DEF Buffered, Readers, Input
<1>2. e = [buf |-> {}, inBuf |-> 0, next |-> r.next, overread |-> r.overread]
  BY DEF R!Emptied
<1>3. CASE n <= r.inBuf
  <2>1. s = R!Consume(r, n) /\ n \in 0 .. r.inBuf
    BY <1>1, <1>3 DEF R!Skipped
  <2> QED
    BY <2>1, ConsumeBuffered
<1>4. CASE n > r.inBuf
  <2>1. beyond \in Nat /\ n = r.inBuf + beyond
    BY <1>1, <1>4
  <2>2. beyond = (8 * bytes) + rest /\ rest \in 0 .. 7 /\ bytes \in Nat
    BY <2>1
  <2>3. s = IF bytes > data.total - r.next
            THEN R!Consume(R!Refill([e EXCEPT !.next = data.total]), rest + 8)
            ELSE R!Consume(R!Refill([e EXCEPT !.next = e.next + bytes]), rest)
    BY <1>1, <1>4 DEF R!Skipped, R!Total, R!kBitsPerByte
  <2>4. e.next = r.next
    BY <1>2
  <2> HIDE DEF beyond, bytes, rest, e
  <2>5. CASE bytes > data.total - r.next
    <3>1. PICK f : f = [e EXCEPT !.next = data.total]
      OBVIOUS
    <3>2. /\ f \in Readers(data) /\ f.buf = {} /\ f.inBuf = 0
          /\ f.next = data.total /\ f.overread = r.overread
      <4>1. f = [buf |-> {}, inBuf |-> 0, next |-> data.total, overread |-> r.overread]
        BY <1>2, <3>1
      <4> QED
        BY <1>1, <4>1 DEF Readers
    <3>3. Buffered(data, f)
      BY ONLY <3>2, FreshReader, Input(data)
    <3>4. PICK g : g = R!Refill(f)
      OBVIOUS
    <3>5. Buffered(data, g) /\ Position(g) = Position(f) /\ g.inBuf \in 56 .. 63
      BY ONLY <3>3, <3>4, RefillBuffered, Input(data)
    <3>6. s = R!Consume(g, rest + 8) /\ rest + 8 \in 0 .. g.inBuf
      BY <2>2, <2>3, <2>5, <3>1, <3>4, <3>5
    <3>7. Buffered(data, s) /\ Position(s) = Position(g) + (rest + 8)
      BY ONLY <3>5, <3>6, ConsumeBuffered, Input(data)
    <3>8. Position(f) = 8 * (data.total + r.overread)
      BY <1>1, <3>2 DEF Position
    <3>9. Position(s) > 8 * data.total
      BY <1>1, <2>2, <3>5, <3>7, <3>8
    <3>10. Position(r) = (8 * (r.next + r.overread)) - r.inBuf
      BY DEF Position
    <3>11. Position(r) + n = (8 * (r.next + r.overread)) + ((8 * bytes) + rest)
      BY <1>1, <2>1, <2>2, <3>10
    <3>12. Position(r) + n > 8 * data.total
      BY <1>1, <2>2, <2>5, <3>11
    <3> QED
      BY <3>7, <3>9, <3>12
  <2>6. CASE ~(bytes > data.total - r.next)
    <3>1. PICK f : f = [e EXCEPT !.next = e.next + bytes]
      OBVIOUS
    <3>2. /\ f \in Readers(data) /\ f.buf = {} /\ f.inBuf = 0
          /\ f.next = r.next + bytes /\ f.overread = r.overread
      <4>1. r.next + bytes \in 0 .. data.total
        BY <1>1, <2>2, <2>6
      <4> QED
        <5>1. f = [buf |-> {}, inBuf |-> 0, next |-> r.next + bytes, overread |-> r.overread]
          BY <1>2, <3>1
        <5> QED
          BY <1>1, <4>1, <5>1 DEF Readers
    <3>3. f.overread > 0 => f.next = data.total
      BY <1>1, <2>2, <2>6, <3>2 DEF Buffered
    <3>4. Buffered(data, f)
      BY ONLY <3>2, <3>3, FreshReader, Input(data)
    <3>5. PICK g : g = R!Refill(f)
      OBVIOUS
    <3>6. Buffered(data, g) /\ Position(g) = Position(f) /\ g.inBuf \in 56 .. 63
      BY ONLY <3>4, <3>5, RefillBuffered, Input(data)
    <3>7. s = R!Consume(g, rest) /\ rest \in 0 .. g.inBuf
      BY <2>2, <2>3, <2>6, <3>1, <3>5, <3>6
    <3>8. Buffered(data, s) /\ Position(s) = Position(g) + rest
      BY ONLY <3>6, <3>7, ConsumeBuffered, Input(data)
    <3>9. Position(f) = 8 * ((r.next + bytes) + r.overread)
      BY <1>1, <2>2, <3>2 DEF Position
    <3>10. Position(r) = (8 * (r.next + r.overread)) - r.inBuf
      BY DEF Position
    <3>11. Position(s) = Position(r) + n
      BY <1>1, <2>1, <2>2, <3>6, <3>8, <3>9, <3>10
    <3> QED
      BY <3>8, <3>11
  <2> QED
    BY <2>5, <2>6
<1> QED
  BY <1>1, <1>3, <1>4

LEMMA SkipStep ==
  ASSUME ReaderInv, NEW n \in Nat, R!SkipBits(n)
  PROVE  ReaderInv'
<1>1. PICK s : s = R!Skipped(R!Reader, n)
  OBVIOUS
<1>2. Input(data) /\ Buffered(data, R!Reader) /\ data' = data /\ wanted \in Nat
  BY DEF ReaderInv, R!SkipBits
<1>3. /\ Buffered(data, s)
      /\ \/ Position(s) = Position(R!Reader) + n
         \/ Position(s) > 8 * data.total /\ Position(R!Reader) + n > 8 * data.total
  BY ONLY <1>1, <1>2, n \in Nat, SkippedBuffered
<1>4. /\ R!Becomes(s) /\ wanted' = wanted + n /\ got' = R!Nothing
      /\ UNCHANGED <<checked, readStatus>> /\ readStatus = "open"
  BY <1>1 DEF R!SkipBits
<1>5. Buffered(data', R!Reader') /\ Position(R!Reader') = Position(s)
  BY <1>2, <1>3, <1>4, BecomesReader
<1>6. /\ wanted' <= 8 * data'.total => Position(R!Reader') = wanted'
      /\ wanted' > 8 * data'.total => Position(R!Reader') > 8 * data'.total
  <2>1. Position(R!Reader) \in Nat /\ data.total \in Nat /\ Position(s) \in Nat
    BY <1>2, <1>3 DEF Buffered, Input
  <2> QED
    BY <1>2, <1>3, <1>4, <1>5, <2>1 DEF ReaderInv
<1> QED
  BY <1>2, <1>4, <1>5, <1>6 DEF ReaderInv, R!Nothing

LEMMA ReaderStep == ReaderInv /\ [R!Next]_readerVars => ReaderInv'
<1> SUFFICES ASSUME ReaderInv, [R!Next]_readerVars PROVE ReaderInv'
  OBVIOUS
<1>1. ASSUME NEW n \in ReadLengths, R!ReadBits(n) PROVE ReaderInv'
  BY <1>1, ReaderConstants, ReadStep
<1>2. ASSUME NEW n \in SkipLengths, R!SkipBits(n) PROVE ReaderInv'
  BY <1>2, ReaderConstants, SkipStep
<1>3. ASSUME R!JumpToByteBoundary PROVE ReaderInv'
  <2>1. R!TotalBitsConsumed(R!Reader) \in Nat
    BY DEF ReaderInv, Buffered, Position, R!TotalBitsConsumed, R!kBitsPerByte
  <2>2. PICK k \in 0 .. 7 : k = R!TotalBitsConsumed(R!Reader) % 8
    BY <2>1
  <2>3. R!ReadBits(8 - k) /\ 8 - k \in 0 .. 56
    BY <1>3, <2>2 DEF R!JumpToByteBoundary, R!kBitsPerByte
  <2> QED
    BY <2>3, ReadStep
<1>4. ASSUME R!AllReadsWithinBounds PROVE ReaderInv'
  <2>1. R!Reader' = R!Reader /\ R!TotalBitsConsumed(R!Reader) = Position(R!Reader)
    BY <1>4 DEF R!AllReadsWithinBounds, R!Reader, R!TotalBitsConsumed, Position, R!kBitsPerByte
  <2> QED
    BY <1>4, <2>1 DEF ReaderInv, Buffered, R!AllReadsWithinBounds, R!Nothing
<1>5. ASSUME R!Close PROVE ReaderInv'
  <2>1. R!Reader' = R!Reader /\ R!TotalBitsConsumed(R!Reader) = Position(R!Reader)
    BY <1>5 DEF R!Close, R!Reader, R!TotalBitsConsumed, Position, R!kBitsPerByte
  <2>2. readStatus' = IF Position(R!Reader) > checked /\ Position(R!Reader) > 8 * data.total
                      THEN "failed" ELSE "closed"
    BY <1>5, <2>1 DEF R!Close, R!PastEnd, R!TotalBits, R!Total, R!kBitsPerByte
  <2>3. Position(R!Reader) \in Nat /\ data.total \in Nat /\ checked \in Nat /\ wanted \in Nat
    BY DEF ReaderInv, Buffered, Input
  <2>4. readStatus' = "closed" => wanted <= 8 * data.total \/ checked > 8 * data.total
    BY <2>2, <2>3 DEF ReaderInv
  <2>5. UNCHANGED <<data, checked, wanted>> /\ got' = R!Nothing
    BY <1>5 DEF R!Close
  <2> QED
    BY <2>1, <2>2, <2>4, <2>5 DEF ReaderInv, R!Nothing
<1>6. CASE UNCHANGED readerVars
  <2>1. R!Reader' = R!Reader
    BY <1>6 DEF readerVars, R!Reader
  <2> QED
    BY <1>6, <2>1 DEF readerVars, ReaderInv
<1> QED
  BY <1>1, <1>2, <1>3, <1>4, <1>5, <1>6 DEF R!Next

LEMMA ReaderSound == ReaderInv => R!TypeOK /\ R!ReaderExact /\ R!OverreadReported
<1> SUFFICES ASSUME ReaderInv PROVE R!TypeOK /\ R!ReaderExact /\ R!OverreadReported
  OBVIOUS
<1>1. /\ R!TotalBits = 8 * data.total /\ R!Total = data.total
      /\ R!TotalBitsConsumed(R!Reader) = Position(R!Reader)
  BY DEF R!TotalBits, R!Total, R!TotalBitsConsumed, Position, R!kBitsPerByte
<1>2. R!Reader \in Readers(data) /\ Position(R!Reader) \in Nat /\ data.total \in Nat /\ wanted \in Nat
  BY DEF ReaderInv, Buffered, Input
<1>3. R!TypeOK
  BY <1>1, <1>2, ReaderFields DEF ReaderInv, R!TypeOK, R!kWordBits, Readers
<1>4. R!ReaderExact
  BY <1>1 DEF ReaderInv, R!ReaderExact, R!BitsAt
<1>5. R!OverreadReported
  BY <1>1, <1>2 DEF ReaderInv, R!OverreadReported, R!PastEnd
<1> QED
  BY <1>3, <1>4, <1>5

-------------------------------------------------------------------------------
(***************************************************************************)
(* BitWriter: what the open allotments may still use fits into the storage,*)
(* so what was written is within the bytes that growing keeps.             *)
(***************************************************************************)
Opened == [prev : Nat, max : Nat]
End(o, b, k) == IF k = Len(o) THEN b ELSE o[k + 1].prev
Nested(o, b) == \A k \in 1 .. Len(o) : End(o, b, k) - o[k].prev \in 0 .. o[k].max
Fits(f, o, b, limit) ==
  /\ f \in [0 .. Len(o) -> Nat]
  /\ \A k \in 1 .. Len(o) : f[k - 1] + (o[k].max - (End(o, b, k) - o[k].prev)) <= f[k]
  /\ f[Len(o)] + b <= limit
Promised(o, b, limit) == \E f : Fits(f, o, b, limit)

LEMMA ByteNumbers ==
  ASSUME NEW p \in Nat
  PROVE  p \div 8 \in Nat /\ 8 * (p \div 8) <= p /\ p < (8 * (p \div 8)) + 8
OBVIOUS

LEMMA OpenedFields ==
  ASSUME NEW o \in Seq(Opened)
  PROVE  \A k \in 1 .. Len(o) : o[k] \in Opened /\ o[k].prev \in Nat /\ o[k].max \in Nat
<1>1. \A k \in 1 .. Len(o) : o[k] \in Opened
  BY ElementOfSeq
<1>2. \A x \in Opened : x.prev \in Nat /\ x.max \in Nat
  BY DEF Opened
<1> QED
  BY <1>1, <1>2

LEMMA LessPromised ==
  ASSUME NEW u \in Nat, NEW v \in Nat, NEW p \in Nat, NEW m \in Nat, NEW b \in Nat, NEW n \in Nat,
         v + (m - (b - p)) <= u, (b - p) + n <= m, b - p \in 0 .. m
  PROVE  /\ u - n \in Nat /\ v + (m - ((b + n) - p)) <= u - n
         /\ (b + n) - p \in 0 .. m
OBVIOUS

(* A new allotment.                                                        *)
LEMMA NestedAllot ==
  ASSUME NEW o \in Seq(Opened), NEW b \in Nat, NEW limit \in Nat, NEW m \in Nat, NEW more \in Nat,
         Nested(o, b), Promised(o, b, limit), m <= more
  PROVE  LET a == Append(o, [prev |-> b, max |-> m])
         IN  a \in Seq(Opened) /\ Nested(a, b) /\ Promised(a, b, limit + more)
<1> DEFINE x == [prev |-> b, max |-> m]
           a == Append(o, x)
           n == Len(o)
<1>1. x \in Opened /\ x.prev = b /\ x.max = m /\ n \in Nat
  BY DEF Opened
<1>2. /\ a \in Seq(Opened) /\ Len(a) = n + 1 /\ a[n + 1] = x
      /\ \A k \in 1 .. n : a[k] = o[k]
  BY <1>1, AppendProperties
<1>3. \A k \in 1 .. n : o[k] \in Opened /\ o[k].prev \in Nat /\ o[k].max \in Nat
  BY OpenedFields
<1> HIDE DEF a, x
<1>4. \A k \in 1 .. n : End(a, b, k) = End(o, b, k)
  <2> SUFFICES ASSUME NEW k \in 1 .. n PROVE End(a, b, k) = End(o, b, k)
    OBVIOUS
  <2>1. CASE k = n
    BY <1>1, <1>2, <2>1 DEF End
  <2>2. CASE k # n
    <3>1. k + 1 \in 1 .. n /\ k # Len(a)
      BY <1>1, <1>2, <2>2
    <3> QED
      BY <1>2, <2>2, <3>1 DEF End
  <2> QED
    BY <2>1, <2>2
<1>5. End(a, b, n + 1) = b
  BY <1>2 DEF End
<1>6. Nested(a, b)
  <2> SUFFICES ASSUME NEW k \in 1 .. n + 1 PROVE End(a, b, k) - a[k].prev \in 0 .. a[k].max
    BY <1>2 DEF Nested
  <2>1. CASE k = n + 1
    BY <1>1, <1>2, <1>5, <2>1
  <2>2. CASE k # n + 1
    <3>1. k \in 1 .. n
      BY <1>1, <2>2
    <3> QED
      BY <1>2, <1>4, <3>1 DEF Nested
  <2> QED
    BY <2>1, <2>2
<1>7. PICK f : Fits(f, o, b, limit)
  BY DEF Promised
<1> DEFINE g == [k \in 0 .. n + 1 |-> IF k = n + 1 THEN f[n] + m ELSE f[k]]
<1>8. \A k \in 0 .. n : f[k] \in Nat
  BY <1>7 DEF Fits
<1>9. f[n] \in Nat /\ f[n] + b <= limit
  BY <1>1, <1>7, <1>8 DEF Fits
<1>10. /\ g \in [0 .. n + 1 -> Nat] /\ g[n + 1] = f[n] + m
       /\ \A k \in 0 .. n : g[k] = f[k]
  BY <1>1, <1>8, <1>9
<1> HIDE DEF g
<1>11. Fits(g, a, b, limit + more)
  <2>1. ASSUME NEW k \in 1 .. n + 1
        PROVE  g[k - 1] + (a[k].max - (End(a, b, k) - a[k].prev)) <= g[k]
    <3>1. CASE k = n + 1
      <4>1. k - 1 = n /\ g[k - 1] = f[n] /\ a[k] = x /\ End(a, b, k) = b
        BY <1>1, <1>2, <1>5, <1>10, <3>1
      <4> QED
        BY <1>1, <1>9, <1>10, <3>1, <4>1
    <3>2. CASE k # n + 1
      <4>1. k \in 1 .. n /\ k - 1 \in 0 .. n /\ k \in 0 .. n
        BY <1>1, <3>2
      <4>2. g[k - 1] = f[k - 1] /\ g[k] = f[k] /\ a[k] = o[k] /\ End(a, b, k) = End(o, b, k)
        BY <1>2, <1>4, <1>10, <4>1
      <4>3. f[k - 1] + (o[k].max - (End(o, b, k) - o[k].prev)) <= f[k]
        BY <1>7, <4>1 DEF Fits
      <4> QED
        BY <4>2, <4>3
    <3> QED
      BY <3>1, <3>2
  <2>2. g[n + 1] + b <= limit + more
    BY <1>9, <1>10
  <2> QED
    BY <1>2, <1>10, <2>1, <2>2 DEF Fits
<1> QED
  BY <1>2, <1>6, <1>11 DEF Promised, a, x

(* Bits used in the innermost allotment.                                   *)
LEMMA NestedWrite ==
  ASSUME NEW o \in Seq(Opened), NEW b \in Nat, NEW limit \in Nat, NEW n \in Nat,
         Nested(o, b), Promised(o, b, limit), o # <<>>,
         (b - o[Len(o)].prev) + n <= o[Len(o)].max
  PROVE  Nested(o, b + n) /\ Promised(o, b + n, limit) /\ b + n <= limit
<1> DEFINE l == Len(o)
<1>1. l \in Nat /\ l > 0 /\ l \in 1 .. l
  <2>1. Len(o) \in Nat /\ Len(o) # 0
    BY EmptySeq, LenProperties
  <2> QED
    BY <2>1
<1>2. \A k \in 1 .. l : o[k] \in Opened /\ o[k].prev \in Nat /\ o[k].max \in Nat
  BY OpenedFields
<1>3. \A k \in 1 .. l : k # l => End(o, b + n, k) = End(o, b, k)
  BY DEF End
<1>4. End(o, b + n, l) = b + n /\ End(o, b, l) = b
  BY DEF End
<1>5. PICK f : Fits(f, o, b, limit)
  BY DEF Promised
<1>6. \A k \in 0 .. l : f[k] \in Nat
  BY <1>5 DEF Fits
<1>7. /\ f[l] \in Nat /\ f[l - 1] \in Nat
      /\ f[l - 1] + (o[l].max - (b - o[l].prev)) <= f[l]
      /\ f[l] + b <= limit /\ b - o[l].prev \in 0 .. o[l].max
      /\ o[l].prev \in Nat /\ o[l].max \in Nat
  <2>1. l - 1 \in 0 .. l /\ l \in 0 .. l
    BY <1>1
  <2> QED
    BY <1>1, <1>2, <1>4, <1>5, <1>6, <2>1 DEF Fits, Nested
<1>8. /\ f[l] - n \in Nat /\ f[l - 1] + (o[l].max - ((b + n) - o[l].prev)) <= f[l] - n
      /\ (b + n) - o[l].prev \in 0 .. o[l].max
  BY <1>7, LessPromised
<1>12. b + n <= limit
  BY <1>7, <1>8
<1> DEFINE g == [k \in 0 .. l |-> IF k = l THEN f[l] - n ELSE f[k]]
<1>9. /\ g \in [0 .. l -> Nat] /\ g[l] = f[l] - n
      /\ \A k \in 0 .. l : k # l => g[k] = f[k]
  BY <1>1, <1>6, <1>8
<1> HIDE DEF g
<1>10. Nested(o, b + n)
  <2> SUFFICES ASSUME NEW k \in 1 .. l PROVE End(o, b + n, k) - o[k].prev \in 0 .. o[k].max
    BY DEF Nested
  <2>1. CASE k = l
    BY <1>4, <1>8, <2>1
  <2>2. CASE k # l
    BY <1>3, <2>2 DEF Nested
  <2> QED
    BY <2>1, <2>2
<1>11. Fits(g, o, b + n, limit)
  <2>1. ASSUME NEW k \in 1 .. l
        PROVE  g[k - 1] + (o[k].max - (End(o, b + n, k) - o[k].prev)) <= g[k]
    <3>1. k - 1 \in 0 .. l /\ k - 1 # l /\ k \in 0 .. l
      BY <1>1
    <3>2. CASE k = l
      BY <1>4, <1>8, <1>9, <3>1, <3>2
    <3>3. CASE k # l
      <4>1. g[k - 1] = f[k - 1] /\ g[k] = f[k] /\ End(o, b + n, k) = End(o, b, k)
        BY <1>3, <1>9, <3>1, <3>3
      <4>2. f[k - 1] + (o[k].max - (End(o, b, k) - o[k].prev)) <= f[k]
        BY <1>5 DEF Fits
      <4> QED
        BY <4>1, <4>2
    <3> QED
      BY <3>2, <3>3
  <2>2. g[l] + (b + n) <= limit
    BY <1>7, <1>8, <1>9
  <2> QED
    BY <1>9, <2>1, <2>2 DEF Fits
<1> QED
  BY <1>10, <1>11, <1>12 DEF Promised

(* The innermost allotment is given up: its parents move on by what it     *)
(* used, and the whole bytes it did not use are no longer promised.        *)
UsedBits(o, b) == b - o[Len(o)].prev
UnusedBytes(o, b) == (o[Len(o)].max - UsedBits(o, b)) \div 8
ParentsOf(o, b) ==
  [k \in 1 .. Len(o) - 1 |-> [o[k] EXCEPT !.prev = o[k].prev + UsedBits(o, b)]]

LEMMA NestedReclaim ==
  ASSUME NEW o \in Seq(Opened), NEW b \in Nat, NEW limit \in Nat, Nested(o, b),
         Promised(o, b, limit), o # <<>>
  PROVE  /\ UsedBits(o, b) \in Nat /\ UnusedBytes(o, b) \in Nat
         /\ limit - (8 * UnusedBytes(o, b)) \in Nat
         /\ ParentsOf(o, b) \in Seq(Opened) /\ Len(ParentsOf(o, b)) = Len(o) - 1
         /\ Nested(ParentsOf(o, b), b)
         /\ Promised(ParentsOf(o, b), b, limit - (8 * UnusedBytes(o, b)))
         /\ ParentsOf(o, b) # <<>> => ParentsOf(o, b)[1].prev = o[1].prev + UsedBits(o, b)
<1> DEFINE l == Len(o)
<1>16. PICK u : u = UsedBits(o, b)
  OBVIOUS
<1>17. PICK w : w = UnusedBytes(o, b)
  OBVIOUS
<1>18. PICK a : a = ParentsOf(o, b)
  OBVIOUS
<1>15. /\ u = b - o[l].prev /\ w = (o[l].max - u) \div 8
       /\ a = [k \in 1 .. l - 1 |-> [o[k] EXCEPT !.prev = o[k].prev + u]]
  BY <1>16, <1>17, <1>18 DEF UsedBits, UnusedBytes, ParentsOf
<1>1. l \in Nat /\ l > 0 /\ l \in 1 .. l /\ l - 1 \in Nat
  <2>1. Len(o) \in Nat /\ Len(o) # 0
    BY EmptySeq, LenProperties
  <2> QED
    BY <2>1
<1>2. \A k \in 1 .. l : o[k] \in Opened /\ o[k].prev \in Nat /\ o[k].max \in Nat
  BY OpenedFields
<1>3. End(o, b, l) = b
  BY DEF End
<1>4. PICK f : Fits(f, o, b, limit)
  BY DEF Promised
<1>5. \A k \in 0 .. l : f[k] \in Nat
  BY <1>4 DEF Fits
<1>6. /\ f[l] \in Nat /\ f[l - 1] \in Nat
      /\ f[l - 1] + (o[l].max - u) <= f[l]
      /\ f[l] + b <= limit /\ u \in 0 .. o[l].max
      /\ o[l].prev \in Nat /\ o[l].max \in Nat
  <2>1. l - 1 \in 0 .. l /\ l \in 0 .. l
    BY <1>1
  <2> QED
    BY <1>1, <1>2, <1>3, <1>4, <1>5, <1>15, <2>1 DEF Fits, Nested
<1>7. PICK m \in Nat : m = o[l].max - u /\ f[l - 1] + m <= f[l]
  BY <1>6
<1>8. w \in Nat /\ 8 * w <= m
  <2>1. w = m \div 8
    BY <1>7, <1>15
  <2> QED
    BY <2>1, ByteNumbers
<1>9. u \in Nat /\ limit - (8 * w) \in Nat /\ f[l - 1] + b <= limit - (8 * w)
  <2>1. u \in Nat
    BY <1>6
  <2>2. PICK rest \in Nat, whole \in Nat : rest = f[l - 1] /\ whole = f[l]
    BY <1>6
  <2>3. PICK taken \in Nat : taken = 8 * w
    BY <1>8
  <2>4. taken <= m /\ rest + m <= whole /\ whole + b <= limit
    BY <1>6, <1>7, <1>8, <2>2, <2>3
  <2>5. taken + (rest + b) <= limit
    BY <2>4
  <2>6. limit - taken \in Nat /\ rest + b <= limit - taken
    BY <2>5
  <2> QED
    BY <2>1, <2>2, <2>3, <2>6
<1>10. /\ a \in Seq(Opened) /\ Len(a) = l - 1
       /\ \A k \in 1 .. l - 1 : a[k].prev = o[k].prev + u /\ a[k].max = o[k].max
  <2>1. \A x \in Opened : LET y == [x EXCEPT !.prev = x.prev + u]
                          IN  y \in Opened /\ y.prev = x.prev + u /\ y.max = x.max
    <3> SUFFICES ASSUME NEW x \in Opened
                 PROVE  LET y == [x EXCEPT !.prev = x.prev + u]
                        IN  y \in Opened /\ y.prev = x.prev + u /\ y.max = x.max
      OBVIOUS
    <3>1. x.prev + u \in Nat
      BY <1>9 DEF Opened
    <3> QED
      BY <3>1 DEF Opened
  <2>2. \A k \in 1 .. l - 1 : o[k] \in Opened
    BY <1>1, <1>2
  <2>3. \A k \in 1 .. l - 1 : a[k] = [o[k] EXCEPT !.prev = o[k].prev + u]
    BY <1>15
  <2>4. \A k \in 1 .. l - 1 : a[k] \in Opened /\ a[k].prev = o[k].prev + u /\ a[k].max = o[k].max
    BY <2>1, <2>2, <2>3
  <2>5. a \in [1 .. l - 1 -> Opened]
    BY <1>15, <2>4
  <2>6. a \in Seq(Opened)
    BY <1>1, <2>5, SeqDef
  <2>7. Len(a) = l - 1
    BY <1>1, <2>5, <2>6, LenProperties
  <2> QED
    BY <2>4, <2>6, <2>7
<1>11. \A k \in 1 .. l - 1 : End(a, b, k) - a[k].prev = End(o, b, k) - o[k].prev
  <2> SUFFICES ASSUME NEW k \in 1 .. l - 1
               PROVE  End(a, b, k) - a[k].prev = End(o, b, k) - o[k].prev
    OBVIOUS
  <2>1. k # l /\ k \in 1 .. l /\ k + 1 \in 1 .. l
    BY <1>1
  <2>2. End(o, b, k) = o[k + 1].prev /\ o[k + 1].prev \in Nat /\ o[k].prev \in Nat
    BY <1>2, <2>1 DEF End
  <2>3. a[k].prev = o[k].prev + u
    BY <1>10
  <2>4. CASE k = l - 1
    <3>1. End(a, b, k) = b /\ o[k + 1].prev = b - u
      BY <1>1, <1>6, <1>10, <1>15, <2>4 DEF End
    <3> QED
      BY <1>9, <2>2, <2>3, <3>1
  <2>5. CASE k # l - 1
    <3>1. k + 1 \in 1 .. l - 1 /\ k # Len(a)
      BY <1>1, <1>10, <2>5
    <3>2. End(a, b, k) = o[k + 1].prev + u
      BY <1>10, <3>1 DEF End
    <3> QED
      BY <1>9, <2>2, <2>3, <3>2
  <2> QED
    BY <2>4, <2>5
<1>12. Nested(a, b)
  <2> SUFFICES ASSUME NEW k \in 1 .. l - 1 PROVE End(a, b, k) - a[k].prev \in 0 .. a[k].max
    BY <1>10 DEF Nested
  <2>1. k \in 1 .. l
    BY <1>1
  <2>2. End(o, b, k) - o[k].prev \in 0 .. o[k].max
    BY <2>1 DEF Nested
  <2> QED
    BY <1>10, <1>11, <2>2
<1>13. Promised(a, b, limit - (8 * w))
  <2> DEFINE g == [k \in 0 .. l - 1 |-> f[k]]
  <2>1. g \in [0 .. l - 1 -> Nat] /\ \A k \in 0 .. l - 1 : g[k] = f[k]
    BY <1>1, <1>5
  <2> HIDE DEF g
  <2>2. ASSUME NEW k \in 1 .. l - 1
        PROVE  g[k - 1] + (a[k].max - (End(a, b, k) - a[k].prev)) <= g[k]
    <3>1. k \in 1 .. l /\ k \in 0 .. l - 1 /\ k - 1 \in 0 .. l - 1
      BY <1>1
    <3>2. f[k - 1] + (o[k].max - (End(o, b, k) - o[k].prev)) <= f[k]
      BY <1>4, <3>1 DEF Fits
    <3>3. g[k - 1] = f[k - 1] /\ g[k] = f[k] /\ a[k].max = o[k].max
      BY <1>10, <2>1, <3>1
    <3> QED
      BY <1>11, <3>2, <3>3
  <2>3. g[l - 1] + b <= limit - (8 * w)
    <3>1. g[l - 1] = f[l - 1]
      BY <1>1, <2>1
    <3> QED
      BY <1>9, <3>1
  <2> QED
    BY <1>10, <2>1, <2>2, <2>3 DEF Fits, Promised
<1>14. a # <<>> => a[1].prev = o[1].prev + u
  <2> SUFFICES ASSUME a # <<>> PROVE a[1].prev = o[1].prev + u
    OBVIOUS
  <2>1. Len(a) # 0
    BY <1>10, EmptySeq
  <2>2. 1 \in 1 .. l - 1
    BY <1>1, <1>10, <2>1
  <2> QED
    BY <1>10, <2>2
<1> QED
  BY <1>16, <1>17, <1>18, <1>8, <1>9, <1>10, <1>12, <1>13, <1>14

-------------------------------------------------------------------------------
(* The memory: what is in the bytes up to the one the next bit goes to.    *)
Settled(m, b, ones) == {p \in m : p \div 8 <= b \div 8} = ones

WriterInv ==
  /\ used \in Nat /\ room \in Nat /\ used <= room
  /\ mem \subseteq 0 .. (8 * (room + 8)) - 1
  /\ bits \in Nat /\ logical \subseteq 0 .. bits - 1
  /\ Settled(mem, bits, logical)
  /\ open \in Seq(Opened) /\ Nested(open, bits) /\ Promised(open, bits, 8 * used)
  /\ charged \in Nat /\ appended \in Nat
  /\ charged + appended = IF open = <<>> THEN bits ELSE open[1].prev

LEMMA WriterConstants ==
  /\ MinCapacity \in Nat
  /\ Allotments \subseteq Nat
  /\ \A payload \in Payloads : payload.n \in 1 .. 56 /\ payload.ones \subseteq 0 .. payload.n - 1
  /\ \A span \in Spans : span.size \in Nat /\ span.ones \subseteq 0 .. (8 * span.size) - 1
  /\ \A junk \in Junk : junk \subseteq Nat
BY FoundationsAssumption DEF W!Assumptions, W!kBitsPerByte, W!kMaxBitsPerCall

LEMMA WithinStorage ==
  ASSUME Promised(open, bits, 8 * used), open \in Seq(Opened), bits \in Nat, used \in Nat
  PROVE  bits <= 8 * used
<1>1. PICK f : Fits(f, open, bits, 8 * used)
  BY DEF Promised
<1>2. Len(open) \in Nat
  BY LenProperties
<1>3. f[Len(open)] \in Nat /\ f[Len(open)] + bits <= 8 * used
  BY <1>1, <1>2 DEF Fits
<1> QED
  BY <1>3

(* Growing keeps what was written, and the zeros after it.                 *)
LEMMA GrownHolds ==
  ASSUME WriterInv, NEW n \in Nat, NEW junk \in Junk, NEW g, g = W!Grown(n, junk)
  PROVE  /\ g.capacity \in Nat /\ n <= g.capacity /\ used <= g.capacity
         /\ g.mem \subseteq 0 .. (8 * (g.capacity + 8)) - 1
         /\ Settled(g.mem, bits, logical)
<1>1. /\ used \in Nat /\ room \in Nat /\ used <= room /\ bits \in Nat /\ bits <= 8 * used
      /\ mem \subseteq 0 .. (8 * (room + 8)) - 1 /\ logical \subseteq 0 .. bits - 1
      /\ Settled(mem, bits, logical)
  BY WithinStorage DEF WriterInv
<1>2. CASE n <= room
  BY <1>1, <1>2 DEF W!Grown
<1>3. CASE n > room
  <2>1. PICK c : c = W!NewCapacity(n)
    OBVIOUS
  <2>2. c \in Nat /\ n <= c
    <3>1. (3 * room) \div 2 \in Nat
      BY <1>1
    <3> QED
      BY <2>1, <3>1, WriterConstants DEF W!NewCapacity
  <2>3. g = [capacity |-> c,
             mem |-> {p \in mem : p \div 8 < used}
                       \cup {p \in 0 .. (8 * (c + 8)) - 1 : p \div 8 > used /\ p \in junk}]
    BY <1>1, <1>3, <2>1 DEF W!Grown, W!ByteOf, W!BitsOf, W!kBitsPerByte, W!kPadding
  <2>4. /\ g.capacity = c
        /\ g.mem = {p \in mem : p \div 8 < used}
                     \cup {p \in 0 .. (8 * (c + 8)) - 1 : p \div 8 > used /\ p \in junk}
    BY <2>3
  <2>5. g.mem \subseteq 0 .. (8 * (c + 8)) - 1
    <3> SUFFICES ASSUME NEW p \in mem, p \div 8 < used PROVE p \in 0 .. (8 * (c + 8)) - 1
      BY <2>4
    <3>1. p \in Nat
      BY <1>1
    <3>2. p < 8 * used
      BY <1>1, <3>1, ByteNumbers
    <3> QED
      BY <1>1, <1>3, <2>2, <3>1, <3>2
  <2>6. \A p \in Nat : p \div 8 <= bits \div 8 => (p \in g.mem <=> p \in mem)
    <3> SUFFICES ASSUME NEW p \in Nat, p \div 8 <= bits \div 8
                 PROVE  p \in g.mem <=> p \in mem
      OBVIOUS
    <3>1. p \div 8 \in Nat /\ bits \div 8 \in Nat /\ bits \div 8 <= used
      BY <1>1, ByteNumbers
    <3>2. ~(p \div 8 > used)
      BY <1>1, <3>1
    <3>3. p \in mem => p \in logical
      BY <1>1 DEF Settled
    <3>4. p \in logical => p \div 8 < used
      <4>1. p \in logical => p < 8 * used
        BY <1>1
      <4> QED
        BY <1>1, <3>1, <4>1, ByteNumbers
    <3> QED
      BY <2>4, <3>2, <3>3, <3>4
  <2>7. Settled(g.mem, bits, logical)
    <3>1. mem \subseteq Nat /\ g.mem \subseteq Nat
      BY <1>1, <2>2, <2>5
    <3> QED
      BY <1>1, <2>6, <3>1 DEF Settled
  <2> QED
    BY <1>1, <1>3, <2>2, <2>4, <2>5, <2>7
<1> QED
  BY <1>1, <1>2, <1>3

LEMMA AllotStep ==
  ASSUME WriterInv, NEW max \in Allotments, W!Allot(max)
  PROVE  WriterInv'
<1> DEFINE more == (max + 8 - 1) \div 8
<1>1. max \in Nat /\ bits \in Nat /\ used \in Nat /\ open \in Seq(Opened)
  BY WriterConstants DEF WriterInv
<1>2. more \in Nat /\ max <= 8 * more
  BY <1>1
<1> HIDE DEF more
<1>3. PICK junk \in Junk : mem' = W!Grown(used + more, junk).mem
                        /\ room' = W!Grown(used + more, junk).capacity
  BY DEF W!Allot, W!Resize, W!DivCeil, W!kBitsPerByte, more
<1>4. /\ used' = used + more /\ open' = Append(open, [prev |-> bits, max |-> max])
      /\ UNCHANGED <<bits, logical, charged, appended>>
  BY DEF W!Allot, W!Resize, W!DivCeil, W!kBitsPerByte, more
<1>5. PICK g : g = W!Grown(used + more, junk)
  OBVIOUS
<1>6. /\ g.capacity \in Nat /\ used + more <= g.capacity
      /\ g.mem \subseteq 0 .. (8 * (g.capacity + 8)) - 1
      /\ Settled(g.mem, bits, logical)
  <2>1. used + more \in Nat
    BY <1>1, <1>2
  <2> QED
    BY <1>5, <2>1, GrownHolds
<1>7. mem' = g.mem /\ room' = g.capacity
  BY <1>3, <1>5
<1>8. /\ open' \in Seq(Opened) /\ Nested(open', bits)
      /\ Promised(open', bits, (8 * used) + (8 * more))
  <2>1. 8 * used \in Nat /\ 8 * more \in Nat /\ Nested(open, bits) /\ Promised(open, bits, 8 * used)
    BY <1>1, <1>2 DEF WriterInv
  <2> QED
    BY <1>1, <1>2, <1>4, <2>1, NestedAllot
<1>9. 8 * used' = (8 * used) + (8 * more)
  BY <1>1, <1>2, <1>4
<1>10. charged' + appended' = IF open' = <<>> THEN bits' ELSE open'[1].prev
  <2>1. Len(open') = Len(open) + 1 /\ Len(open) \in Nat
        /\ open'[Len(open) + 1] = [prev |-> bits, max |-> max]
        /\ \A k \in 1 .. Len(open) : open'[k] = open[k]
    <3>1. [prev |-> bits, max |-> max] \in Opened
      BY <1>1 DEF Opened
    <3> QED
      BY <1>1, <1>4, <3>1, AppendProperties, LenProperties
  <2>2. open' # <<>>
    <3>1. Len(open') # 0
      BY <2>1
    <3> QED
      BY <1>8, <3>1, EmptySeq
  <2>3. CASE open = <<>>
    <3>1. Len(open) = 0
      BY <2>3
    <3>2. open'[1].prev = bits
      BY <2>1, <3>1
    <3> QED
      BY <1>4, <2>2, <2>3, <3>2 DEF WriterInv
  <2>4. CASE open # <<>>
    <3>1. Len(open) # 0
      BY <1>1, <2>4, EmptySeq
    <3>2. 1 \in 1 .. Len(open)
      BY <2>1, <3>1
    <3>3. open'[1] = open[1]
      BY <2>1, <3>2
    <3> QED
      BY <1>4, <2>2, <2>4, <3>3 DEF WriterInv
  <2> QED
    BY <2>3, <2>4
<1>11. used' \in Nat /\ room' \in Nat /\ used' <= room'
  BY <1>1, <1>2, <1>4, <1>6, <1>7
<1> QED
  BY <1>4, <1>6, <1>7, <1>8, <1>9, <1>10, <1>11 DEF WriterInv

(* A word stored at the next bit.                                          *)
LEMMA PutStep ==
  ASSUME WriterInv, NEW n \in 1 .. 56, NEW v, v \subseteq 0 .. n - 1, open # <<>>,
         W!Used(W!Last(open)) + n <= W!Last(open).max, W!PutBits(n, v)
  PROVE  WriterInv'
<1>1. /\ used \in Nat /\ room \in Nat /\ used <= room /\ bits \in Nat
      /\ mem \subseteq 0 .. (8 * (room + 8)) - 1 /\ logical \subseteq 0 .. bits - 1
      /\ Settled(mem, bits, logical) /\ open \in Seq(Opened)
  BY DEF WriterInv
<1>2. /\ mem' = {p \in mem : p \div 8 \notin (bits \div 8) + 1 .. (bits \div 8) + 8 - 1}
                 \cup {bits + b : b \in v}
      /\ bits' = bits + n /\ logical' = logical \cup {bits + b : b \in v}
      /\ UNCHANGED <<used, room, open, charged, appended>>
  BY DEF W!PutBits, W!StoreWord, W!ByteOf, W!At, W!kBitsPerByte, W!kPadding
<1>3. /\ Nested(open, bits + n) /\ Promised(open, bits + n, 8 * used) /\ bits + n <= 8 * used
  <2>1. (bits - open[Len(open)].prev) + n <= open[Len(open)].max
    BY DEF W!Used, W!Last
  <2>2. 8 * used \in Nat /\ n \in Nat /\ Nested(open, bits) /\ Promised(open, bits, 8 * used)
    BY <1>1 DEF WriterInv
  <2> QED
    BY <1>1, <2>1, <2>2, NestedWrite
<1>4. \A b \in v : bits + b \in bits .. bits + n - 1
  BY <1>1
<1>5. mem' \subseteq 0 .. (8 * (room + 8)) - 1
  <2>1. \A b \in v : bits + b \in 0 .. (8 * (room + 8)) - 1
    BY <1>1, <1>3, <1>4
  <2> QED
    BY <1>1, <1>2, <2>1
<1>6. logical' \subseteq 0 .. (bits + n) - 1
  <2>1. \A b \in v : bits + b \in 0 .. (bits + n) - 1
    BY <1>1, <1>4
  <2>2. \A p \in logical : p \in 0 .. (bits + n) - 1
    BY <1>1
  <2> QED
    BY <1>2, <2>1, <2>2
<1>7. Settled(mem', bits + n, logical')
  <2>1. /\ bits \div 8 \in Nat /\ (bits + n) \div 8 \in Nat
        /\ bits \div 8 <= (bits + n) \div 8 /\ (bits + n) \div 8 <= (bits \div 8) + 7
    BY <1>1
  <2>2. ASSUME NEW p \in Nat, p \notin {bits + b : b \in v}
        PROVE  p \in mem' /\ p \div 8 <= (bits + n) \div 8 <=> p \in logical
    <3>1. p \div 8 \in Nat
      BY ByteNumbers
    <3>2. p \in mem' /\ p \div 8 <= (bits + n) \div 8 => p \in mem /\ p \div 8 <= bits \div 8
      BY <1>2, <2>1, <2>2, <3>1
    <3>3. p \in mem /\ p \div 8 <= bits \div 8 <=> p \in logical
      BY <1>1 DEF Settled
    <3>4. p \div 8 <= bits \div 8 => p \div 8 \notin (bits \div 8) + 1 .. (bits \div 8) + 8 - 1
          /\ p \div 8 <= (bits + n) \div 8
      BY <2>1, <3>1
    <3> QED
      BY <1>2, <3>2, <3>3, <3>4
  <2>3. ASSUME NEW p \in {bits + b : b \in v}
        PROVE  p \in mem' /\ p \div 8 <= (bits + n) \div 8 /\ p \in logical'
    <3>1. PICK b \in v : p = bits + b
      OBVIOUS
    <3>2. p \in Nat /\ p <= bits + n
      BY <1>1, <1>4, <3>1
    <3> QED
      BY <1>1, <1>2, <3>2
  <2>4. mem' \subseteq Nat /\ logical' \subseteq Nat
    BY <1>1, <1>5, <1>6
  <2>5. \A p : p \in mem' /\ p \div 8 <= (bits + n) \div 8 <=> p \in logical'
    BY <1>2, <2>2, <2>3, <2>4
  <2> QED
    BY <2>5 DEF Settled
<1>8. charged' + appended' = IF open' = <<>> THEN bits' ELSE open'[1].prev
  BY <1>2 DEF WriterInv
<1> QED
  BY <1>1, <1>2, <1>3, <1>5, <1>6, <1>7, <1>8 DEF WriterInv

LEMMA PadStep ==
  ASSUME WriterInv, W!ZeroPadToByte
  PROVE  WriterInv'
<1> DEFINE n == (8 * ((bits + 8 - 1) \div 8)) - bits
<1>1. bits \in Nat
  BY DEF WriterInv
<1>2. n \in 0 .. 7
  BY <1>1
<1>3. /\ open # <<>> /\ n > 0 /\ W!Used(W!Last(open)) + n <= W!Last(open).max
      /\ W!PutBits(n, {})
  BY DEF W!ZeroPadToByte, W!DivCeil, W!kBitsPerByte
<1> HIDE DEF n
<1>4. n \in 1 .. 56 /\ {} \subseteq 0 .. n - 1
  BY <1>2, <1>3
<1> QED
  BY <1>3, <1>4, PutStep

LEMMA ReclaimStep ==
  ASSUME WriterInv, W!ReclaimUnused
  PROVE  WriterInv'
<1> DEFINE u == UsedBits(open, bits)
           w == UnusedBytes(open, bits)
           a == ParentsOf(open, bits)
<1>1. /\ used \in Nat /\ room \in Nat /\ used <= room /\ bits \in Nat
      /\ open \in Seq(Opened) /\ Nested(open, bits) /\ Promised(open, bits, 8 * used)
      /\ charged \in Nat /\ appended \in Nat
  BY DEF WriterInv
<1>2. /\ open # <<>> /\ used' = used - w /\ open' = a /\ charged' = charged + u
      /\ UNCHANGED <<mem, room, bits, logical, appended>>
  BY DEF W!ReclaimUnused, W!UnusedBytes, W!Parents, W!Used, W!Last, W!kBitsPerByte,
         UsedBits, UnusedBytes, ParentsOf
<1>3. /\ u \in Nat /\ w \in Nat /\ (8 * used) - (8 * w) \in Nat
      /\ a \in Seq(Opened) /\ Len(a) = Len(open) - 1
      /\ Nested(a, bits) /\ Promised(a, bits, (8 * used) - (8 * w))
      /\ a # <<>> => a[1].prev = open[1].prev + u
  <2>1. 8 * used \in Nat
    BY <1>1
  <2> QED
    BY <1>1, <1>2, <2>1, NestedReclaim
<1> HIDE DEF u, w, a
<1>4. used' \in Nat /\ used' <= room' /\ 8 * used' = (8 * used) - (8 * w)
  BY <1>1, <1>2, <1>3
<1>5. charged' + appended' = IF open' = <<>> THEN bits' ELSE open'[1].prev
  <2>1. charged + appended = open[1].prev
    BY <1>2 DEF WriterInv
  <2>2. charged' + appended' = open[1].prev + u
    BY <1>1, <1>2, <1>3, <2>1
  <2>3. CASE a = <<>>
    <3>1. Len(open) = 1
      <4>1. Len(a) = 0 /\ Len(open) \in Nat
        BY <1>1, <2>3, LenProperties
      <4> QED
        BY <1>3, <4>1
    <3>2. open[1].prev \in Nat
      <4>1. 1 \in 1 .. Len(open)
        BY <3>1
      <4> QED
        BY <1>1, <4>1, OpenedFields
    <3>3. u = bits - open[1].prev
      BY <3>1 DEF u, UsedBits
    <3>4. open[1].prev + u = bits
      BY <1>1, <3>2, <3>3
    <3> QED
      BY <1>2, <2>2, <2>3, <3>4
  <2>4. CASE a # <<>>
    BY <1>2, <1>3, <2>2, <2>4
  <2> QED
    BY <2>3, <2>4
<1> QED
  BY <1>1, <1>2, <1>3, <1>4, <1>5 DEF WriterInv

LEMMA AppendStep ==
  ASSUME WriterInv, NEW span \in Spans, W!AppendByteAligned(span)
  PROVE  WriterInv'
<1>1. /\ used \in Nat /\ room \in Nat /\ used <= room /\ bits \in Nat /\ bits <= 8 * used
      /\ logical \subseteq 0 .. bits - 1 /\ open = <<>> /\ charged \in Nat /\ appended \in Nat
      /\ charged + appended = bits
  BY WithinStorage DEF WriterInv, W!AppendByteAligned
<1>2. PICK n \in Nat, v \in SUBSET Nat : n = span.size /\ v = span.ones /\ v \subseteq 0 .. (8 * n) - 1
  BY WriterConstants
<1>3. PICK first \in Nat : bits = 8 * first /\ bits \div 8 = first
  <2>1. bits % 8 = 0
    BY DEF W!AppendByteAligned, W!kBitsPerByte
  <2>2. bits \div 8 \in Nat /\ bits = 8 * (bits \div 8)
    BY <1>1, <2>1
  <2> QED
    BY <2>2
<1>4. PICK junk \in Junk : /\ mem' = W!Appended(W!Grown(used', junk).mem, span)
                         /\ room' = W!Grown(used', junk).capacity
  BY DEF W!AppendByteAligned
<1>5. /\ used' = used + n + 1 /\ bits' = bits + (8 * n) /\ logical' = logical \cup W!At(bits, v)
      /\ appended' = appended + (8 * n) /\ UNCHANGED <<open, charged>>
  BY <1>2 DEF W!AppendByteAligned, W!kBitsPerByte
<1>6. PICK g : g = W!Grown(used', junk)
  OBVIOUS
<1>7. /\ g.capacity \in Nat /\ used' <= g.capacity /\ used' \in Nat
      /\ g.mem \subseteq 0 .. (8 * (g.capacity + 8)) - 1
      /\ Settled(g.mem, bits, logical)
  <2>1. used' \in Nat
    BY <1>1, <1>5
  <2>2. PICK k \in Nat : k = used'
    BY <2>1
  <2>3. g = W!Grown(k, junk)
    BY <1>6, <2>2
  <2>4. /\ g.capacity \in Nat /\ k <= g.capacity
        /\ g.mem \subseteq 0 .. (8 * (g.capacity + 8)) - 1
        /\ Settled(g.mem, bits, logical)
    BY <2>3, GrownHolds
  <2> QED
    BY <2>2, <2>4
<1>8. PICK s : s = {bits + b : b \in v}
  OBVIOUS
<1>9. /\ mem' = {p \in g.mem : p \div 8 \notin first .. first + n} \cup s
      /\ room' = g.capacity /\ logical' = logical \cup s
  <2>1. mem' = W!Appended(g.mem, span) /\ room' = g.capacity
    BY <1>4, <1>6
  <2> QED
    BY <1>2, <1>3, <1>5, <1>8, <2>1 DEF W!Appended, W!At, W!ByteOf, W!kBitsPerByte
<1>10. \A p \in s : p \in Nat /\ p >= bits /\ p < bits + (8 * n)
  BY SMTT(40), <1>1, <1>2, <1>8
<1>11. mem' \subseteq 0 .. (8 * (room' + 8)) - 1
  <2>1. \A p \in s : p \in 0 .. (8 * (g.capacity + 8)) - 1
    <3> SUFFICES ASSUME NEW p \in s PROVE p \in 0 .. (8 * (g.capacity + 8)) - 1
      OBVIOUS
    <3>1. p \in Nat /\ p < bits + (8 * n)
      BY <1>10
    <3>2. used + n + 1 <= g.capacity
      BY <1>5, <1>7
    <3> QED
      BY <1>1, <1>7, <3>1, <3>2
  <2> QED
    BY <1>7, <1>9, <2>1
<1>12. logical' \subseteq 0 .. bits' - 1
  <2>1. \A p \in s : p \in 0 .. (bits + (8 * n)) - 1
    BY <1>1, <1>10
  <2>2. \A p \in logical : p \in 0 .. (bits + (8 * n)) - 1
    BY <1>1
  <2> QED
    BY <1>5, <1>9, <2>1, <2>2
<1>13. Settled(mem', bits', logical')
  <2>1. bits' \div 8 = first + n
    <3>1. bits' = 8 * (first + n)
      BY <1>3, <1>5
    <3> QED
      BY <3>1
  <2>2. ASSUME NEW p \in Nat, p \notin s
        PROVE  p \in mem' /\ p \div 8 <= first + n <=> p \in logical'
    <3>1. p \div 8 \in Nat /\ 8 * (p \div 8) <= p /\ p < (8 * (p \div 8)) + 8
      BY ByteNumbers
    <3>2. p \in g.mem /\ p \div 8 <= first <=> p \in logical
      BY <1>3, <1>7 DEF Settled
    <3>3. p \in logical => p \div 8 < first
      <4>1. p \in logical => p < 8 * first
        BY <1>1, <1>3
      <4> QED
        BY <3>1, <4>1
    <3>4. p \div 8 <= first + n /\ p \div 8 \notin first .. first + n => p \div 8 <= first
      BY <3>1
    <3>5. p \div 8 < first => p \div 8 \notin first .. first + n /\ p \div 8 <= first + n
      BY <3>1
    <3> QED
      BY <1>9, <2>2, <3>2, <3>3, <3>4, <3>5
  <2>3. ASSUME NEW p \in s
        PROVE  p \in mem' /\ p \div 8 <= first + n /\ p \in logical'
    <3>1. p \in Nat /\ p < 8 * (first + n)
      BY <1>3, <1>10
    <3> QED
      BY <1>9, <3>1
  <2>4. mem' \subseteq Nat /\ logical' \subseteq Nat
    <3>1. room' \in Nat /\ bits' \in Nat
      BY <1>1, <1>5, <1>7, <1>9
    <3>2. \A e \in Int : 0 .. e \subseteq Nat
      OBVIOUS
    <3>3. (8 * (room' + 8)) - 1 \in Int /\ bits' - 1 \in Int
      BY <3>1
    <3> QED
      BY <1>11, <1>12, <3>2, <3>3
  <2>5. \A p : p \in mem' /\ p \div 8 <= first + n <=> p \in logical'
    BY <2>2, <2>3, <2>4
  <2> QED
    BY <2>1, <2>5 DEF Settled
<1>14. open' = <<>> /\ open' \in Seq(Opened) /\ Nested(open', bits') /\ Promised(open', bits', 8 * used')
  <2>1. open' = <<>> /\ open' \in Seq(Opened) /\ Len(open') = 0
    BY <1>1, <1>5
  <2>2. Nested(open', bits')
    BY <2>1 DEF Nested
  <2>3. Fits([k \in 0 .. 0 |-> 0], open', bits', 8 * used')
    <3>1. bits' <= 8 * used'
      BY <1>1, <1>5
    <3>2. bits' \in Nat
      BY <1>1, <1>5
    <3> QED
      BY <2>1, <3>1, <3>2 DEF Fits
  <2> QED
    BY <2>1, <2>2, <2>3 DEF Promised
<1>15. /\ used' \in Nat /\ room' \in Nat /\ used' <= room' /\ bits' \in Nat
       /\ charged' \in Nat /\ appended' \in Nat
       /\ charged' + appended' = IF open' = <<>> THEN bits' ELSE open'[1].prev
  BY <1>1, <1>5, <1>7, <1>9, <1>14
<1> QED
  BY <1>11, <1>12, <1>13, <1>14, <1>15 DEF WriterInv

LEMMA WriterInit == W!Init => WriterInv
<1> SUFFICES ASSUME W!Init PROVE WriterInv
  OBVIOUS
<1>1. /\ mem = {} /\ used = 0 /\ room = 0 /\ bits = 0 /\ open = <<>> /\ logical = {}
      /\ charged = 0 /\ appended = 0
  BY DEF W!Init
<1>2. open \in Seq(Opened) /\ Len(open) = 0
  BY <1>1
<1>3. Fits([k \in 0 .. 0 |-> 0], open, bits, 8 * used)
  BY <1>1, <1>2 DEF Fits
<1>4. Nested(open, bits) /\ Promised(open, bits, 8 * used)
  BY <1>2, <1>3 DEF Nested, Promised
<1>5. Settled(mem, bits, logical)
  BY <1>1 DEF Settled
<1> QED
  BY <1>1, <1>2, <1>4, <1>5 DEF WriterInv

LEMMA WriterStep == WriterInv /\ [W!Next]_writerVars => WriterInv'
<1> SUFFICES ASSUME WriterInv, [W!Next]_writerVars PROVE WriterInv'
  OBVIOUS
<1>1. ASSUME NEW max \in Allotments, W!Allot(max) PROVE WriterInv'
  BY <1>1, AllotStep
<1>2. ASSUME NEW payload \in Payloads, W!Write(payload) PROVE WriterInv'
  <2>1. PICK n \in 1 .. 56, v \in SUBSET Nat : n = payload.n /\ v = payload.ones /\ v \subseteq 0 .. n - 1
    BY WriterConstants
  <2>2. /\ open # <<>> /\ W!Used(W!Last(open)) + n <= W!Last(open).max
        /\ W!PutBits(n, v)
    BY <1>2, <2>1 DEF W!Write
  <2> QED
    BY <2>1, <2>2, PutStep
<1>3. CASE W!ZeroPadToByte
  BY <1>3, PadStep
<1>4. CASE W!ReclaimUnused
  BY <1>4, ReclaimStep
<1>5. ASSUME NEW span \in Spans, W!AppendByteAligned(span) PROVE WriterInv'
  BY <1>5, AppendStep
<1>6. CASE UNCHANGED writerVars
  BY <1>6 DEF writerVars, WriterInv
<1> QED
  BY <1>1, <1>2, <1>3, <1>4, <1>5, <1>6 DEF W!Next

LEMMA WriterSound == WriterInv => W!TypeOK /\ W!WriterExact /\ W!BitsChargedOnce
<1> SUFFICES ASSUME WriterInv PROVE W!TypeOK /\ W!WriterExact /\ W!BitsChargedOnce
  OBVIOUS
<1>1. used \in Nat /\ room \in Nat /\ used <= room /\ bits \in Nat /\ bits <= 8 * used
      /\ open \in Seq(Opened)
  BY WithinStorage DEF WriterInv
<1>2. \A k \in DOMAIN open :
        LET own == IF k = Len(open) THEN bits ELSE open[k + 1].prev
        IN  own - open[k].prev \in 0 .. open[k].max
  <2>1. DOMAIN open = 1 .. Len(open)
    BY <1>1
  <2> QED
    BY <2>1 DEF WriterInv, Nested, End
<1>3. W!TypeOK
  BY <1>1, <1>2 DEF WriterInv, W!TypeOK, W!BitsOf, W!kBitsPerByte, W!kPadding
<1>4. W!WriterExact
  BY DEF WriterInv, W!WriterExact, Settled, W!ByteOf, W!kBitsPerByte
<1>5. W!BitsChargedOnce
  BY DEF WriterInv, W!BitsChargedOnce
<1> QED
  BY <1>3, <1>4, <1>5

-------------------------------------------------------------------------------
(***************************************************************************)
(* The composition: all the invariants together, and what they give.       *)
(***************************************************************************)
IInv ==
  /\ SeqInv /\ AllocInv /\ HandleInv /\ VectorInv
  /\ RowsInv /\ ExternalInv /\ WriterInv /\ ReaderInv

LEMMA FoundationsStarts == FoundationsInit => IInv
BY SeqInit, AllocInit, HandleInit, VectorInit, RowsInit, ExternalInit, WriterInit, ReaderInit
DEF FoundationsInit, IInv

LEMMA FoundationsSteps ==
  IInv /\ [FoundationsNext /\ which' = which]_<<which, foundationVars>> => IInv'
<1> SUFFICES ASSUME IInv, [FoundationsNext /\ which' = which]_<<which, foundationVars>>
             PROVE  IInv'
  OBVIOUS
<1>1. [S!Next]_seqVars
  BY DEF FoundationsNext, foundationVars, streamVars
<1>2. [A!Next]_allocVars
  BY DEF FoundationsNext, foundationVars, streamVars
<1>3. [H!Next]_handleVars
  BY DEF FoundationsNext, foundationVars, streamVars
<1>4. [B!Next]_bufVars
  BY DEF FoundationsNext, foundationVars, streamVars
<1>5. [T!Next]_rowVars
  BY DEF FoundationsNext, foundationVars, streamVars
<1>6. [X!Next]_externalVars
  BY DEF FoundationsNext, foundationVars, streamVars
<1>7. [W!Next]_writerVars
  BY DEF FoundationsNext, foundationVars, streamVars
<1>8. [R!Next]_readerVars
  BY DEF FoundationsNext, foundationVars, streamVars
<1> QED
  BY <1>1, <1>2, <1>3, <1>4, <1>5, <1>6, <1>7, <1>8,
     SeqStep, AllocStep, HandleStep, VectorStep, RowsStep, ExternalStep, WriterStep, ReaderStep
  DEF IInv

(* The invariants of the components hold in every state, whichever of them *)
(* the behaviour is about.                                                 *)
THEOREM FoundationsInvariant == FoundationsSpec => []IInv
BY FoundationsStarts, FoundationsSteps, PTL DEF FoundationsSpec

(* A runner without threads that reports success has called the function   *)
(* once for every number of the range, in order, after the init function   *)
(* was told of one thread (thread_pool_internal.h, data_parallel.h).       *)
THEOREM RunnersComplete == FoundationsSpec => []SuccessIsComplete
<1>1. IInv => SuccessIsComplete
  BY SeqSound DEF IInv, SuccessIsComplete
<1> QED
  BY <1>1, FoundationsInvariant, PTL

(* Whatever threads allocate and free at the same time, a payload is       *)
(* aligned and lies with its header in the memory malloc returned; the     *)
(* bytes in use are those of the live blocks, and no update of their peak  *)
(* is lost (cache_aligned.cc).  The memory of a runner handle returns to   *)
(* the manager it came from, once nothing lives in it                      *)
(* (thread_parallel_runner.cc, resizable_parallel_runner.cc).              *)
THEOREM AllocatorIsSound == FoundationsSpec => []AllocatorSound
<1>1. IInv => AllocatorSound
  BY AllocSound, HandleSound DEF IInv, AllocatorSound
<1> QED
  BY <1>1, FoundationsInvariant, PTL

(* Whatever is done with byte vectors, each holds what a std::vector would *)
(* and has its capacity and padding in memory (padded_bytes.{h,cc}).       *)
THEOREM BytesHoldVectors == FoundationsSpec => []HoldsVector
<1>1. IInv => HoldsVector
  BY VectorSound DEF IInv, HoldsVector
<1> QED
  BY <1>1, FoundationsInvariant, PTL

(* Whatever the encodings, the number of threads and the order they take   *)
(* rows in, a conversion that has ended left every row what it was, in the *)
(* encoding the bundle declares; only those of CMYK fail or abort          *)
(* (enc_color_management.cc, enc_image_bundle.cc, enc_xyb.cc).             *)
THEOREM ConversionIsExact == FoundationsSpec => []ConversionExact
<1>1. IInv => ConversionExact
  BY RowsSound DEF IInv, ConversionExact
<1> QED
  BY <1>1, FoundationsInvariant, PTL

(* Whatever the size, the orientation, the number of channels, the format  *)
(* and the number of threads, when ConvertToExternal returns every row of  *)
(* the picture as it is meant to be seen has been delivered exactly once   *)
(* and whole, to its place in the buffer, whose padding is untouched, or   *)
(* to the callback; and ConvertFromExternal reads from that buffer the     *)
(* samples that were written (dec_external_image.cc,                       *)
(* enc_external_image.cc).                                                 *)
THEOREM RowsAreDelivered == FoundationsSpec => []RowsDelivered
<1>1. IInv => RowsDelivered
  BY ExternalSound DEF IInv, RowsDelivered
<1> QED
  BY <1>1, FoundationsInvariant, PTL

(* Whatever is written in fields of up to 56 bits under whatever nesting   *)
(* of allotments, padded or appended, and whatever memory holds when it is *)
(* allocated, the bytes have exactly the bits written and zeros after      *)
(* them; no store leaves the storage and its padding; and every bit is     *)
(* charged once (enc_bit_writer.cc).                                       *)
THEOREM WrittenExactly == FoundationsSpec => []WriterExact
<1>1. IInv => WriterExact
  BY WriterSound DEF IInv, WriterExact
<1> QED
  BY <1>1, FoundationsInvariant, PTL

(* Whatever the input and the mixture of reads, skips and jumps, a read    *)
(* returns the bits at its position, zeros past the end, and having asked  *)
(* for more than there is is never forgotten (dec_bit_reader.h).           *)
THEOREM ReadExactly == FoundationsSpec => []ReaderExact
<1>1. IInv => ReaderExact
  BY ReaderSound DEF IInv, ReaderExact
<1> QED
  BY <1>1, FoundationsInvariant, PTL
===============================================================================
