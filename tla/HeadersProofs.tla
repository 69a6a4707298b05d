------------------------------ MODULE HeadersProofs ------------------------------
(***************************************************************************)
(* The headers of Descriptions, for every value of the constants: whatever *)
(* setters were called, what is written is read back.  A header is joined  *)
(* from the pieces its fields leave, of which a field may leave none; the  *)
(* proof goes along these pieces, and shows that a reader which has taken  *)
(* the first k of them is left with the others, and knows the first k      *)
(* fields.  Metadata holds other bundles, for each of which the same was   *)
(* shown before; the invariant says of every setter that what it leaves is *)
(* a header that can be written, or is refused.                            *)
(***************************************************************************)
EXTENDS DescriptionsProofs

(* Reading a header back.                                                    *)
State(b, rest) == [ok |-> TRUE, b |-> b, rest |-> rest]

(* A reader that takes one piece at each step, and is then where it is      *)
(* expected to be, takes all of them.                                       *)
LEMMA ReadAlong ==
  ASSUME NEW E, NEW n \in Nat \ {0}, NEW ss, NEW g, NEW s, Joins(g, ss, n, E, s),
         NEW X, NEW f, f[0] = State(X[0], s),
         \A k \in 0 .. n - 1 : \A r \in Seq(E) :
           f[k] = State(X[k], ss[k + 1] \o r) => f[k + 1] = State(X[k + 1], r)
  PROVE  f[n] = State(X[n], <<>>)
<1> DEFINE B == {k \in 0 .. n : \E r \in Seq(E) : f[k] = State(X[k], r) /\ g[k] \o r = s}
<1>1. 0 \in B
  <2>1. g[0] = <<>> /\ g[n] \in Seq(E) /\ s = g[n]
    BY DEF Joins
  <2>2. s \in Seq(E)
    BY <2>1
  <2>3. g[0] \o s = s
    BY <2>1, <2>2, ConcatEmptySeq
  <2>4. 0 \in 0 .. n
    OBVIOUS
  <2> QED
    BY <2>2, <2>3, <2>4
<1>2. ASSUME NEW k \in 0 .. n - 1, k \in B PROVE k + 1 \in B
  <2>1. PICK t \in Seq(E) : f[k] = State(X[k], t) /\ g[k] \o t = s
    BY <1>2
  <2>2. PICK j \in 1 .. n : j = k + 1 /\ j - 1 = k /\ k \in 0 .. n /\ j \in 0 .. n
    BY <1>2
  <2>3. /\ g[j] = g[k] \o ss[j] /\ ss[j] \in Seq(E) /\ g[k] \in Seq(E)
    BY <2>2 DEF Joins
  <2>4. PICK r \in Seq(E) : g[j] \o r = s
    BY <2>2 DEF Joins
  <2>5. PICK a \in Seq(E), b \in Seq(E) : a = g[k] /\ b = ss[j]
    BY <2>3
  <2>6. (a \o b) \o r = a \o (b \o r)
    BY ONLY a \in Seq(E), b \in Seq(E), r \in Seq(E), ConcatAssociative
  <2>7. b \o r \in Seq(E)
    BY ONLY b \in Seq(E), r \in Seq(E), ConcatProperties
  <2>8. PICK u \in Seq(E) : u = b \o r
    BY <2>7
  <2>9. a \o t = a \o u
    BY <2>1, <2>3, <2>4, <2>5, <2>6, <2>8
  <2>10. t = u
    BY ONLY <2>9, a \in Seq(E), t \in Seq(E), u \in Seq(E), ConcatSimplifications
  <2>11. f[k] = State(X[k], ss[k + 1] \o r)
    BY <2>1, <2>2, <2>5, <2>8, <2>10
  <2>12. f[j] = State(X[j], r)
    BY <1>2, <2>2, <2>11
  <2>13. j \in B
    BY <2>2, <2>4, <2>12
  <2> QED
    BY <2>2, <2>13
<1> HIDE DEF B
<1>3. \A k \in 0 .. n : k \in B
  BY ONLY <1>1, <1>2, n \in Nat \ {0}, AllUpTo
<1>4. PICK r \in Seq(E) : f[n] = State(X[n], r) /\ g[n] \o r = s
  <2>1. n \in 0 .. n
    OBVIOUS
  <2> QED
    BY <1>3, <2>1 DEF B
<1>5. g[n] \in Seq(E) /\ s = g[n]
  BY DEF Joins
<1>6. PICK a \in Seq(E), e \in Seq(E) : a = s /\ e = <<>>
  BY <1>5, EmptySeq
<1>7. a \o r = a \o e
  BY <1>4, <1>5, <1>6, ConcatEmptySeq
<1>8. r = e
  BY ONLY <1>7, a \in Seq(E), r \in Seq(E), e \in Seq(E), ConcatSimplifications
<1> QED
  BY <1>4, <1>6, <1>8

(* FlattenSeq of the headers is that of the encodings.                      *)
LEMMA FlattenAlike == ASSUME NEW ss PROVE H!FlattenSeq(ss) = C!FlattenSeq(ss)
BY DEF H!FlattenSeq, C!FlattenSeq

(* A field at the head of a stream.                                          *)
LEMMA HeadOf ==
  ASSUME NEW E, NEW x \in E, NEW r \in Seq(E)
  PROVE  <<x>> \o r # <<>> /\ Head(<<x>> \o r) = x /\ Tail(<<x>> \o r) = r
OBVIOUS

(* A bundle of which the first k fields in the order P have been read, those *)
(* in V, with what T has for them.                                           *)
Mixed(P, T, V, c, k) ==
  [f \in DOMAIN c |-> IF f \in V /\ (\E j \in 1 .. k : f = P[j]) THEN T[f] ELSE c[f]]

(* At first it is as it was.                                                 *)
LEMMA MixedFirst ==
  ASSUME NEW P, NEW T, NEW V, NEW c, c = [f \in DOMAIN c |-> c[f]]
  PROVE  Mixed(P, T, V, c, 0) = c
<1>1. Mixed(P, T, V, c, 0) = [f \in DOMAIN c |-> c[f]]
  BY DEF Mixed
<1> QED
  BY <1>1

(* Another field changes it in one place, if it is visited.                  *)
OneMore(P, T, V, c, k) ==
  Mixed(P, T, V, c, k + 1) =
    IF P[k + 1] \in V THEN [Mixed(P, T, V, c, k) EXCEPT ![P[k + 1]] = T[P[k + 1]]]
                      ELSE Mixed(P, T, V, c, k)

(* As long as no field has two places.                                       *)
LEMMA MixedNext ==
  ASSUME NEW P, NEW T, NEW V, NEW c, NEW n \in Nat, NEW k \in 0 .. n - 1,
         \A i, j \in 1 .. n : P[i] = P[j] => i = j, P[k + 1] \in DOMAIN c
  PROVE  OneMore(P, T, V, c, k)
<1>1. PICK q : q = Mixed(P, T, V, c, k)
  OBVIOUS
<1>2. DOMAIN q = DOMAIN c /\ q = [f \in DOMAIN c |-> q[f]]
  BY <1>1 DEF Mixed
<1>3. ASSUME NEW f \in DOMAIN c
      PROVE  Mixed(P, T, V, c, k + 1)[f] = IF f = P[k + 1] /\ P[k + 1] \in V THEN T[f] ELSE q[f]
  <2>1. (\E j \in 1 .. k + 1 : f = P[j]) <=> (f = P[k + 1] \/ \E j \in 1 .. k : f = P[j])
    OBVIOUS
  <2>2. Mixed(P, T, V, c, k + 1)[f] =
          IF f \in V /\ (\E j \in 1 .. k + 1 : f = P[j]) THEN T[f] ELSE c[f]
    BY DEF Mixed
  <2>3. q[f] = IF f \in V /\ (\E j \in 1 .. k : f = P[j]) THEN T[f] ELSE c[f]
    BY <1>1 DEF Mixed
  <2> QED
    BY <2>1, <2>2, <2>3
<1>4. Mixed(P, T, V, c, k + 1) = [f \in DOMAIN c |-> Mixed(P, T, V, c, k + 1)[f]]
  BY DEF Mixed
<1>5. CASE P[k + 1] \in V
  <2>1. [q EXCEPT ![P[k + 1]] = T[P[k + 1]]] =
          [f \in DOMAIN c |-> IF f = P[k + 1] THEN T[f] ELSE q[f]]
    BY <1>2
  <2>2. Mixed(P, T, V, c, k + 1) = [f \in DOMAIN c |-> IF f = P[k + 1] THEN T[f] ELSE q[f]]
    BY <1>3, <1>4, <1>5
  <2> QED
    BY <1>1, <1>5, <2>1, <2>2 DEF OneMore
<1>6. CASE P[k + 1] \notin V
  <2>1. \A f \in DOMAIN c : Mixed(P, T, V, c, k + 1)[f] = q[f]
    BY <1>3, <1>6
  <2> QED
    BY <1>1, <1>2, <1>4, <1>6, <2>1 DEF OneMore
<1> QED
  BY <1>5, <1>6

(* A bundle without nested ones, read field by field.                        *)
LeafReads(f, kind, c, s, n) ==
  f = [k \in 0 .. n |-> IF k = 0 THEN [ok |-> TRUE, b |-> c, rest |-> s]
                        ELSE H!ReadLeafField(f[k - 1], H!Order[kind][k], kind)]

(* The function by which a bundle without nested ones is read exists, ...    *)
LEMMA LeafReadsExist ==
  ASSUME NEW kind, NEW c, NEW s, NEW n \in Nat
  PROVE  \E f : LeafReads(f, kind, c, s, n)
<1> DEFINE Bad == {k \in Nat : ~ \E f : LeafReads(f, kind, c, s, k)}
<1>1. SUFFICES ASSUME Bad # {} PROVE FALSE
  BY <1>1
<1>2. PICK j \in Bad : \A k \in Bad : j <= k
  BY <1>1, LeastNatural
<1>3. j # 0
  <2>1. LeafReads([k \in 0 .. 0 |-> [ok |-> TRUE, b |-> c, rest |-> s]], kind, c, s, 0)
    BY DEF LeafReads
  <2> QED
    BY <1>2, <2>1
<1>4. j - 1 \in Nat /\ j - 1 \notin Bad
  BY <1>2, <1>3
<1>5. PICK f : LeafReads(f, kind, c, s, j - 1)
  BY <1>4
<1> DEFINE g == [k \in 0 .. j |-> IF k = j THEN H!ReadLeafField(f[k - 1], H!Order[kind][k], kind) ELSE f[k]]
<1>6. LeafReads(g, kind, c, s, j)
  <2>1. j \in Nat \ {0}
    BY <1>2, <1>3
  <2>2. \A k \in 0 .. j - 1 : g[k] = f[k]
    BY <2>1
  <2>3. \A k \in 0 .. j : g[k] = IF k = 0 THEN [ok |-> TRUE, b |-> c, rest |-> s]
                                 ELSE H!ReadLeafField(g[k - 1], H!Order[kind][k], kind)
    <3> SUFFICES ASSUME NEW k \in 0 .. j
                 PROVE  g[k] = IF k = 0 THEN [ok |-> TRUE, b |-> c, rest |-> s]
                               ELSE H!ReadLeafField(g[k - 1], H!Order[kind][k], kind)
      OBVIOUS
    <3>1. CASE k = j
      <4>1. g[k - 1] = f[k - 1] /\ k # 0
        BY <2>1, <2>2, <3>1
      <4> QED
        BY <3>1, <4>1
    <3>2. CASE k # j /\ k # 0
      <4>1. k \in 0 .. j - 1 /\ k - 1 \in 0 .. j - 1
        BY <2>1, <3>2
      <4>2. f[k] = H!ReadLeafField(f[k - 1], H!Order[kind][k], kind)
        BY <1>5, <3>2, <4>1 DEF LeafReads
      <4>3. g[k] = f[k] /\ g[k - 1] = f[k - 1]
        BY <2>2, <4>1
      <4> QED
        BY <3>2, <4>2, <4>3
    <3>3. CASE k # j /\ k = 0
      <4>1. 0 \in 0 .. j - 1
        BY <2>1
      <4>2. f[0] = [ok |-> TRUE, b |-> c, rest |-> s]
        BY <1>5, <4>1 DEF LeafReads
      <4> QED
        BY <2>2, <3>3, <4>1, <4>2
    <3> QED
      BY <3>1, <3>2, <3>3
  <2>4. g = [k \in 0 .. j |-> g[k]]
    OBVIOUS
  <2> HIDE DEF g
  <2> QED
    BY <2>3, <2>4 DEF LeafReads
<1> QED
  BY <1>2, <1>6


(* ... and ReadFields is its last value.                                     *)
LEMMA LeafReadsAre ==
  ASSUME NEW kind, NEW c, NEW s, Len(H!Order[kind]) \in Nat
  PROVE  \E f : /\ LeafReads(f, kind, c, s, Len(H!Order[kind]))
                /\ H!ReadFields(kind, c, s) = f[Len(H!Order[kind])]
<1> DEFINE f == CHOOSE f : LeafReads(f, kind, c, s, Len(H!Order[kind]))
<1>1. LeafReads(f, kind, c, s, Len(H!Order[kind]))
  BY LeafReadsExist
<1>2. H!ReadFields(kind, c, s) = f[Len(H!Order[kind])]
  BY Zenon DEF H!ReadFields, LeafReads
<1> QED
  BY <1>1, <1>2

(* The metadata, read field by field.                                        *)
AllReads(f, c, s, n) ==
  f = [k \in 0 .. n |-> IF k = 0 THEN [ok |-> TRUE, b |-> c, rest |-> s]
                        ELSE H!ReadMetadataField(f[k - 1], H!Order.metadata[k])]

(* The function by which the metadata is read exists, ...                    *)
LEMMA AllReadsExist ==
  ASSUME NEW c, NEW s, NEW n \in Nat
  PROVE  \E f : AllReads(f, c, s, n)
<1> DEFINE Bad == {k \in Nat : ~ \E f : AllReads(f, c, s, k)}
<1>1. SUFFICES ASSUME Bad # {} PROVE FALSE
  BY <1>1
<1>2. PICK j \in Bad : \A k \in Bad : j <= k
  BY <1>1, LeastNatural
<1>3. j # 0
  <2>1. AllReads([k \in 0 .. 0 |-> [ok |-> TRUE, b |-> c, rest |-> s]], c, s, 0)
    BY DEF AllReads
  <2> QED
    BY <1>2, <2>1
<1>4. j - 1 \in Nat /\ j - 1 \notin Bad
  BY <1>2, <1>3
<1>5. PICK f : AllReads(f, c, s, j - 1)
  BY <1>4
<1> DEFINE g == [k \in 0 .. j |-> IF k = j THEN H!ReadMetadataField(f[k - 1], H!Order.metadata[k]) ELSE f[k]]
<1>6. AllReads(g, c, s, j)
  <2>1. j \in Nat \ {0}
    BY <1>2, <1>3
  <2>2. \A k \in 0 .. j - 1 : g[k] = f[k]
    BY <2>1
  <2>3. \A k \in 0 .. j : g[k] = IF k = 0 THEN [ok |-> TRUE, b |-> c, rest |-> s]
                                 ELSE H!ReadMetadataField(g[k - 1], H!Order.metadata[k])
    <3> SUFFICES ASSUME NEW k \in 0 .. j
                 PROVE  g[k] = IF k = 0 THEN [ok |-> TRUE, b |-> c, rest |-> s]
                               ELSE H!ReadMetadataField(g[k - 1], H!Order.metadata[k])
      OBVIOUS
    <3>1. CASE k = j
      <4>1. g[k - 1] = f[k - 1] /\ k # 0
        BY <2>1, <2>2, <3>1
      <4> QED
        BY <3>1, <4>1
    <3>2. CASE k # j /\ k # 0
      <4>1. k \in 0 .. j - 1 /\ k - 1 \in 0 .. j - 1
        BY <2>1, <3>2
      <4>2. f[k] = H!ReadMetadataField(f[k - 1], H!Order.metadata[k])
        BY <1>5, <3>2, <4>1 DEF AllReads
      <4>3. g[k] = f[k] /\ g[k - 1] = f[k - 1]
        BY <2>2, <4>1
      <4> QED
        BY <3>2, <4>2, <4>3
    <3>3. CASE k # j /\ k = 0
      <4>1. 0 \in 0 .. j - 1
        BY <2>1
      <4>2. f[0] = [ok |-> TRUE, b |-> c, rest |-> s]
        BY <1>5, <4>1 DEF AllReads
      <4> QED
        BY <2>2, <3>3, <4>1, <4>2
    <3> QED
      BY <3>1, <3>2, <3>3
  <2>4. g = [k \in 0 .. j |-> g[k]]
    OBVIOUS
  <2> HIDE DEF g
  <2> QED
    BY <2>3, <2>4 DEF AllReads
<1> QED
  BY <1>2, <1>6


(* ... and ReadMetadataFields is its last value.                             *)
LEMMA AllReadsAre ==
  ASSUME NEW c, NEW s, Len(H!Order.metadata) \in Nat
  PROVE  \E f : /\ AllReads(f, c, s, Len(H!Order.metadata))
                /\ H!ReadMetadataFields(c, s) = f[Len(H!Order.metadata)]
<1> DEFINE f == CHOOSE f : AllReads(f, c, s, Len(H!Order.metadata))
<1>1. AllReads(f, c, s, Len(H!Order.metadata))
  BY AllReadsExist
<1>2. H!ReadMetadataFields(c, s) = f[Len(H!Order.metadata)]
  BY Zenon DEF H!ReadMetadataFields, AllReads
<1> QED
  BY <1>1, <1>2

(* An order of fields in which each has one place.                           *)
Ordered(P) ==
  /\ Len(P) \in Nat \ {0} /\ DOMAIN P = 1 .. Len(P)
  /\ \A i, j \in 1 .. Len(P) : P[i] = P[j] => i = j

(* What is said of the fields of a bundle that are visited.                  *)
LeafSaid(kind, d) == [f \in H!Visited(kind, d) |-> H!Coded(f, d[f])]

(* The bundle c when k fields of d have been read into it.                   *)
LeafSoFar(kind, d, c, k) == Mixed(H!Order[kind], LeafSaid(kind, d), H!Visited(kind, d), c, k)

(* The reader asks for the fields that were sent, and takes what was said.   *)
LeafUnderstood(kind, d, c) ==
  /\ c = [f \in DOMAIN c |-> c[f]]
  /\ \A k \in 1 .. Len(H!Order[kind]) : H!Order[kind][k] \in DOMAIN c
  /\ \A k \in 0 .. Len(H!Order[kind]) - 1 :
       H!Visits(H!Order[kind][k + 1], LeafSoFar(kind, d, c, k))
         <=> H!Visits(H!Order[kind][k + 1], d)
  /\ \A k \in 1 .. Len(H!Order[kind]) :
       H!Visits(H!Order[kind][k], d) =>
         H!Fits(H!Named(kind, H!Order[kind][k]), H!Coded(H!Order[kind][k], d[H!Order[kind][k]]))

(* Which fields are visited.                                                 *)
LEMMA VisitedAre ==
  ASSUME NEW kind, Ordered(H!Order[kind]), NEW d, NEW k \in 1 .. Len(H!Order[kind])
  PROVE  H!Order[kind][k] \in H!Visited(kind, d) <=> H!Visits(H!Order[kind][k], d)
<1>1. H!Order[kind][k] \in H!ToSet(H!Order[kind])
  BY DEF H!ToSet, Ordered
<1> QED
  BY <1>1 DEF H!Visited

(* One field is read back.                                                   *)
LEMMA LeafFieldBack ==
  ASSUME NEW kind, Ordered(H!Order[kind]), NEW d, NEW c, LeafUnderstood(kind, d, c),
         NEW E, NEW k \in 0 .. Len(H!Order[kind]) - 1, NEW r \in Seq(E),
         H!LeafSent(d, H!Order[kind][k + 1]) \in Seq(E)
  PROVE  H!ReadLeafField(State(LeafSoFar(kind, d, c, k),
                               H!LeafSent(d, H!Order[kind][k + 1]) \o r),
                         H!Order[kind][k + 1], kind)
           = State(LeafSoFar(kind, d, c, k + 1), r)
<1> DEFINE b == LeafSoFar(kind, d, c, k)
           v == H!Coded(H!Order[kind][k + 1], d[H!Order[kind][k + 1]])
<1>1. PICK n \in Nat \ {0} : n = Len(H!Order[kind])
  BY DEF Ordered
<1>2. PICK j \in 1 .. n : j = k + 1
  BY <1>1
<1>3. PICK field : field = H!Order[kind][j] /\ field \in DOMAIN c
  BY <1>1, <1>2 DEF LeafUnderstood
<1>4. H!Visits(field, b) <=> H!Visits(field, d)
  BY <1>1, <1>2, <1>3 DEF LeafUnderstood
<1>5. field \in H!Visited(kind, d) <=> H!Visits(field, d)
  BY <1>1, <1>2, <1>3, VisitedAre
<1>6. LeafSoFar(kind, d, c, k + 1) =
        IF field \in H!Visited(kind, d) THEN [b EXCEPT ![field] = LeafSaid(kind, d)[field]] ELSE b
  <2>1. \A i, l \in 1 .. n : H!Order[kind][i] = H!Order[kind][l] => i = l
    BY <1>1 DEF Ordered
  <2>2. H!Order[kind][k + 1] \in DOMAIN c /\ H!Order[kind][k + 1] = field
    BY <1>2, <1>3
  <2>3. k \in 0 .. n - 1
    BY <1>1
  <2>4. PICK P, T, V : P = H!Order[kind] /\ T = LeafSaid(kind, d) /\ V = H!Visited(kind, d)
    OBVIOUS
  <2>5. OneMore(P, T, V, c, k)
    <3>1. n \in Nat /\ k \in 0 .. n - 1
      BY <2>3
    <3>2. \A i, l \in 1 .. n : P[i] = P[l] => i = l
      BY <2>1, <2>4
    <3>3. P[k + 1] \in DOMAIN c
      BY <2>2, <2>4
    <3> QED
      BY ONLY <3>1, <3>2, <3>3, MixedNext
  <2> QED
    BY <2>2, <2>4, <2>5 DEF LeafSoFar, OneMore
<1>7. H!LeafSent(d, field) \in Seq(E)
  BY <1>2, <1>3
<1> HIDE DEF b
<1> SUFFICES H!ReadLeafField(State(b, H!LeafSent(d, field) \o r), field, kind)
               = State(LeafSoFar(kind, d, c, k + 1), r)
  BY <1>2, <1>3 DEF b
<1>8. CASE ~H!Visits(field, d)
  <2>1. H!LeafSent(d, field) = <<>>
    BY <1>8 DEF H!LeafSent, H!Sent
  <2>2. <<>> \o r = r
    BY ConcatEmptySeq
  <2>3. LeafSoFar(kind, d, c, k + 1) = b
    BY <1>5, <1>6, <1>8
  <2> QED
    BY <1>4, <1>8, <2>1, <2>2, <2>3 DEF H!ReadLeafField, State
<1>9. CASE H!Visits(field, d)
  <2>1. PICK x : x = <<field, v>>
    OBVIOUS
  <2>2. v = H!Coded(field, d[field])
    BY <1>2, <1>3
  <2>3. H!LeafSent(d, field) = <<x>>
    BY <1>9, <2>1, <2>2 DEF H!LeafSent, H!Sent
  <2>4. x \in E
    BY <1>7, <2>3
  <2>5. PICK t : t = <<x>> \o r /\ t # <<>> /\ Head(t) = x /\ Tail(t) = r
    BY <2>4, HeadOf
  <2>6. x[1] = field /\ x[2] = v
    BY <2>1
  <2>7. H!Fits(H!Named(kind, field), v)
    BY <1>1, <1>2, <1>3, <1>9, <2>2 DEF LeafUnderstood
  <2>8. LeafSaid(kind, d)[field] = v
    BY <1>5, <1>9, <2>2 DEF LeafSaid
  <2>9. LeafSoFar(kind, d, c, k + 1) = [b EXCEPT ![field] = v]
    BY <1>5, <1>6, <1>9, <2>8
  <2> HIDE DEF v
  <2>10. H!ReadLeafField(State(b, t), field, kind) =
           [b |-> [b EXCEPT ![field] = Head(t)[2]], rest |-> Tail(t),
            ok |-> Head(t)[1] = field /\ H!Fits(H!Named(kind, field), Head(t)[2])]
    BY <1>4, <1>9, <2>5 DEF H!ReadLeafField, State
  <2>11. H!ReadLeafField(State(b, t), field, kind) =
           [b |-> [b EXCEPT ![field] = v], rest |-> r, ok |-> TRUE]
    BY <2>5, <2>6, <2>7, <2>10
  <2> QED
    BY <2>3, <2>5, <2>9, <2>11 DEF State
<1> QED
  BY <1>8, <1>9

(* A bundle is written as one piece for each field.                          *)
LEMMA LeafPieces ==
  ASSUME NEW kind, Ordered(H!Order[kind]), NEW d
  PROVE  \E E, ss, g :
           /\ Joins(g, ss, Len(H!Order[kind]), E, H!LeafStream(kind, d))
           /\ \A k \in 1 .. Len(H!Order[kind]) :
                ss[k] = H!LeafSent(d, H!Order[kind][k]) /\ ss[k] \in Seq(E)
<1>1. PICK n \in Nat \ {0} : n = Len(H!Order[kind])
  BY DEF Ordered
<1>2. PICK E : E = {<<H!Order[kind][k], H!Coded(H!Order[kind][k], d[H!Order[kind][k]])>> : k \in 1 .. n}
  OBVIOUS
<1>3. ASSUME NEW k \in 1 .. n PROVE H!LeafSent(d, H!Order[kind][k]) \in Seq(E)
  <2>1. PICK x \in E : x = <<H!Order[kind][k], H!Coded(H!Order[kind][k], d[H!Order[kind][k]])>>
    BY <1>2
  <2>2. <<x>> \in Seq(E) /\ <<>> \in Seq(E)
    BY EmptySeq
  <2>3. H!LeafSent(d, H!Order[kind][k]) = <<x>> \/ H!LeafSent(d, H!Order[kind][k]) = <<>>
    BY <2>1 DEF H!LeafSent, H!Sent
  <2> QED
    BY <2>2, <2>3
<1>4. PICK ss : ss = [k \in 1 .. n |-> H!LeafSent(d, H!Order[kind][k])]
  OBVIOUS
<1>5. \A k \in 1 .. n : ss[k] = H!LeafSent(d, H!Order[kind][k]) /\ ss[k] \in Seq(E)
  BY <1>3, <1>4
<1>6. Len(ss) = n
  <2>1. ss \in [1 .. n -> Seq(E)]
    BY <1>3, <1>4
  <2> QED
    BY <2>1, SeqOfFunction
<1>7. PICK s : s = H!LeafStream(kind, d)
  OBVIOUS
<1>8. s = C!FlattenSeq(ss)
  BY <1>1, <1>4, <1>7, FlattenAlike DEF H!LeafStream
<1>9. \A k \in 1 .. n : ss[k] \in Seq(E)
  BY <1>5
<1>10. PICK g : Joins(g, ss, n, E, s)
  BY ONLY n \in Nat \ {0}, <1>6, <1>8, <1>9, Flattened
<1> QED
  BY <1>1, <1>5, <1>7, <1>10

(* All the fields of a bundle are read back, with nothing left over.         *)
LEMMA LeafBack ==
  ASSUME NEW kind, Ordered(H!Order[kind]), NEW d, NEW c, LeafUnderstood(kind, d, c)
  PROVE  H!ReadFields(kind, c, H!LeafStream(kind, d))
           = State(LeafSoFar(kind, d, c, Len(H!Order[kind])), <<>>)
<1>1. PICK n \in Nat \ {0} : n = Len(H!Order[kind])
  BY DEF Ordered
<1>2. PICK s : s = H!LeafStream(kind, d)
  OBVIOUS
<1>3. PICK E, ss, g :
        /\ Joins(g, ss, n, E, s)
        /\ \A k \in 1 .. n : ss[k] = H!LeafSent(d, H!Order[kind][k]) /\ ss[k] \in Seq(E)
  BY <1>1, <1>2, LeafPieces
<1>4. PICK f : LeafReads(f, kind, c, s, n) /\ H!ReadFields(kind, c, s) = f[n]
  BY <1>1, LeafReadsAre
<1>5. PICK X : X = [k \in 0 .. n |-> LeafSoFar(kind, d, c, k)]
  OBVIOUS
<1>6. f[0] = State(X[0], s)
  <2>1. f[0] = [ok |-> TRUE, b |-> c, rest |-> s]
    BY <1>4 DEF LeafReads
  <2>2. LeafSoFar(kind, d, c, 0) = c
    BY MixedFirst DEF LeafSoFar, LeafUnderstood
  <2>3. 0 \in 0 .. n
    OBVIOUS
  <2> QED
    BY <1>5, <2>1, <2>2, <2>3 DEF State
<1>7. ASSUME NEW k \in 0 .. n - 1, NEW r \in Seq(E), f[k] = State(X[k], ss[k + 1] \o r)
      PROVE  f[k + 1] = State(X[k + 1], r)
  <2>1. PICK j \in 1 .. n : j = k + 1 /\ j - 1 = k /\ j \in 0 .. n /\ k \in 0 .. n /\ j # 0
    BY <1>7
  <2>2. f[j] = H!ReadLeafField(f[k], H!Order[kind][j], kind)
    BY <1>4, <2>1 DEF LeafReads
  <2>3. X[k] = LeafSoFar(kind, d, c, k) /\ X[j] = LeafSoFar(kind, d, c, j)
    BY <1>5, <2>1
  <2>4. ss[j] = H!LeafSent(d, H!Order[kind][j]) /\ ss[j] \in Seq(E)
    BY <1>3, <2>1
  <2>5. H!ReadLeafField(State(LeafSoFar(kind, d, c, k), H!LeafSent(d, H!Order[kind][k + 1]) \o r),
                        H!Order[kind][k + 1], kind) = State(LeafSoFar(kind, d, c, k + 1), r)
    BY SMTT(40), <1>1, <2>1, <2>4, LeafFieldBack
  <2> QED
    BY <1>7, <2>1, <2>2, <2>3, <2>4, <2>5
<1>8. \A k \in 0 .. n - 1 : \A r \in Seq(E) :
        f[k] = State(X[k], ss[k + 1] \o r) => f[k + 1] = State(X[k + 1], r)
  BY <1>7
<1>9. f[n] = State(X[n], <<>>)
  BY ONLY n \in Nat \ {0}, <1>3, <1>6, <1>8, ReadAlong
<1>10. n \in 0 .. n
  OBVIOUS
<1> QED
  BY <1>1, <1>2, <1>4, <1>5, <1>9, <1>10

(* If the first is visited, something is written.                            *)
LEMMA LeafNotEmpty ==
  ASSUME NEW kind, Ordered(H!Order[kind]), NEW d, H!Visits(H!Order[kind][1], d)
  PROVE  H!LeafStream(kind, d) # <<>>
<1>1. PICK n \in Nat \ {0} : n = Len(H!Order[kind])
  BY DEF Ordered
<1>2. PICK s : s = H!LeafStream(kind, d)
  OBVIOUS
<1>3. PICK E, ss, g :
        /\ Joins(g, ss, n, E, s)
        /\ \A k \in 1 .. n : ss[k] = H!LeafSent(d, H!Order[kind][k]) /\ ss[k] \in Seq(E)
  BY <1>1, <1>2, LeafPieces
<1>4. 1 \in 1 .. n /\ 1 \in 0 .. n /\ 1 - 1 = 0
  OBVIOUS
<1>5. PICK x : ss[1] = <<x>>
  BY <1>3, <1>4 DEF H!LeafSent, H!Sent
<1>6. x \in E
  <2>1. <<x>> \in Seq(E)
    BY <1>3, <1>4, <1>5
  <2> QED
    BY <2>1
<1>7. g[1] = <<x>>
  <2>1. g[1] = g[0] \o ss[1] /\ g[0] = <<>>
    BY <1>3, <1>4 DEF Joins
  <2>2. <<x>> \in Seq(E)
    BY <1>6
  <2> QED
    BY <1>5, <2>1, <2>2, ConcatEmptySeq
<1>8. PICK r \in Seq(E) : g[1] \o r = s
  BY <1>3, <1>4 DEF Joins
<1> QED
  BY <1>2, <1>6, <1>7, <1>8, HeadOf

(* The fields of a bundle of kind "size" by their places.                   *)
LEMMA SizeOrder ==
  /\ Ordered(H!Order["size"]) /\ Len(H!Order["size"]) = 6
  /\ H!Order["size"][1] = "small"
  /\ H!Order["size"][2] = "ysize_div8_minus_1"
  /\ H!Order["size"][3] = "ysize"
  /\ H!Order["size"][4] = "ratio"
  /\ H!Order["size"][5] = "xsize_div8_minus_1"
  /\ H!Order["size"][6] = "xsize"
<1>1. PICK P : P = H!Order["size"]
  OBVIOUS
<1>2. Len(P) = 6 /\ DOMAIN P = 1 .. 6
  BY <1>1 DEF H!Order
<1>3. P[1] = "small" /\ P[2] = "ysize_div8_minus_1" /\ P[3] = "ysize"
      /\ P[4] = "ratio" /\ P[5] = "xsize_div8_minus_1" /\ P[6] = "xsize"
  BY <1>1 DEF H!Order
<1>4. \A i, j \in 1 .. 6 : P[i] = P[j] => i = j
  <2>1. \A i \in 1 .. 6 : i = 1 \/ i = 2 \/ i = 3 \/ i = 4 \/ i = 5 \/ i = 6
    OBVIOUS
  <2> QED
    BY <1>3, <2>1
<1> QED
  BY <1>1, <1>2, <1>3, <1>4 DEF Ordered

(* The fields of a bundle of kind "preview" by their places.                *)
LEMMA PreviewOrder ==
  /\ Ordered(H!Order["preview"]) /\ Len(H!Order["preview"]) = 6
  /\ H!Order["preview"][1] = "div8"
  /\ H!Order["preview"][2] = "ysize_div8"
  /\ H!Order["preview"][3] = "ysize"
  /\ H!Order["preview"][4] = "ratio"
  /\ H!Order["preview"][5] = "xsize_div8"
  /\ H!Order["preview"][6] = "xsize"
<1>1. PICK P : P = H!Order["preview"]
  OBVIOUS
<1>2. Len(P) = 6 /\ DOMAIN P = 1 .. 6
  BY <1>1 DEF H!Order
<1>3. P[1] = "div8" /\ P[2] = "ysize_div8" /\ P[3] = "ysize"
      /\ P[4] = "ratio" /\ P[5] = "xsize_div8" /\ P[6] = "xsize"
  BY <1>1 DEF H!Order
<1>4. \A i, j \in 1 .. 6 : P[i] = P[j] => i = j
  <2>1. \A i \in 1 .. 6 : i = 1 \/ i = 2 \/ i = 3 \/ i = 4 \/ i = 5 \/ i = 6
    OBVIOUS
  <2> QED
    BY <1>3, <2>1
<1> QED
  BY <1>1, <1>2, <1>3, <1>4 DEF Ordered

(* The fields of a bundle of kind "animation" by their places.              *)
LEMMA AnimationOrder ==
  /\ Ordered(H!Order["animation"]) /\ Len(H!Order["animation"]) = 4
  /\ H!Order["animation"][1] = "tps_numerator"
  /\ H!Order["animation"][2] = "tps_denominator"
  /\ H!Order["animation"][3] = "num_loops"
  /\ H!Order["animation"][4] = "have_timecodes"
<1>1. PICK P : P = H!Order["animation"]
  OBVIOUS
<1>2. Len(P) = 4 /\ DOMAIN P = 1 .. 4
  BY <1>1 DEF H!Order
<1>3. P[1] = "tps_numerator" /\ P[2] = "tps_denominator" /\ P[3] = "num_loops"
      /\ P[4] = "have_timecodes"
  BY <1>1 DEF H!Order
<1>4. \A i, j \in 1 .. 4 : P[i] = P[j] => i = j
  <2>1. \A i \in 1 .. 4 : i = 1 \/ i = 2 \/ i = 3 \/ i = 4
    OBVIOUS
  <2> QED
    BY <1>3, <2>1
<1> QED
  BY <1>1, <1>2, <1>3, <1>4 DEF Ordered

(* The fields of a bundle of kind "depth" by their places.                  *)
LEMMA DepthOrder ==
  /\ Ordered(H!Order["depth"]) /\ Len(H!Order["depth"]) = 3
  /\ H!Order["depth"][1] = "floating"
  /\ H!Order["depth"][2] = "bits"
  /\ H!Order["depth"][3] = "exponent"
<1>1. PICK P : P = H!Order["depth"]
  OBVIOUS
<1>2. Len(P) = 3 /\ DOMAIN P = 1 .. 3
  BY <1>1 DEF H!Order
<1>3. P[1] = "floating" /\ P[2] = "bits" /\ P[3] = "exponent"
  BY <1>1 DEF H!Order
<1>4. \A i, j \in 1 .. 3 : P[i] = P[j] => i = j
  <2>1. \A i \in 1 .. 3 : i = 1 \/ i = 2 \/ i = 3
    OBVIOUS
  <2> QED
    BY <1>3, <2>1
<1> QED
  BY <1>1, <1>2, <1>3, <1>4 DEF Ordered

(* The fields of a bundle of kind "tone" by their places.                   *)
LEMMA ToneOrder ==
  /\ Ordered(H!Order["tone"]) /\ Len(H!Order["tone"]) = 4
  /\ H!Order["tone"][1] = "intensity_target"
  /\ H!Order["tone"][2] = "min_nits"
  /\ H!Order["tone"][3] = "relative_to_max_display"
  /\ H!Order["tone"][4] = "linear_below"
<1>1. PICK P : P = H!Order["tone"]
  OBVIOUS
<1>2. Len(P) = 4 /\ DOMAIN P = 1 .. 4
  BY <1>1 DEF H!Order
<1>3. P[1] = "intensity_target" /\ P[2] = "min_nits" /\ P[3] = "relative_to_max_display"
      /\ P[4] = "linear_below"
  BY <1>1 DEF H!Order
<1>4. \A i, j \in 1 .. 4 : P[i] = P[j] => i = j
  <2>1. \A i \in 1 .. 4 : i = 1 \/ i = 2 \/ i = 3 \/ i = 4
    OBVIOUS
  <2> QED
    BY <1>3, <2>1
<1> QED
  BY <1>1, <1>2, <1>3, <1>4 DEF Ordered

(* The fields of a bundle of kind "channel" by their places.                *)
LEMMA ChannelOrder ==
  /\ Ordered(H!Order["channel"]) /\ Len(H!Order["channel"]) = 7
  /\ H!Order["channel"][1] = "type"
  /\ H!Order["channel"][2] = "bit_depth"
  /\ H!Order["channel"][3] = "dim_shift"
  /\ H!Order["channel"][4] = "name"
  /\ H!Order["channel"][5] = "alpha_associated"
  /\ H!Order["channel"][6] = "spot_color"
  /\ H!Order["channel"][7] = "cfa_channel"
<1>1. PICK P : P = H!Order["channel"]
  OBVIOUS
<1>2. Len(P) = 7 /\ DOMAIN P = 1 .. 7
  BY <1>1 DEF H!Order
<1>3. P[1] = "type" /\ P[2] = "bit_depth" /\ P[3] = "dim_shift"
      /\ P[4] = "name" /\ P[5] = "alpha_associated" /\ P[6] = "spot_color" /\ P[7] = "cfa_channel"
  BY <1>1 DEF H!Order
<1>4. \A i, j \in 1 .. 7 : P[i] = P[j] => i = j
  <2>1. \A i \in 1 .. 7 : i = 1 \/ i = 2 \/ i = 3 \/ i = 4 \/ i = 5 \/ i = 6 \/ i = 7
    OBVIOUS
  <2> QED
    BY <1>3, <2>1
<1> QED
  BY <1>1, <1>2, <1>3, <1>4 DEF Ordered

(* What a field of a bundle is when k have been read.                        *)
FieldSoFar(kind, d, c, j, k) ==
  LeafSoFar(kind, d, c, k)[H!Order[kind][j]] =
    IF j <= k /\ H!Visits(H!Order[kind][j], d)
    THEN H!Coded(H!Order[kind][j], d[H!Order[kind][j]]) ELSE c[H!Order[kind][j]]

(* It is what was sent, if that has been read, or what was there.            *)
LEMMA SoFarAt ==
  ASSUME NEW kind, Ordered(H!Order[kind]), NEW d, NEW c,
         NEW j \in 1 .. Len(H!Order[kind]), NEW k \in 0 .. Len(H!Order[kind]),
         H!Order[kind][j] \in DOMAIN c
  PROVE  FieldSoFar(kind, d, c, j, k)
<1>1. PICK P, T, V : P = H!Order[kind] /\ T = LeafSaid(kind, d) /\ V = H!Visited(kind, d)
  OBVIOUS
<1>2. LeafSoFar(kind, d, c, k) = Mixed(P, T, V, c, k)
  BY <1>1 DEF LeafSoFar
<1>3. P[j] \in V <=> H!Visits(P[j], d)
  BY <1>1, VisitedAre
<1>4. (\E i \in 1 .. k : P[j] = P[i]) <=> j <= k
  <2>1. PICK n \in Nat : n = Len(P) /\ j \in 1 .. n /\ k \in 0 .. n
    BY <1>1 DEF Ordered
  <2>2. \A i \in 1 .. n : P[j] = P[i] => j = i
    BY <1>1, <2>1 DEF Ordered
  <2> QED
    BY <2>1, <2>2
<1>5. Mixed(P, T, V, c, k)[P[j]] =
        IF P[j] \in V /\ (\E i \in 1 .. k : P[j] = P[i]) THEN T[P[j]] ELSE c[P[j]]
  BY <1>1 DEF Mixed
<1>6. P[j] \in V => T[P[j]] = H!Coded(P[j], d[P[j]])
  BY <1>1 DEF LeafSaid
<1> QED
  BY <1>1, <1>2, <1>3, <1>4, <1>5, <1>6 DEF FieldSoFar

(* It has the fields it had.                                                 *)
LEMMA SoFarDomain ==
  ASSUME NEW kind, NEW d, NEW c, NEW k
  PROVE  /\ DOMAIN LeafSoFar(kind, d, c, k) = DOMAIN c
         /\ LeafSoFar(kind, d, c, k) =
              [f \in DOMAIN c |-> LeafSoFar(kind, d, c, k)[f]]
BY DEF LeafSoFar, Mixed

(* What reading returns.                                                     *)
LeafAll(kind, d, c) == LeafSoFar(kind, d, c, Len(H!Order[kind]))

(* It is valid or not, and normal.                                           *)
LEMMA LeafReadBack ==
  ASSUME NEW kind, Ordered(H!Order[kind]), NEW d, NEW c, LeafUnderstood(kind, d, c)
  PROVE  /\ H!ReadLeaf(kind, c, H!LeafStream(kind, d)).ok <=> H!Valid(kind, LeafAll(kind, d, c))
         /\ H!ReadLeaf(kind, c, H!LeafStream(kind, d)).b = H!Normal(kind, LeafAll(kind, d, c))
<1>1. H!ReadFields(kind, c, H!LeafStream(kind, d)) = State(LeafAll(kind, d, c), <<>>)
  BY LeafBack DEF LeafAll
<1>2. PICK q : q = State(LeafAll(kind, d, c), <<>>)
  OBVIOUS
<1>3. q.ok = TRUE /\ q.b = LeafAll(kind, d, c) /\ q.rest = <<>>
  BY <1>2 DEF State
<1>4. H!ReadLeaf(kind, c, H!LeafStream(kind, d)) = H!Checked(kind, q)
  BY <1>1, <1>2 DEF H!ReadLeaf
<1>5. H!Checked(kind, q) =
        [ok |-> q.ok /\ q.rest = <<>> /\ H!Valid(kind, q.b), b |-> H!Normal(kind, q.b)]
  BY DEF H!Checked
<1>6. H!Checked(kind, q).b = H!Normal(kind, q.b)
  BY <1>5
<1>7. H!Checked(kind, q).ok <=> q.ok /\ q.rest = <<>> /\ H!Valid(kind, q.b)
  BY Zenon DEF H!Checked
<1> QED
  BY <1>3, <1>4, <1>6, <1>7

(* A bundle b that is what it is when k fields have been read.               *)
SoFar(kind, d, c, b, k) ==
  /\ DOMAIN b = DOMAIN c
  /\ \A j \in 1 .. Len(H!Order[kind]) :
       b[H!Order[kind][j]] =
         IF j <= k /\ H!Visits(H!Order[kind][j], d)
         THEN H!Coded(H!Order[kind][j], d[H!Order[kind][j]]) ELSE c[H!Order[kind][j]]

(* Such as the reader's.                                                     *)
LEMMA SoFarIs ==
  ASSUME NEW kind, Ordered(H!Order[kind]), NEW d, NEW c, NEW k \in 0 .. Len(H!Order[kind]),
         \A j \in 1 .. Len(H!Order[kind]) : H!Order[kind][j] \in DOMAIN c
  PROVE  SoFar(kind, d, c, LeafSoFar(kind, d, c, k), k)
<1>1. ASSUME NEW j \in 1 .. Len(H!Order[kind]) PROVE FieldSoFar(kind, d, c, j, k)
  BY SoFarAt
<1> QED
  BY <1>1, SoFarDomain DEF SoFar, FieldSoFar

(* What is sent fits, ...                                                    *)
FieldsFit(kind, d, c) ==
  /\ c = [f \in DOMAIN c |-> c[f]]
  /\ \A k \in 1 .. Len(H!Order[kind]) :
       /\ H!Order[kind][k] \in DOMAIN c
       /\ H!Visits(H!Order[kind][k], d) =>
            H!Fits(H!Named(kind, H!Order[kind][k]),
                   H!Coded(H!Order[kind][k], d[H!Order[kind][k]]))

(* ... and the reader asks for the next field that was sent.                 *)
AsksAlike(kind, d, c) ==
  \A k \in 0 .. Len(H!Order[kind]) - 1 : \A b :
    SoFar(kind, d, c, b, k) =>
      (H!Visits(H!Order[kind][k + 1], b) <=> H!Visits(H!Order[kind][k + 1], d))

(* Then all is read.                                                         *)
AllRead(kind, d, c) ==
  /\ LeafUnderstood(kind, d, c)
  /\ SoFar(kind, d, c, LeafAll(kind, d, c), Len(H!Order[kind]))
  /\ LeafAll(kind, d, c) = [f \in DOMAIN c |-> LeafAll(kind, d, c)[f]]

(* This is what there is to show of each kind.                               *)
LEMMA UnderstoodIf ==
  ASSUME NEW kind, NEW d, NEW c, Ordered(H!Order[kind]), FieldsFit(kind, d, c),
         AsksAlike(kind, d, c)
  PROVE  AllRead(kind, d, c)
<1>1. ASSUME NEW k \in 0 .. Len(H!Order[kind]) - 1
      PROVE  H!Visits(H!Order[kind][k + 1], LeafSoFar(kind, d, c, k))
               <=> H!Visits(H!Order[kind][k + 1], d)
  <2>1. k \in 0 .. Len(H!Order[kind])
    BY DEF Ordered
  <2>2. SoFar(kind, d, c, LeafSoFar(kind, d, c, k), k)
    BY <2>1, SoFarIs DEF FieldsFit
  <2> QED
    BY <2>2 DEF AsksAlike
<1>2. LeafUnderstood(kind, d, c)
  BY <1>1 DEF LeafUnderstood, FieldsFit
<1>3. Len(H!Order[kind]) \in 0 .. Len(H!Order[kind])
  BY DEF Ordered
<1>4. SoFar(kind, d, c, LeafAll(kind, d, c), Len(H!Order[kind]))
  BY <1>3, SoFarIs DEF LeafAll, FieldsFit
<1> QED
  BY <1>2, <1>4, SoFarDomain DEF LeafAll, AllRead

(* A size.                                                                   *)
SizeRecords == [small : BOOLEAN, ysize_div8_minus_1 : Int, ysize : Int, ratio : Int,
                xsize_div8_minus_1 : Int, xsize : Int]

(* One that can be written is read back, except for fields that are not used. *)
LEMMA SizeBack ==
  ASSUME NEW d \in SizeRecords, H!LeafOk("size", d)
  PROVE  LET r == H!ReadLeaf("size", H!NewSize, H!LeafStream("size", d))
         IN  r.ok /\ H!SizeX(r.b) = H!SizeX(d) /\ H!SizeY(r.b) = H!SizeY(d)
<1>1. PICK P, c : P = H!Order["size"] /\ c = H!NewSize
  OBVIOUS
<1>2. DOMAIN c = {"small", "ysize_div8_minus_1", "ysize", "ratio", "xsize_div8_minus_1", "xsize"}
  BY <1>1 DEF H!NewSize
<1>3. c = [f \in DOMAIN c |-> c[f]]
  BY <1>1 DEF H!NewSize
<1>4. ASSUME NEW k \in 1 .. 6
      PROVE  /\ P[k] \in DOMAIN c
             /\ H!Visits(P[k], d) => H!Fits(H!Named("size", P[k]), H!Coded(P[k], d[P[k]]))
  <2>1. P[k] \in DOMAIN c
    BY <1>1, <1>2, SizeOrder
  <2>2. H!Named("size", P[k]) = P[k] /\ H!Coded(P[k], d[P[k]]) = d[P[k]]
    BY <1>2, <2>1 DEF H!Named, H!Coded
  <2>3. P[k] \in H!Visited("size", d) <=> H!Visits(P[k], d)
    BY <1>1, SizeOrder, VisitedAre
  <2> QED
    BY <2>1, <2>2, <2>3 DEF H!LeafOk
<1>5. H!Visits("small", d) /\ H!Visits("ratio", d)
  BY DEF H!Visits
<1>6. /\ H!Coded("small", d.small) = d.small /\ H!Coded("ratio", d.ratio) = d.ratio
      /\ \A n : H!Coded("ysize", n) = n /\ H!Coded("xsize", n) = n
               /\ H!Coded("ysize_div8_minus_1", n) = n /\ H!Coded("xsize_div8_minus_1", n) = n
  BY DEF H!Coded
<1>7. \A k \in 0 .. 6 : \A b : SoFar("size", d, c, b, k) =>
        /\ k >= 1 => b.small = d.small
        /\ k >= 4 => b.ratio = d.ratio
        /\ "small" \in DOMAIN b
  BY <1>1, <1>2, <1>5, <1>6, SizeOrder DEF SoFar
<1>8. ASSUME NEW k \in 0 .. 5, NEW b, SoFar("size", d, c, b, k)
      PROVE  H!Visits(P[k + 1], b) <=> H!Visits(P[k + 1], d)
  <2>1. /\ k >= 1 => b.small = d.small
        /\ k >= 4 => b.ratio = d.ratio
        /\ "small" \in DOMAIN b /\ "small" \in DOMAIN d
    BY <1>7, <1>8 DEF SizeRecords
  <2>2. k = 0 \/ k = 1 \/ k = 2 \/ k = 3 \/ k = 4 \/ k = 5
    OBVIOUS
  <2>3. P[k + 1] = CASE k = 0 -> "small" [] k = 1 -> "ysize_div8_minus_1" [] k = 2 -> "ysize"
                     [] k = 3 -> "ratio" [] k = 4 -> "xsize_div8_minus_1" [] k = 5 -> "xsize"
    BY <1>1, <2>2, SizeOrder
  <2> QED
    BY <2>1, <2>2, <2>3 DEF H!Visits
<1>9. PICK b : b = LeafAll("size", d, c)
  OBVIOUS
<1>10. LeafUnderstood("size", d, c) /\ SoFar("size", d, c, b, 6)
  <2>1. FieldsFit("size", d, c)
    BY <1>1, <1>3, <1>4, SizeOrder DEF FieldsFit
  <2>2. AsksAlike("size", d, c)
    BY <1>1, <1>8, SizeOrder DEF AsksAlike
  <2>3. AllRead("size", d, c)
    BY <2>1, <2>2, SizeOrder, UnderstoodIf
  <2> QED
    BY <1>9, <2>3, SizeOrder DEF AllRead
<1>11. b.small = d.small /\ b.ratio = d.ratio
  BY <1>7, <1>10
<1>12. /\ H!Visits("ysize", d) => b.ysize = d.ysize
       /\ H!Visits("xsize", d) => b.xsize = d.xsize
       /\ H!Visits("ysize_div8_minus_1", d) => b.ysize_div8_minus_1 = d.ysize_div8_minus_1
       /\ H!Visits("xsize_div8_minus_1", d) => b.xsize_div8_minus_1 = d.xsize_div8_minus_1
  BY <1>6, <1>10, SizeOrder DEF SoFar
<1>13. "small" \in DOMAIN d
  BY DEF SizeRecords
<1>14. H!SizeX(b) = H!SizeX(d) /\ H!SizeY(b) = H!SizeY(d)
  <2>1. H!SizeY(b) = H!SizeY(d)
    BY <1>11, <1>12, <1>13 DEF H!Visits, H!SizeY
  <2> QED
    BY <1>11, <1>12, <1>13, <2>1 DEF H!Visits, H!SizeX
<1>15. H!Valid("size", b) /\ H!Normal("size", b) = b
  BY DEF H!Valid, H!Normal
<1>16. PICK r : r = H!ReadLeaf("size", c, H!LeafStream("size", d))
  OBVIOUS
<1>17. r.ok /\ r.b = b
  <2>1. Ordered(H!Order["size"])
    BY SizeOrder
  <2> QED
    BY <1>9, <1>10, <1>15, <1>16, <2>1, LeafReadBack
<1> QED
  BY <1>1, <1>14, <1>16, <1>17

(* The size of a preview.                                                    *)
PreviewRecords == [div8 : BOOLEAN, ysize_div8 : Int, ysize : Int, ratio : Int,
                   xsize_div8 : Int, xsize : Int]

(* One that can be written is read back, except for fields that are not used. *)
LEMMA PreviewBack ==
  ASSUME NEW d \in PreviewRecords, H!LeafOk("preview", d)
  PROVE  LET r == H!ReadLeaf("preview", H!NewPreview, H!LeafStream("preview", d))
         IN  r.ok /\ H!PreviewX(r.b) = H!PreviewX(d) /\ H!PreviewY(r.b) = H!PreviewY(d)
<1>1. PICK P, c : P = H!Order["preview"] /\ c = H!NewPreview
  OBVIOUS
<1>2. DOMAIN c = {"div8", "ysize_div8", "ysize", "ratio", "xsize_div8", "xsize"}
  BY <1>1 DEF H!NewPreview
<1>3. c = [f \in DOMAIN c |-> c[f]]
  BY <1>1 DEF H!NewPreview
<1>4. ASSUME NEW k \in 1 .. 6
      PROVE  /\ P[k] \in DOMAIN c
             /\ H!Visits(P[k], d) => H!Fits(H!Named("preview", P[k]), H!Coded(P[k], d[P[k]]))
  <2>1. P[k] \in DOMAIN c
    BY <1>1, <1>2, PreviewOrder
  <2>2. H!Coded(P[k], d[P[k]]) = d[P[k]]
    BY <1>2, <2>1 DEF H!Coded
  <2>3. P[k] \in H!Visited("preview", d) <=> H!Visits(P[k], d)
    BY <1>1, PreviewOrder, VisitedAre
  <2> QED
    BY <2>1, <2>2, <2>3 DEF H!LeafOk
<1>5. H!Visits("div8", d) /\ H!Visits("ratio", d)
  BY DEF H!Visits
<1>6. /\ H!Coded("div8", d.div8) = d.div8 /\ H!Coded("ratio", d.ratio) = d.ratio
      /\ \A n : H!Coded("ysize", n) = n /\ H!Coded("xsize", n) = n
               /\ H!Coded("ysize_div8", n) = n /\ H!Coded("xsize_div8", n) = n
  BY DEF H!Coded
<1>7. \A k \in 0 .. 6 : \A b : SoFar("preview", d, c, b, k) =>
        /\ k >= 1 => b.div8 = d.div8
        /\ k >= 4 => b.ratio = d.ratio
        /\ "small" \notin DOMAIN b
  BY <1>1, <1>2, <1>5, <1>6, PreviewOrder DEF SoFar
<1>8. ASSUME NEW k \in 0 .. 5, NEW b, SoFar("preview", d, c, b, k)
      PROVE  H!Visits(P[k + 1], b) <=> H!Visits(P[k + 1], d)
  <2>1. /\ k >= 1 => b.div8 = d.div8
        /\ k >= 4 => b.ratio = d.ratio
        /\ "small" \notin DOMAIN b /\ "small" \notin DOMAIN d
    BY <1>7, <1>8 DEF PreviewRecords
  <2>2. k = 0 \/ k = 1 \/ k = 2 \/ k = 3 \/ k = 4 \/ k = 5
    OBVIOUS
  <2>3. P[k + 1] = CASE k = 0 -> "div8" [] k = 1 -> "ysize_div8" [] k = 2 -> "ysize"
                     [] k = 3 -> "ratio" [] k = 4 -> "xsize_div8" [] k = 5 -> "xsize"
    BY <1>1, <2>2, PreviewOrder
  <2> QED
    BY <2>1, <2>2, <2>3 DEF H!Visits
<1>9. PICK b : b = LeafAll("preview", d, c)
  OBVIOUS
<1>10. LeafUnderstood("preview", d, c) /\ SoFar("preview", d, c, b, 6)
  <2>1. FieldsFit("preview", d, c)
    BY <1>1, <1>3, <1>4, PreviewOrder DEF FieldsFit
  <2>2. AsksAlike("preview", d, c)
    BY <1>1, <1>8, PreviewOrder DEF AsksAlike
  <2>3. AllRead("preview", d, c)
    BY <2>1, <2>2, PreviewOrder, UnderstoodIf
  <2> QED
    BY <1>9, <2>3, PreviewOrder DEF AllRead
<1>11. b.div8 = d.div8 /\ b.ratio = d.ratio
  BY <1>7, <1>10
<1>12. /\ H!Visits("ysize", d) => b.ysize = d.ysize
       /\ H!Visits("xsize", d) => b.xsize = d.xsize
       /\ H!Visits("ysize_div8", d) => b.ysize_div8 = d.ysize_div8
       /\ H!Visits("xsize_div8", d) => b.xsize_div8 = d.xsize_div8
  BY <1>6, <1>10, PreviewOrder DEF SoFar
<1>13. "small" \notin DOMAIN d
  BY DEF PreviewRecords
<1>14. H!PreviewX(b) = H!PreviewX(d) /\ H!PreviewY(b) = H!PreviewY(d)
  <2>1. H!PreviewY(b) = H!PreviewY(d)
    BY <1>11, <1>12, <1>13 DEF H!Visits, H!PreviewY
  <2> QED
    BY <1>11, <1>12, <1>13, <2>1 DEF H!Visits, H!PreviewX
<1>15. H!Valid("preview", b) /\ H!Normal("preview", b) = b
  BY DEF H!Valid, H!Normal
<1>16. PICK r : r = H!ReadLeaf("preview", c, H!LeafStream("preview", d))
  OBVIOUS
<1>17. r.ok /\ r.b = b
  <2>1. Ordered(H!Order["preview"])
    BY PreviewOrder
  <2> QED
    BY <1>9, <1>10, <1>15, <1>16, <2>1, LeafReadBack
<1> QED
  BY <1>1, <1>14, <1>16, <1>17

(* An animation is read back as it was.                                      *)
AnimationRecords == [tps_numerator : Int, tps_denominator : Int, num_loops : Int,
                     have_timecodes : BOOLEAN]

(* All its fields are always sent.                                           *)
LEMMA AnimationBack ==
  ASSUME NEW d \in AnimationRecords, H!LeafOk("animation", d)
  PROVE  LET r == H!ReadLeaf("animation", H!NewAnimation, H!LeafStream("animation", d))
         IN  r.ok /\ r.b = d
<1>1. PICK P, c : P = H!Order["animation"] /\ c = H!NewAnimation
  OBVIOUS
<1>2. DOMAIN c = {"tps_numerator", "tps_denominator", "num_loops", "have_timecodes"}
  BY <1>1 DEF H!NewAnimation
<1>3. c = [f \in DOMAIN c |-> c[f]]
  BY <1>1 DEF H!NewAnimation
<1>4. ASSUME NEW k \in 1 .. 4
      PROVE  /\ P[k] \in DOMAIN c
             /\ H!Visits(P[k], d) => H!Fits(H!Named("animation", P[k]), H!Coded(P[k], d[P[k]]))
  <2>1. P[k] \in DOMAIN c
    BY <1>1, <1>2, AnimationOrder
  <2>2. H!Coded(P[k], d[P[k]]) = d[P[k]]
    BY <1>2, <2>1 DEF H!Coded
  <2>3. P[k] \in H!Visited("animation", d) <=> H!Visits(P[k], d)
    BY <1>1, AnimationOrder, VisitedAre
  <2> QED
    BY <2>1, <2>2, <2>3 DEF H!LeafOk
<1>5. \A f \in DOMAIN c : \A b : H!Visits(f, b)
  BY <1>2 DEF H!Visits
<1>6. \A f \in DOMAIN c : H!Coded(f, d[f]) = d[f]
  BY <1>2 DEF H!Coded
<1>7. PICK b : b = LeafAll("animation", d, c)
  OBVIOUS
<1>8. /\ LeafUnderstood("animation", d, c) /\ SoFar("animation", d, c, b, 4)
      /\ b = [f \in DOMAIN c |-> b[f]]
  <2>1. FieldsFit("animation", d, c)
    BY <1>1, <1>3, <1>4, AnimationOrder DEF FieldsFit
  <2>2. AsksAlike("animation", d, c)
    <3>1. \A k \in 0 .. 3 : P[k + 1] \in DOMAIN c
      BY <1>4
    <3> QED
      BY <1>1, <1>5, <3>1, AnimationOrder DEF AsksAlike
  <2>3. AllRead("animation", d, c)
    BY <2>1, <2>2, AnimationOrder, UnderstoodIf
  <2> QED
    BY <1>7, <2>3, AnimationOrder DEF AllRead
<1>9. \A j \in 1 .. 4 : b[P[j]] = d[P[j]]
  BY <1>1, <1>4, <1>5, <1>6, <1>8, AnimationOrder DEF SoFar
<1>10. b = d
  <2>1. \A f \in DOMAIN c : b[f] = d[f]
    BY <1>1, <1>2, <1>9, AnimationOrder
  <2>2. d = [f \in DOMAIN c |-> d[f]]
    BY <1>2 DEF AnimationRecords
  <2> QED
    BY <1>8, <2>1, <2>2
<1>11. H!Valid("animation", b) /\ H!Normal("animation", b) = b
  BY DEF H!Valid, H!Normal
<1>12. PICK r : r = H!ReadLeaf("animation", c, H!LeafStream("animation", d))
  OBVIOUS
<1>13. r.ok /\ r.b = b
  <2>1. Ordered(H!Order["animation"])
    BY AnimationOrder
  <2> QED
    BY <1>7, <1>8, <1>11, <1>12, <2>1, LeafReadBack
<1> QED
  BY <1>1, <1>10, <1>12, <1>13

(* A depth of samples is read back as it is normal.                          *)
DepthRecords == [floating : BOOLEAN, bits : Int, exponent : Int]

(* Without an exponent for integers.                                         *)
LEMMA DepthBack ==
  ASSUME NEW d \in DepthRecords, H!LeafOk("depth", d)
  PROVE  LET r == H!ReadLeaf("depth", H!NewDepth, H!LeafStream("depth", d))
         IN  r.ok /\ r.b = H!Normal("depth", d)
<1>1. PICK P, c : P = H!Order["depth"] /\ c = H!NewDepth
  OBVIOUS
<1>2. DOMAIN c = {"floating", "bits", "exponent"} /\ c.exponent = 0
  BY <1>1 DEF H!NewDepth
<1>3. c = [f \in DOMAIN c |-> c[f]]
  BY <1>1 DEF H!NewDepth
<1>4. ASSUME NEW k \in 1 .. 3
      PROVE  /\ P[k] \in DOMAIN c
             /\ H!Visits(P[k], d) => H!Fits(H!Named("depth", P[k]), H!Coded(P[k], d[P[k]]))
  <2>1. P[k] \in DOMAIN c
    BY <1>1, <1>2, DepthOrder
  <2>2. H!Coded(P[k], d[P[k]]) = d[P[k]]
    BY <1>2, <2>1 DEF H!Coded
  <2>3. P[k] \in H!Visited("depth", d) <=> H!Visits(P[k], d)
    BY <1>1, DepthOrder, VisitedAre
  <2> QED
    BY <2>1, <2>2, <2>3 DEF H!LeafOk
<1>5. \A b : /\ H!Visits("floating", b) /\ H!Visits("bits", b)
             /\ H!Visits("exponent", b) <=> b.floating
  BY DEF H!Visits
<1>6. \A f \in DOMAIN c : H!Coded(f, d[f]) = d[f]
  BY <1>2 DEF H!Coded
<1>7. \A k \in 0 .. 3 : \A b : SoFar("depth", d, c, b, k) => (k >= 1 => b.floating = d.floating)
  BY <1>1, <1>2, <1>5, <1>6, DepthOrder DEF SoFar
<1>8. ASSUME NEW k \in 0 .. 2, NEW b, SoFar("depth", d, c, b, k)
      PROVE  H!Visits(P[k + 1], b) <=> H!Visits(P[k + 1], d)
  <2>1. k >= 1 => b.floating = d.floating
    BY <1>7, <1>8
  <2>2. k = 0 \/ k = 1 \/ k = 2
    OBVIOUS
  <2>3. P[k + 1] = CASE k = 0 -> "floating" [] k = 1 -> "bits" [] k = 2 -> "exponent"
    BY <1>1, <2>2, DepthOrder
  <2> QED
    BY <1>5, <2>1, <2>2, <2>3
<1>9. PICK b : b = LeafAll("depth", d, c)
  OBVIOUS
<1>10. /\ LeafUnderstood("depth", d, c) /\ SoFar("depth", d, c, b, 3)
       /\ b = [f \in DOMAIN c |-> b[f]]
  <2>1. FieldsFit("depth", d, c)
    BY <1>1, <1>3, <1>4, DepthOrder DEF FieldsFit
  <2>2. AsksAlike("depth", d, c)
    BY <1>1, <1>8, DepthOrder DEF AsksAlike
  <2>3. AllRead("depth", d, c)
    BY <2>1, <2>2, DepthOrder, UnderstoodIf
  <2> QED
    BY <1>9, <2>3, DepthOrder DEF AllRead
<1>11. /\ b.floating = d.floating /\ b.bits = d.bits
       /\ b.exponent = IF d.floating THEN d.exponent ELSE 0
  BY <1>1, <1>2, <1>5, <1>6, <1>10, DepthOrder DEF SoFar
<1>12. d = [f \in DOMAIN c |-> d[f]] /\ d.floating \in BOOLEAN
  BY <1>2 DEF DepthRecords
<1>13. H!Normal("depth", b) = H!Normal("depth", d)
  <2>1. CASE d.floating
    <3>1. \A f \in DOMAIN c : b[f] = d[f]
      BY <1>2, <1>11, <2>1
    <3>2. b = d
      BY <1>10, <1>12, <3>1
    <3> QED
      BY <3>2
  <2>2. CASE ~d.floating
    <3>1. H!Normal("depth", b) = [b EXCEPT !.exponent = 0]
      BY <1>11, <2>2 DEF H!Normal
    <3>2. H!Normal("depth", d) = [d EXCEPT !.exponent = 0]
      BY <2>2 DEF H!Normal
    <3>3. [b EXCEPT !.exponent = 0] = [f \in DOMAIN c |-> IF f = "exponent" THEN 0 ELSE b[f]]
      BY <1>10
    <3>4. [d EXCEPT !.exponent = 0] = [f \in DOMAIN c |-> IF f = "exponent" THEN 0 ELSE d[f]]
      BY <1>12
    <3>5. \A f \in DOMAIN c : f # "exponent" => b[f] = d[f]
      BY <1>2, <1>11
    <3> QED
      BY <3>1, <3>2, <3>3, <3>4, <3>5
  <2> QED
    BY <2>1, <2>2
<1>14. H!Valid("depth", b)
  <2>1. H!DepthValid(d)
    BY DEF H!LeafOk, H!Valid
  <2>2. H!DepthValid(b)
    BY <1>11, <2>1 DEF H!DepthValid
  <2> QED
    BY <2>2 DEF H!Valid
<1>15. PICK r : r = H!ReadLeaf("depth", c, H!LeafStream("depth", d))
  OBVIOUS
<1>16. r.ok /\ r.b = H!Normal("depth", b)
  <2>1. Ordered(H!Order["depth"])
    BY DepthOrder
  <2> QED
    BY <1>9, <1>10, <1>14, <1>15, <2>1, LeafReadBack
<1> QED
  BY <1>1, <1>13, <1>15, <1>16

(* Which steps there are for a number.                                       *)
HalfStep(t, y) ==
  \/ y = 1 /\ t < 2048
  \/ y = 2 /\ t < 4096
  \/ y = 4 /\ t < 8192
  \/ y = 8 /\ t < 16384
  \/ y = 16 /\ t < 32768
  \/ y = 32 /\ t < 65536

(* They are those of the table.                                              *)
LEMMA HalfStepsAre ==
  ASSUME NEW t \in Int, NEW y
  PROVE  y \in {s[2] : s \in {h \in H!HalfSteps : t < h[1]}} <=> HalfStep(t, y)
<1>1. y \in {s[2] : s \in {h \in H!HalfSteps : t < h[1]}}
        <=> \E h \in H!HalfSteps : t < h[1] /\ y = h[2]
  OBVIOUS
<1>2. \A h : h \in H!HalfSteps <=>
        \/ h = <<2048, 1>> \/ h = <<4096, 2>> \/ h = <<8192, 4>>
        \/ h = <<16384, 8>> \/ h = <<32768, 16>> \/ h = <<65536, 32>>
  BY DEF H!HalfSteps
<1>3. (\E h \in H!HalfSteps : t < h[1] /\ y = h[2]) => HalfStep(t, y)
  BY <1>2 DEF HalfStep
<1>4. HalfStep(t, y) => \E h \in H!HalfSteps : t < h[1] /\ y = h[2]
  <2>1. CASE y = 1 /\ t < 2048
    <3>1. <<2048, 1>> \in H!HalfSteps
      BY <1>2
    <3> QED
      BY <2>1, <3>1
  <2>2. CASE y = 2 /\ t < 4096
    <3>1. <<4096, 2>> \in H!HalfSteps
      BY <1>2
    <3> QED
      BY <2>2, <3>1
  <2>3. CASE y = 4 /\ t < 8192
    <3>1. <<8192, 4>> \in H!HalfSteps
      BY <1>2
    <3> QED
      BY <2>3, <3>1
  <2>4. CASE y = 8 /\ t < 16384
    <3>1. <<16384, 8>> \in H!HalfSteps
      BY <1>2
    <3> QED
      BY <2>4, <3>1
  <2>5. CASE y = 16 /\ t < 32768
    <3>1. <<32768, 16>> \in H!HalfSteps
      BY <1>2
    <3> QED
      BY <2>5, <3>1
  <2>6. CASE y = 32 /\ t < 65536
    <3>1. <<65536, 32>> \in H!HalfSteps
      BY <1>2
    <3> QED
      BY <2>6, <3>1
  <2> QED
    BY <2>1, <2>2, <2>3, <2>4, <2>5, <2>6 DEF HalfStep
<1> QED
  BY <1>1, <1>3, <1>4

(* Rounded to eleven bits, a positive number is still positive.              *)
LEMMA HalfPositive ==
  ASSUME NEW t \in Int, 0 < t, t <= 65504
  PROVE  H!Half(t) \in Int /\ 0 < H!Half(t) /\ H!Half(t) <= t
<1> DEFINE S == {s[2] : s \in {h \in H!HalfSteps : t < h[1]}}
           p == H!Min(S)
<1>0. \A y : y \in S <=> HalfStep(t, y)
  BY HalfStepsAre
<1>1. \A y : y \in S <=>
        \/ y = 1 /\ t < 2048
        \/ y = 2 /\ t < 4096
        \/ y = 4 /\ t < 8192
        \/ y = 8 /\ t < 16384
        \/ y = 16 /\ t < 32768
        \/ y = 32 /\ t < 65536
  BY <1>0 DEF HalfStep
<1> HIDE DEF S
<1>2. \E x \in S : \A y \in S : x <= y
  <2>1. CASE t < 2048
    BY <1>1, <2>1
  <2>2. CASE ~(t < 2048) /\ t < 4096
    BY <1>1, <2>2
  <2>3. CASE ~(t < 4096) /\ t < 8192
    BY <1>1, <2>3
  <2>4. CASE ~(t < 8192) /\ t < 16384
    BY <1>1, <2>4
  <2>5. CASE ~(t < 16384) /\ t < 32768
    BY <1>1, <2>5
  <2>6. CASE ~(t < 32768) /\ t < 65536
    BY <1>1, <2>6
  <2> QED
    BY <2>1, <2>2, <2>3, <2>4, <2>5, <2>6
<1>3. p \in S /\ \A y \in S : p <= y
  BY <1>2 DEF H!Min
<1> HIDE DEF p
<1>4. p \in {1, 2, 4, 8, 16, 32} /\ p <= t
  BY <1>1, <1>3
<1>5. H!Half(t) = (t \div p) * p
  BY DEF H!Half, p, S
<1>6. (t \div p) * p \in Int /\ 0 < (t \div p) * p /\ (t \div p) * p <= t
  <2>1. CASE p = 1
    BY <1>4, <2>1
  <2>2. CASE p = 2
    BY <1>4, <2>2
  <2>3. CASE p = 4
    BY <1>4, <2>3
  <2>4. CASE p = 8
    BY <1>4, <2>4
  <2>5. CASE p = 16
    BY <1>4, <2>5
  <2>6. CASE p = 32
    BY <1>4, <2>6
  <2> QED
    BY <1>4, <2>1, <2>2, <2>3, <2>4, <2>5, <2>6
<1> QED
  BY <1>5, <1>6

(* A small number is as it was.                                              *)
LEMMA HalfSmall ==
  ASSUME NEW t \in Int, t < 2048
  PROVE  H!Half(t) = t
<1> DEFINE S == {s[2] : s \in {h \in H!HalfSteps : t < h[1]}}
           p == H!Min(S)
<1>0. \A y : y \in S <=> HalfStep(t, y)
  BY HalfStepsAre
<1>1. \A y : y \in S <=> y = 1 \/ y = 2 \/ y = 4 \/ y = 8 \/ y = 16 \/ y = 32
  BY <1>0 DEF HalfStep
<1> HIDE DEF S
<1>2. p = 1
  <2>1. 1 \in S /\ \A y \in S : 1 <= y
    BY <1>1
  <2>2. p \in S /\ \A y \in S : p <= y
    BY <2>1 DEF H!Min
  <2>3. p <= 1 /\ 1 <= p
    BY <2>1, <2>2
  <2>4. p \in Int
    BY <1>1, <2>2
  <2> QED
    BY <2>3, <2>4
<1>3. H!Half(t) = (t \div p) * p
  BY DEF H!Half, S
<1>4. t \div 1 = t /\ t * 1 = t
  OBVIOUS
<1> QED
  BY <1>2, <1>3, <1>4

(* Tone mapping as callers set it.                                           *)
ToneOf(t) == [H!NewTone EXCEPT !.intensity_target = t]

(* Its fields.                                                               *)
LEMMA ToneFields ==
  ASSUME NEW t \in Int
  PROVE  /\ ToneOf(t) = [intensity_target |-> t, min_nits |-> 0,
                         relative_to_max_display |-> FALSE, linear_below |-> 0]
         /\ H!NewTone = [intensity_target |-> 255, min_nits |-> 0,
                         relative_to_max_display |-> FALSE, linear_below |-> 0]
<1>1. H!NewTone = [intensity_target |-> 255, min_nits |-> 0,
                   relative_to_max_display |-> FALSE, linear_below |-> 0]
  BY DEF H!NewTone
<1>2. PICK c : c = H!NewTone
  OBVIOUS
<1>3. [c EXCEPT !.intensity_target = t] = [intensity_target |-> t, min_nits |-> 0,
                   relative_to_max_display |-> FALSE, linear_below |-> 0]
  <2>1. PICK z : z = [intensity_target |-> t, min_nits |-> 0,
                      relative_to_max_display |-> FALSE, linear_below |-> 0]
    OBVIOUS
  <2>2. DOMAIN c = {"intensity_target", "min_nits", "relative_to_max_display", "linear_below"}
    BY <1>1, <1>2
  <2>3. [c EXCEPT !.intensity_target = t] =
          [f \in DOMAIN c |-> IF f = "intensity_target" THEN t ELSE c[f]]
    BY Zenon
  <2>4. z = [f \in DOMAIN c |-> z[f]]
    BY <2>1, <2>2
  <2>5. z.intensity_target = t /\ z.min_nits = c.min_nits
        /\ z.relative_to_max_display = c.relative_to_max_display
        /\ z.linear_below = c.linear_below
    BY <1>1, <1>2, <2>1
  <2>6. \A f \in DOMAIN c : z[f] = IF f = "intensity_target" THEN t ELSE c[f]
    BY <2>2, <2>5
  <2> QED
    BY <2>1, <2>3, <2>4, <2>6
<1> QED
  BY <1>1, <1>2, <1>3 DEF ToneOf

(* It is read back up to the bits of the intensity.                          *)
LEMMA ToneBack ==
  ASSUME NEW t \in Int, H!LeafOk("tone", ToneOf(t))
  PROVE  LET r == H!ReadTone(H!NewTone, H!ToneStream(ToneOf(t)))
         IN  r.ok /\ r.b = ToneOf(H!Half(t))
<1>1. PICK d, P, c : d = ToneOf(t) /\ P = H!Order["tone"] /\ c = H!NewTone
  OBVIOUS
<1>2. /\ d = [intensity_target |-> t, min_nits |-> 0,
              relative_to_max_display |-> FALSE, linear_below |-> 0]
      /\ c = [intensity_target |-> 255, min_nits |-> 0,
              relative_to_max_display |-> FALSE, linear_below |-> 0]
  BY <1>1, ToneFields
<1>3. CASE t = 255
  <2>1. d = c /\ H!ToneStream(d) = <<>>
    BY <1>1, <1>2, <1>3 DEF H!ToneStream
  <2>2. H!ReadTone(c, <<>>) = [ok |-> TRUE, b |-> c]
    BY <1>1 DEF H!ReadTone
  <2>3. H!Half(t) = t
    BY <1>3, HalfSmall
  <2>4. H!ReadTone(c, <<>>).ok /\ H!ReadTone(c, <<>>).b = c
    BY <2>2
  <2> QED
    BY <1>1, <2>1, <2>3, <2>4
<1>4. CASE t # 255
  <2>1. d # c /\ H!ToneStream(d) = H!LeafStream("tone", d)
    BY <1>1, <1>2, <1>4 DEF H!ToneStream
  <2>2. DOMAIN c = {"intensity_target", "min_nits", "relative_to_max_display", "linear_below"}
        /\ c = [f \in DOMAIN c |-> c[f]] /\ d = [f \in DOMAIN c |-> d[f]]
    BY <1>2
  <2>3. \A f \in DOMAIN c : \A b : H!Visits(f, b)
    BY <2>2 DEF H!Visits
  <2>4. H!LeafStream("tone", d) # <<>>
    BY <2>2, <2>3, ToneOrder, LeafNotEmpty
  <2>5. 0 < t /\ t <= 65504
    <3>1. H!ToneValid(d)
      BY <1>1 DEF H!LeafOk, H!Valid
    <3>2. P[1] \in H!Visited("tone", d) <=> H!Visits(P[1], d)
      <4>1. 1 \in 1 .. Len(P)
        BY <1>1, ToneOrder
      <4> QED
        BY <1>1, <4>1, ToneOrder, VisitedAre
    <3>3. P[1] = "intensity_target"
      BY <1>1, ToneOrder
    <3>4. H!Fits(H!Named("tone", "intensity_target"), d.intensity_target)
      BY <1>1, <2>2, <2>3, <3>2, <3>3 DEF H!LeafOk
    <3>5. H!FitsHalf(t)
      BY <1>2, <3>4 DEF H!Named, H!Fits
    <3> QED
      BY <1>2, <3>1, <3>5 DEF H!ToneValid, H!FitsHalf
  <2>6. PICK h \in Int : h = H!Half(t) /\ 0 < h /\ h <= t
    BY <2>5, HalfPositive
  <2>7. H!Half(0) = 0
    BY HalfSmall
  <2>8. /\ H!Coded("intensity_target", d.intensity_target) = h
        /\ H!Coded("min_nits", d.min_nits) = 0 /\ H!Coded("linear_below", d.linear_below) = 0
        /\ H!Coded("relative_to_max_display", d.relative_to_max_display) = FALSE
    BY <1>2, <2>6, <2>7 DEF H!Coded
  <2>9. ASSUME NEW k \in 1 .. 4
        PROVE  P[k] \in DOMAIN c /\ H!Fits(H!Named("tone", P[k]), H!Coded(P[k], d[P[k]]))
    <3>1. P[k] \in DOMAIN c
      BY <1>1, <2>2, ToneOrder
    <3>2. H!Named("tone", P[k]) = P[k]
      BY DEF H!Named
    <3>3. H!FitsHalf(h) /\ H!FitsHalf(0)
      BY <2>5, <2>6 DEF H!FitsHalf
    <3>4. H!Fits(P[k], H!Coded(P[k], d[P[k]]))
      BY <2>2, <2>8, <3>1, <3>3 DEF H!Fits
    <3> QED
      BY <3>1, <3>2, <3>4
  <2>10. PICK b : b = LeafAll("tone", d, c)
    OBVIOUS
  <2>11. /\ LeafUnderstood("tone", d, c) /\ SoFar("tone", d, c, b, 4)
         /\ b = [f \in DOMAIN c |-> b[f]]
    <3>1. FieldsFit("tone", d, c)
      BY <1>1, <2>2, <2>9, ToneOrder DEF FieldsFit
    <3>2. AsksAlike("tone", d, c)
      <4>1. \A k \in 0 .. 3 : P[k + 1] \in DOMAIN c
        BY <2>9
      <4> QED
        BY <1>1, <2>3, <4>1, ToneOrder DEF AsksAlike
    <3>3. AllRead("tone", d, c)
      BY <3>1, <3>2, ToneOrder, UnderstoodIf
    <3> QED
      BY <2>10, <3>3, ToneOrder DEF AllRead
  <2>12. \A j \in 1 .. 4 : b[P[j]] = H!Coded(P[j], d[P[j]])
    BY <1>1, <2>3, <2>9, <2>11, ToneOrder DEF SoFar
  <2>13. b = ToneOf(h)
    <3>1. /\ b.intensity_target = h /\ b.min_nits = 0 /\ b.linear_below = 0
          /\ b.relative_to_max_display = FALSE
      BY <1>1, <2>8, <2>12, ToneOrder
    <3>2. b = [f \in {"intensity_target", "min_nits", "relative_to_max_display", "linear_below"} |-> b[f]]
      BY <2>2, <2>11
    <3>3. b = [intensity_target |-> h, min_nits |-> 0,
               relative_to_max_display |-> FALSE, linear_below |-> 0]
      BY <3>1, <3>2
    <3> QED
      BY <3>3, ToneFields
  <2>14. H!Valid("tone", b) /\ H!Normal("tone", b) = b
    <3>1. b = [intensity_target |-> h, min_nits |-> 0,
               relative_to_max_display |-> FALSE, linear_below |-> 0]
      BY <2>13, ToneFields
    <3>2. H!ToneValid(b)
      BY <2>6, <3>1 DEF H!ToneValid
    <3> QED
      BY <3>2 DEF H!Valid, H!Normal
  <2>15. PICK r : r = H!ReadLeaf("tone", c, H!LeafStream("tone", d))
    OBVIOUS
  <2>16. r.ok /\ r.b = b
    <3>1. Ordered(H!Order["tone"])
      BY ToneOrder
    <3> QED
      BY <2>10, <2>11, <2>14, <2>15, <3>1, LeafReadBack
  <2>17. H!ReadTone(c, H!ToneStream(d)) = r
    BY <2>1, <2>4, <2>15 DEF H!ReadTone
  <2> QED
    BY <1>1, <2>6, <2>13, <2>16, <2>17
<1> QED
  BY <1>3, <1>4

(* An extra channel as callers leave it: fields that its type does not have  *)
(* are as they were at first, and samples are integers.                      *)
GoodChannel(c) ==
  /\ c = [type |-> c.type, bit_depth |-> H!IntegerDepth(c.bit_depth.bits),
          dim_shift |-> c.dim_shift, name |-> c.name,
          alpha_associated |-> c.alpha_associated, spot_color |-> 0,
          cfa_channel |-> c.cfa_channel]
  /\ c.bit_depth.bits \in Int
  /\ c.alpha_associated \in BOOLEAN /\ (c.type # "Alpha" => c.alpha_associated = FALSE)
  /\ c.type # "CFA" => c.cfa_channel = 1

(* A default one is a new one.                                               *)
LEMMA DefaultChannel ==
  ASSUME NEW c, GoodChannel(c), H!ChannelDefault(c)
  PROVE  c = H!NewChannel
<1>1. PICK P : P = H!Order["channel"]
  OBVIOUS
<1>2. ASSUME NEW k \in 1 .. 7, H!Visits(P[k], c), P[k] # "bit_depth"
      PROVE  c[P[k]] = H!NewChannel[P[k]]
  <2>1. P[k] \in H!Visited("channel", c)
    BY <1>1, <1>2, ChannelOrder, VisitedAre
  <2> QED
    BY <1>2, <2>1 DEF H!ChannelDefault
<1>3. H!NewChannel = [type |-> "Alpha", bit_depth |-> H!IntegerDepth(8), dim_shift |-> 0,
                      name |-> 0, alpha_associated |-> FALSE, spot_color |-> 0,
                      cfa_channel |-> 1]
  BY DEF H!NewChannel, H!NewDepth, H!IntegerDepth
<1>4. H!Visits("type", c) /\ H!Visits("dim_shift", c) /\ H!Visits("name", c)
      /\ H!Visits("bit_depth", c) /\ (H!Visits("alpha_associated", c) <=> c.type = "Alpha")
  BY DEF H!Visits
<1>5. c.type = "Alpha"
  BY <1>1, <1>2, <1>3, <1>4, ChannelOrder
<1>6. c.dim_shift = 0
  BY <1>1, <1>2, <1>3, <1>4, ChannelOrder
<1>7. c.name = 0
  BY <1>1, <1>2, <1>3, <1>4, ChannelOrder
<1>8. c.alpha_associated = FALSE
  BY <1>1, <1>2, <1>3, <1>4, <1>5, ChannelOrder
<1>9. c.bit_depth.bits = 8
  <2>1. P[2] \in H!Visited("channel", c) /\ P[2] = "bit_depth"
    <3>1. 2 \in 1 .. Len(P)
      BY <1>1, ChannelOrder
    <3> QED
      BY <1>1, <1>4, <3>1, ChannelOrder, VisitedAre
  <2>2. H!Normal("depth", c.bit_depth) = H!NewDepth
    BY <2>1 DEF H!ChannelDefault
  <2>3. c.bit_depth = H!IntegerDepth(c.bit_depth.bits)
    BY DEF GoodChannel
  <2>4. H!Normal("depth", c.bit_depth).bits = c.bit_depth.bits
    BY <2>3 DEF H!IntegerDepth, H!Normal
  <2> QED
    BY <2>2, <2>4 DEF H!NewDepth
<1>10. c.cfa_channel = 1
  BY <1>5 DEF GoodChannel
<1>11. c = [type |-> c.type, bit_depth |-> H!IntegerDepth(c.bit_depth.bits),
            dim_shift |-> c.dim_shift, name |-> c.name,
            alpha_associated |-> c.alpha_associated, spot_color |-> 0,
            cfa_channel |-> c.cfa_channel]
  BY DEF GoodChannel
<1> QED
  BY <1>3, <1>5, <1>6, <1>7, <1>8, <1>9, <1>10, <1>11

(* A channel as it is written, with its depth written already.               *)
Nested(c) == [c EXCEPT !.bit_depth = H!LeafStream("depth", @)]

(* Its other fields are those of the channel.                                *)
LEMMA NestedFields ==
  ASSUME NEW c, GoodChannel(c)
  PROVE  /\ DOMAIN c = DOMAIN H!NewChannel /\ DOMAIN Nested(c) = DOMAIN c
         /\ c = [f \in DOMAIN c |-> c[f]]
         /\ Nested(c) = [f \in DOMAIN c |-> Nested(c)[f]]
         /\ Nested(c).bit_depth = H!LeafStream("depth", c.bit_depth)
         /\ \A f \in DOMAIN c : f # "bit_depth" => Nested(c)[f] = c[f]
         /\ DOMAIN c = {"type", "bit_depth", "dim_shift", "name", "alpha_associated",
                        "spot_color", "cfa_channel"}
<1>1. DOMAIN c = {"type", "bit_depth", "dim_shift", "name", "alpha_associated",
                  "spot_color", "cfa_channel"}
      /\ c = [f \in DOMAIN c |-> c[f]]
  <2>1. PICK a1, a2, a3, a4, a5, a6 :
          c = [type |-> a1, bit_depth |-> a2, dim_shift |-> a3, name |-> a4,
               alpha_associated |-> a5, spot_color |-> 0, cfa_channel |-> a6]
    BY DEF GoodChannel
  <2> QED
    BY <2>1
<1>2. DOMAIN H!NewChannel = {"type", "bit_depth", "dim_shift", "name", "alpha_associated",
                             "spot_color", "cfa_channel"}
  BY DEF H!NewChannel
<1>3. PICK w : w = H!LeafStream("depth", c.bit_depth)
  OBVIOUS
<1>4. Nested(c) = [c EXCEPT !.bit_depth = w]
  BY <1>3 DEF Nested
<1>5. [c EXCEPT !.bit_depth = w] = [f \in DOMAIN c |-> IF f = "bit_depth" THEN w ELSE c[f]]
  BY Zenon
<1> QED
  BY <1>1, <1>2, <1>3, <1>4, <1>5

(* It asks for the fields that the channel does.                             *)
LEMMA ChannelVisits ==
  ASSUME NEW b
  PROVE  /\ H!Visits("type", b) /\ H!Visits("bit_depth", b) /\ H!Visits("dim_shift", b)
         /\ H!Visits("name", b)
         /\ H!Visits("alpha_associated", b) <=> b.type = "Alpha"
         /\ H!Visits("spot_color", b) <=> b.type = "SpotColor"
         /\ H!Visits("cfa_channel", b) <=> b.type = "CFA"
BY DEF H!Visits

(* So that what is left out is what a new channel has.                       *)
LEMMA ChannelLeafBack ==
  ASSUME NEW c, GoodChannel(c), H!LeafOk("channel", c)
  PROVE  /\ H!ReadLeaf("channel", H!NewChannel, H!LeafStream("channel", Nested(c))).ok
         /\ H!ReadLeaf("channel", H!NewChannel, H!LeafStream("channel", Nested(c))).b = Nested(c)
<1>1. PICK d, P, a : d = Nested(c) /\ P = H!Order["channel"] /\ a = H!NewChannel
  OBVIOUS
<1>2. /\ DOMAIN c = {"type", "bit_depth", "dim_shift", "name", "alpha_associated",
                     "spot_color", "cfa_channel"}
      /\ DOMAIN a = DOMAIN c /\ DOMAIN d = DOMAIN c /\ d = [f \in DOMAIN c |-> d[f]]
      /\ \A f \in DOMAIN c : f # "bit_depth" => d[f] = c[f]
  BY <1>1, NestedFields
<1>3. /\ a = [f \in DOMAIN a |-> a[f]] /\ a.type = "Alpha" /\ a.spot_color = 0 /\ a.cfa_channel = 1
      /\ a.alpha_associated = FALSE
  BY <1>1 DEF H!NewChannel
<1>4. /\ d.type = c.type /\ d.spot_color = 0
      /\ d.type # "Alpha" => d.alpha_associated = FALSE
      /\ d.type # "CFA" => d.cfa_channel = 1
  <2>1. /\ c.spot_color = 0
        /\ c.type # "Alpha" => c.alpha_associated = FALSE
        /\ c.type # "CFA" => c.cfa_channel = 1
    BY DEF GoodChannel
  <2>2. d.type = c.type /\ d.spot_color = c.spot_color /\ d.cfa_channel = c.cfa_channel
        /\ d.alpha_associated = c.alpha_associated
    BY <1>2
  <2> QED
    BY <2>1, <2>2
<1>5. \A f \in DOMAIN c : H!Coded(f, d[f]) = d[f]
  BY <1>2 DEF H!Coded
<1>6. \A f \in DOMAIN c : H!Visits(f, d) <=> H!Visits(f, c)
  BY <1>2, <1>4, ChannelVisits
<1>7. ASSUME NEW k \in 1 .. 7
      PROVE  /\ P[k] \in DOMAIN a
             /\ H!Visits(P[k], d) => H!Fits(H!Named("channel", P[k]), H!Coded(P[k], d[P[k]]))
  <2>1. P[k] \in DOMAIN a
    BY <1>1, <1>2, ChannelOrder
  <2>2. H!Named("channel", P[k]) = P[k] /\ H!Coded(P[k], d[P[k]]) = d[P[k]]
    BY <1>2, <1>5, <2>1 DEF H!Named
  <2>3. P[k] \in H!Visited("channel", c) <=> H!Visits(P[k], c)
    BY <1>1, ChannelOrder, VisitedAre
  <2>4. H!Visits(P[k], d) => H!Fits(P[k], c[P[k]])
    BY <1>2, <1>6, <2>1, <2>2, <2>3 DEF H!LeafOk
  <2>5. H!Fits("bit_depth", d.bit_depth)
    BY DEF H!Fits
  <2> QED
    BY <1>2, <2>1, <2>2, <2>4, <2>5
<1>8. ASSUME NEW k \in 0 .. 6, NEW b, SoFar("channel", d, a, b, k)
      PROVE  H!Visits(P[k + 1], b) <=> H!Visits(P[k + 1], d)
  <2>1. k >= 1 => b.type = d.type
    BY <1>1, <1>2, <1>5, <1>8, ChannelOrder, ChannelVisits DEF SoFar
  <2>2. k = 0 \/ k = 1 \/ k = 2 \/ k = 3 \/ k = 4 \/ k = 5 \/ k = 6
    OBVIOUS
  <2>3. P[k + 1] = CASE k = 0 -> "type" [] k = 1 -> "bit_depth" [] k = 2 -> "dim_shift"
                     [] k = 3 -> "name" [] k = 4 -> "alpha_associated"
                     [] k = 5 -> "spot_color" [] k = 6 -> "cfa_channel"
    BY <1>1, <2>2, ChannelOrder
  <2> QED
    BY <2>1, <2>2, <2>3, ChannelVisits
<1>9. PICK b : b = LeafAll("channel", d, a)
  OBVIOUS
<1>10. /\ LeafUnderstood("channel", d, a) /\ SoFar("channel", d, a, b, 7)
       /\ b = [f \in DOMAIN a |-> b[f]]
  <2>1. FieldsFit("channel", d, a)
    BY <1>1, <1>3, <1>7, ChannelOrder DEF FieldsFit
  <2>2. AsksAlike("channel", d, a)
    BY <1>1, <1>8, ChannelOrder DEF AsksAlike
  <2>3. AllRead("channel", d, a)
    BY <2>1, <2>2, ChannelOrder, UnderstoodIf
  <2> QED
    BY <1>9, <2>3, ChannelOrder DEF AllRead
<1>11. ASSUME NEW k \in 1 .. 7
       PROVE  b[P[k]] = d[P[k]]
  <2>1. b[P[k]] = IF H!Visits(P[k], d) THEN d[P[k]] ELSE a[P[k]]
    BY <1>1, <1>2, <1>5, <1>7, <1>10, ChannelOrder DEF SoFar
  <2>2. P[k] \in DOMAIN c
    BY <1>2, <1>7
  <2>3. ~H!Visits(P[k], d) => d[P[k]] = a[P[k]]
    BY <1>2, <1>3, <1>4, <2>2, ChannelVisits
  <2> QED
    BY <2>1, <2>3
<1>12. b = d
  <2>1. \A f \in DOMAIN a : b[f] = d[f]
    BY <1>1, <1>2, <1>11, ChannelOrder
  <2> QED
    BY <1>2, <1>10, <2>1
<1>13. H!Valid("channel", b) /\ H!Normal("channel", b) = b
  <2>1. H!ChannelValid(c)
    BY DEF H!LeafOk, H!Valid
  <2>2. b.dim_shift = c.dim_shift /\ b.type = c.type
    BY <1>2, <1>12
  <2>3. H!ChannelValid(b)
    BY <2>1, <2>2 DEF H!ChannelValid
  <2> QED
    BY <2>3 DEF H!Valid, H!Normal
<1>14. PICK r : r = H!ReadLeaf("channel", a, H!LeafStream("channel", d))
  OBVIOUS
<1>15. r.ok /\ r.b = b
  <2>1. Ordered(H!Order["channel"])
    BY ChannelOrder
  <2> QED
    BY <1>9, <1>10, <1>13, <1>14, <2>1, LeafReadBack
<1> QED
  BY <1>1, <1>12, <1>14, <1>15

(* What reading a channel returns.                                           *)
ChannelReads(c) == H!ReadChannel(H!NewChannel, H!ChannelStream(c))

(* The channel.                                                              *)
LEMMA ChannelBack ==
  ASSUME NEW c, GoodChannel(c), H!ChannelOk(c)
  PROVE  ChannelReads(c).ok /\ ChannelReads(c).b = c
<1>1. CASE H!ChannelDefault(c)
  <2>1. c = H!NewChannel
    BY <1>1, DefaultChannel
  <2>2. H!ChannelStream(c) = <<>>
    BY <1>1 DEF H!ChannelStream
  <2>3. ChannelReads(c) = [ok |-> TRUE, b |-> H!NewChannel]
    BY <2>2 DEF ChannelReads, H!ReadChannel
  <2> QED
    BY <2>1, <2>3
<1>2. CASE ~H!ChannelDefault(c)
  <2>1. PICK d, s : d = Nested(c) /\ s = H!LeafStream("channel", d)
    OBVIOUS
  <2>2. H!ChannelStream(c) = s
    BY <1>2, <2>1 DEF H!ChannelStream, Nested
  <2>3. s # <<>>
    <3>1. H!Visits(H!Order["channel"][1], d)
      BY ChannelOrder, ChannelVisits
    <3> QED
      BY <2>1, <3>1, ChannelOrder, LeafNotEmpty
  <2>4. PICK r : r = H!ReadLeaf("channel", H!NewChannel, s)
    OBVIOUS
  <2>5. r.ok /\ r.b = d
    BY <2>1, <2>4, ChannelLeafBack DEF H!ChannelOk
  <2>6. /\ d.bit_depth = H!LeafStream("depth", c.bit_depth)
        /\ DOMAIN d = DOMAIN c /\ d = [f \in DOMAIN c |-> d[f]]
        /\ c = [f \in DOMAIN c |-> c[f]]
        /\ \A f \in DOMAIN c : f # "bit_depth" => d[f] = c[f]
    BY <2>1, NestedFields
  <2>7. PICK q : q = H!ReadLeaf("depth", H!NewChannel.bit_depth, d.bit_depth)
    OBVIOUS
  <2>8. ChannelReads(c) = H!WithDepth(r, q)
    BY <2>2, <2>3, <2>4, <2>5, <2>7 DEF ChannelReads, H!ReadChannel
  <2>9. c.bit_depth \in DepthRecords /\ H!Normal("depth", c.bit_depth) = c.bit_depth
    <3>1. PICK n \in Int : n = c.bit_depth.bits /\ c.bit_depth = [floating |-> FALSE, bits |-> n, exponent |-> 0]
      BY DEF GoodChannel, H!IntegerDepth
    <3>2. c.bit_depth \in DepthRecords
      BY <3>1 DEF DepthRecords
    <3>3. c.bit_depth.floating = FALSE /\ [c.bit_depth EXCEPT !.exponent = 0] = c.bit_depth
      <4>1. PICK z : z = c.bit_depth /\ z.floating = FALSE /\ z.exponent = 0
                     /\ z = [f \in DOMAIN z |-> z[f]]
        <5>1. PICK z : z = c.bit_depth
          OBVIOUS
        <5>2. z = [floating |-> FALSE, bits |-> n, exponent |-> 0]
          BY <3>1, <5>1
        <5>3. z.floating = FALSE /\ z.exponent = 0
          BY <5>2
        <5>4. z = [f \in DOMAIN z |-> z[f]]
          BY <5>2
        <5> QED
          BY <5>1, <5>3, <5>4
      <4>2. [z EXCEPT !.exponent = 0] = [f \in DOMAIN z |-> IF f = "exponent" THEN 0 ELSE z[f]]
        BY Zenon
      <4> QED
        BY <4>1, <4>2
    <3> QED
      BY <3>2, <3>3 DEF H!Normal
  <2>10. q.ok /\ q.b = c.bit_depth
    <3>1. H!NewChannel.bit_depth = H!NewDepth
      BY DEF H!NewChannel
    <3>2. H!LeafOk("depth", c.bit_depth)
      BY DEF H!ChannelOk
    <3> QED
      BY <2>6, <2>7, <2>9, <3>1, <3>2, DepthBack
  <2>11. H!WithDepth(r, q) = [ok |-> r.ok /\ q.ok, b |-> [r.b EXCEPT !.bit_depth = q.b]]
    BY DEF H!WithDepth
  <2>12. H!WithDepth(r, q).ok
    BY <2>5, <2>10, Zenon DEF H!WithDepth
  <2>13. H!WithDepth(r, q).b = [d EXCEPT !.bit_depth = c.bit_depth]
    BY <2>5, <2>10, <2>11
  <2>14. [d EXCEPT !.bit_depth = c.bit_depth] = c
    <3>1. [d EXCEPT !.bit_depth = c.bit_depth] =
            [f \in DOMAIN c |-> IF f = "bit_depth" THEN c.bit_depth ELSE d[f]]
      BY <2>6
    <3>2. \A f \in DOMAIN c : (IF f = "bit_depth" THEN c.bit_depth ELSE d[f]) = c[f]
      BY <2>6
    <3> QED
      BY <2>6, <3>1, <3>2
  <2> QED
    BY <2>8, <2>12, <2>13, <2>14
<1> QED
  BY <1>1, <1>2

(* All the extra channels are read back.                                     *)
LEMMA ChannelsBack ==
  ASSUME NEW v, DOMAIN v \subseteq Nat \ {0}, v = [i \in DOMAIN v |-> v[i]], \A i \in DOMAIN v : GoodChannel(v[i]),
         \A i \in DOMAIN v : H!ChannelOk(v[i])
  PROVE  LET r == H!ReadChannels(<<>>, [i \in DOMAIN v |-> H!ChannelStream(v[i])])
         IN  r.ok /\ r.b = v
<1>1. PICK s : s = [i \in DOMAIN v |-> H!ChannelStream(v[i])]
  OBVIOUS
<1>2. PICK q : q = [i \in DOMAIN s |->
         H!ReadChannel(IF i <= Len(<<>>) THEN <<>>[i] ELSE H!NewChannel, s[i])]
  OBVIOUS
<1>3. DOMAIN s = DOMAIN v /\ DOMAIN q = DOMAIN v
  BY <1>1, <1>2
<1>4. ASSUME NEW i \in DOMAIN v PROVE q[i].ok /\ q[i].b = v[i]
  <2>1. q[i] = H!ReadChannel(IF i <= Len(<<>>) THEN <<>>[i] ELSE H!NewChannel, s[i])
    BY <1>2, <1>3
  <2>2. ~(i <= Len(<<>>))
    OBVIOUS
  <2>3. q[i] = ChannelReads(v[i])
    BY <1>1, <2>1, <2>2 DEF ChannelReads
  <2> QED
    BY <2>3, ChannelBack
<1>5. H!ReadChannels(<<>>, s) = [ok |-> \A i \in DOMAIN q : q[i].ok, b |-> [i \in DOMAIN q |-> q[i].b]]
  BY <1>2 DEF H!ReadChannels
<1> QED
  BY <1>1, <1>3, <1>4, <1>5

(* The fields of the metadata by their places.                               *)
LEMMA MetadataOrder ==
  /\ Ordered(H!Order.metadata) /\ Len(H!Order.metadata) = 15
  /\ H!Order.metadata[1] = "extra_fields" /\ H!Order.metadata[2] = "orientation"
  /\ H!Order.metadata[3] = "have_intrinsic_size" /\ H!Order.metadata[4] = "intrinsic_size"
  /\ H!Order.metadata[5] = "have_preview" /\ H!Order.metadata[6] = "preview_size"
  /\ H!Order.metadata[7] = "have_animation" /\ H!Order.metadata[8] = "animation"
  /\ H!Order.metadata[9] = "bit_depth"
  /\ H!Order.metadata[10] = "modular_16_bit_buffer_sufficient"
  /\ H!Order.metadata[11] = "num_extra_channels"
  /\ H!Order.metadata[12] = "extra_channel_info" /\ H!Order.metadata[13] = "xyb_encoded"
  /\ H!Order.metadata[14] = "color_encoding" /\ H!Order.metadata[15] = "tone_mapping"
<1>1. PICK P : P = H!Order.metadata
  OBVIOUS
<1>2. Len(P) = 15 /\ DOMAIN P = 1 .. 15
  BY <1>1 DEF H!Order
<1>3. /\ P[1] = "extra_fields" /\ P[2] = "orientation" /\ P[3] = "have_intrinsic_size"
      /\ P[4] = "intrinsic_size" /\ P[5] = "have_preview" /\ P[6] = "preview_size"
      /\ P[7] = "have_animation" /\ P[8] = "animation" /\ P[9] = "bit_depth"
      /\ P[10] = "modular_16_bit_buffer_sufficient" /\ P[11] = "num_extra_channels"
      /\ P[12] = "extra_channel_info" /\ P[13] = "xyb_encoded" /\ P[14] = "color_encoding"
      /\ P[15] = "tone_mapping"
  BY <1>1 DEF H!Order
<1>4. \A i, j \in 1 .. 15 : P[i] = P[j] => i = j
  <2>1. \A i \in 1 .. 15 : i = 1 \/ i = 2 \/ i = 3 \/ i = 4 \/ i = 5 \/ i = 6 \/ i = 7
          \/ i = 8 \/ i = 9 \/ i = 10 \/ i = 11 \/ i = 12 \/ i = 13 \/ i = 14 \/ i = 15
    OBVIOUS
  <2> QED
    BY <1>3, <2>1
<1> QED
  BY <1>1, <1>2, <1>3, <1>4 DEF Ordered

(* What is said of one of its fields ...                                     *)
SaidOf(d, f) == H!NestedStream(f, d[f])

(* ... and understood, by an object that has what a new one has.             *)
TakenOf(d, f) == H!ReadNested(f, H!NewMetadata[f], SaidOf(d, f))
TakenUp(d) == [f \in H!Visited("metadata", d) |-> TakenOf(d, f).b]

(* The metadata when k fields of d have been read into a new object.         *)
AllSoFar(d, k) ==
  Mixed(H!Order.metadata, TakenUp(d), H!Visited("metadata", d), H!NewMetadata, k)

(* The reader asks for what was sent, and takes it.                          *)
AllUnderstood(d) ==
  /\ \A k \in 0 .. 14 :
       H!Visits(H!Order.metadata[k + 1], AllSoFar(d, k)) <=> H!Visits(H!Order.metadata[k + 1], d)
  /\ \A k \in 1 .. 15 :
       H!Visits(H!Order.metadata[k], d) => TakenOf(d, H!Order.metadata[k]).ok

(* The fields of a new object.                                               *)
LEMMA NewFields ==
  /\ H!NewMetadata = [f \in DOMAIN H!NewMetadata |-> H!NewMetadata[f]]
  /\ DOMAIN H!NewMetadata =
       {"extra_fields", "orientation", "have_intrinsic_size", "intrinsic_size", "have_preview",
        "preview_size", "have_animation", "animation", "bit_depth",
        "modular_16_bit_buffer_sufficient", "num_extra_channels", "extra_channel_info",
        "xyb_encoded", "color_encoding", "tone_mapping"}
  /\ \A k \in 1 .. 15 : H!Order.metadata[k] \in DOMAIN H!NewMetadata
<1>1. DOMAIN H!NewMetadata =
       {"extra_fields", "orientation", "have_intrinsic_size", "intrinsic_size", "have_preview",
        "preview_size", "have_animation", "animation", "bit_depth",
        "modular_16_bit_buffer_sufficient", "num_extra_channels", "extra_channel_info",
        "xyb_encoded", "color_encoding", "tone_mapping"}
  BY DEF H!NewMetadata
<1>2. H!NewMetadata = [f \in DOMAIN H!NewMetadata |-> H!NewMetadata[f]]
  BY DEF H!NewMetadata
<1>3. ASSUME NEW k \in 1 .. 15 PROVE H!Order.metadata[k] \in DOMAIN H!NewMetadata
  <2>1. k = 1 \/ k = 2 \/ k = 3 \/ k = 4 \/ k = 5 \/ k = 6 \/ k = 7 \/ k = 8 \/ k = 9
          \/ k = 10 \/ k = 11 \/ k = 12 \/ k = 13 \/ k = 14 \/ k = 15
    OBVIOUS
  <2> QED
    BY <1>1, <2>1, MetadataOrder
<1> QED
  BY <1>1, <1>2, <1>3

(* A field not read yet is as in a new object.                               *)
LEMMA NotYet ==
  ASSUME NEW d, NEW j \in 1 .. 15, NEW k \in 0 .. 15
  PROVE  AllSoFar(d, k)[H!Order.metadata[j]] =
           IF j <= k /\ H!Visits(H!Order.metadata[j], d)
           THEN TakenOf(d, H!Order.metadata[j]).b ELSE H!NewMetadata[H!Order.metadata[j]]
<1>1. PICK P, T, V, c : /\ P = H!Order.metadata /\ T = TakenUp(d) /\ V = H!Visited("metadata", d)
                        /\ c = H!NewMetadata
  OBVIOUS
<1>2. AllSoFar(d, k) = Mixed(P, T, V, c, k)
  BY <1>1 DEF AllSoFar
<1>3. P[j] \in V <=> H!Visits(P[j], d)
  <2>1. H!Order["metadata"] = P /\ Len(P) = 15
    BY <1>1, MetadataOrder
  <2> QED
    BY <1>1, <2>1, MetadataOrder, VisitedAre
<1>4. (\E i \in 1 .. k : P[j] = P[i]) <=> j <= k
  <2>1. \A i \in 1 .. 15 : P[j] = P[i] => j = i
    BY <1>1, MetadataOrder DEF Ordered
  <2> QED
    BY <2>1
<1>5. P[j] \in DOMAIN c
  BY <1>1, NewFields
<1>6. Mixed(P, T, V, c, k)[P[j]] =
        IF P[j] \in V /\ (\E i \in 1 .. k : P[j] = P[i]) THEN T[P[j]] ELSE c[P[j]]
  BY <1>5 DEF Mixed
<1>7. P[j] \in V => T[P[j]] = TakenOf(d, P[j]).b
  BY <1>1 DEF TakenUp
<1> QED
  BY <1>1, <1>2, <1>3, <1>4, <1>6, <1>7

(* One more field is understood.                                             *)
LEMMA FieldTaken ==
  ASSUME NEW d, AllUnderstood(d), NEW E, NEW k \in 0 .. 14, NEW r \in Seq(E),
         H!MetadataSent(d, H!Order.metadata[k + 1]) \in Seq(E)
  PROVE  H!ReadMetadataField(State(AllSoFar(d, k),
                                   H!MetadataSent(d, H!Order.metadata[k + 1]) \o r),
                             H!Order.metadata[k + 1])
           = State(AllSoFar(d, k + 1), r)
<1>1. PICK j \in 1 .. 15 : j = k + 1
  OBVIOUS
<1>2. PICK field : field = H!Order.metadata[j] /\ field \in DOMAIN H!NewMetadata
  BY NewFields
<1>3. PICK b : b = AllSoFar(d, k)
  OBVIOUS
<1>4. H!Visits(field, b) <=> H!Visits(field, d)
  BY <1>1, <1>2, <1>3 DEF AllUnderstood
<1>5. field \in H!Visited("metadata", d) <=> H!Visits(field, d)
  <2>1. H!Order["metadata"] = H!Order.metadata /\ j \in 1 .. Len(H!Order["metadata"])
    BY MetadataOrder
  <2> QED
    BY <1>2, <2>1, MetadataOrder, VisitedAre
<1>6. AllSoFar(d, k + 1) =
        IF field \in H!Visited("metadata", d) THEN [b EXCEPT ![field] = TakenUp(d)[field]] ELSE b
  <2>1. PICK P, T, V, c : /\ P = H!Order.metadata /\ T = TakenUp(d) /\ V = H!Visited("metadata", d)
                          /\ c = H!NewMetadata
    OBVIOUS
  <2>2. \A i, l \in 1 .. 15 : P[i] = P[l] => i = l
    BY <2>1, MetadataOrder DEF Ordered
  <2>3. P[k + 1] \in DOMAIN c /\ P[k + 1] = field
    BY <1>1, <1>2, <2>1
  <2>4. 15 \in Nat /\ k \in 0 .. 15 - 1
    OBVIOUS
  <2>5. OneMore(P, T, V, c, k)
    BY ONLY <2>2, <2>3, <2>4, MixedNext
  <2> QED
    BY <1>3, <2>1, <2>3, <2>5 DEF AllSoFar, OneMore
<1>7. H!MetadataSent(d, field) \in Seq(E)
  BY <1>1, <1>2
<1> SUFFICES H!ReadMetadataField(State(b, H!MetadataSent(d, field) \o r), field)
               = State(AllSoFar(d, k + 1), r)
  BY <1>1, <1>2, <1>3
<1>8. CASE ~H!Visits(field, d)
  <2>1. H!MetadataSent(d, field) = <<>>
    BY <1>8 DEF H!MetadataSent, H!Sent
  <2>2. <<>> \o r = r
    BY ConcatEmptySeq
  <2>3. AllSoFar(d, k + 1) = b
    BY <1>5, <1>6, <1>8
  <2> QED
    BY <1>4, <1>8, <2>1, <2>2, <2>3 DEF H!ReadMetadataField, State
<1>9. CASE H!Visits(field, d)
  <2>1. PICK v, x : v = SaidOf(d, field) /\ x = <<field, v>>
    OBVIOUS
  <2>2. H!MetadataSent(d, field) = <<x>>
    BY <1>9, <2>1 DEF H!MetadataSent, H!Sent, SaidOf
  <2>3. x \in E
    BY <1>7, <2>2
  <2>4. PICK t : t = <<x>> \o r /\ t # <<>> /\ Head(t) = x /\ Tail(t) = r
    BY <2>3, HeadOf
  <2>5. Head(t)[1] = field /\ Head(t)[2] = v
    BY <2>1, <2>4
  <2>6. PICK got : got = TakenOf(d, field)
    OBVIOUS
  <2>7. got.ok
    BY <1>2, <1>9, <2>6 DEF AllUnderstood
  <2>8. b[field] = H!NewMetadata[field]
    <3>1. j \in 1 .. 15 /\ k \in 0 .. 15 /\ ~(j <= k)
      BY <1>1
    <3> QED
      BY <1>2, <1>3, <3>1, NotYet
  <2>9. H!ReadNested(field, b[field], Head(t)[2]) = got
    BY <2>1, <2>5, <2>6, <2>8 DEF TakenOf
  <2>10. AllSoFar(d, k + 1) = [b EXCEPT ![field] = got.b]
    BY <1>5, <1>6, <1>9, <2>6 DEF TakenUp
  <2>11. PICK q : q = State(b, t) /\ q.ok = TRUE /\ q.b = b /\ q.rest = t
    <3>1. PICK q : q = State(b, t)
      OBVIOUS
    <3>2. q.ok = TRUE /\ q.b = b /\ q.rest = t
      BY <3>1 DEF State
    <3> QED
      BY <3>1, <3>2
  <2>12. H!ReadMetadataField(q, field) = H!TakeField(q, field, got)
    BY <1>4, <1>9, <2>4, <2>5, <2>9, <2>11 DEF H!ReadMetadataField
  <2>13. PICK z : z = [b EXCEPT ![field] = got.b]
    OBVIOUS
  <2>14. field = "extra_fields" => H!Reset(z) = z
    <3> SUFFICES ASSUME field = "extra_fields", ~z.extra_fields PROVE H!Reset(z) = z
      BY DEF H!Reset
    <3>1. k = 0
      <4>1. H!Order.metadata[1] = field
        BY MetadataOrder
      <4>2. PICK P : P = H!Order.metadata
        OBVIOUS
      <4>3. \A i, l \in 1 .. 15 : P[i] = P[l] => i = l
        BY <4>2, MetadataOrder DEF Ordered
      <4>4. P[1] = P[j] /\ 1 \in 1 .. 15 /\ j \in 1 .. 15
        BY <1>2, <4>1, <4>2
      <4>5. 1 = j
        BY ONLY <4>3, <4>4
      <4> QED
        BY <1>1, <4>5
    <3>2. b = H!NewMetadata
      BY <1>3, <3>1, MixedFirst, NewFields DEF AllSoFar
    <3>3. DOMAIN z = DOMAIN H!NewMetadata /\ z = [f \in DOMAIN z |-> z[f]]
          /\ \A f \in DOMAIN z : f # "extra_fields" => z[f] = H!NewMetadata[f]
      BY <2>13, <3>2, NewFields
    <3>4. z.orientation = 1 /\ z.have_intrinsic_size = FALSE /\ z.have_preview = FALSE
          /\ z.have_animation = FALSE
      <4>1. H!NewMetadata.orientation = 1 /\ H!NewMetadata.have_intrinsic_size = FALSE
            /\ H!NewMetadata.have_preview = FALSE /\ H!NewMetadata.have_animation = FALSE
        BY DEF H!NewMetadata
      <4> QED
        BY <3>3, <4>1, NewFields
    <3>5. H!Reset(z) = [z EXCEPT !.orientation = 1, !.have_intrinsic_size = FALSE,
                                 !.have_preview = FALSE, !.have_animation = FALSE]
      BY DEF H!Reset
    <3>6. PICK z1 : z1 = [z EXCEPT !.orientation = 1] /\ z1 = z
      <4>1. [z EXCEPT !.orientation = 1] = [f \in DOMAIN z |-> IF f = "orientation" THEN 1 ELSE z[f]]
        BY Zenon
      <4> QED
        BY <3>3, <3>4, <4>1
    <3>7. [z EXCEPT !.have_intrinsic_size = FALSE] = z
      <4>1. [z EXCEPT !.have_intrinsic_size = FALSE]
              = [f \in DOMAIN z |-> IF f = "have_intrinsic_size" THEN FALSE ELSE z[f]]
        BY Zenon
      <4> QED
        BY <3>3, <3>4, <4>1
    <3>8. [z EXCEPT !.have_preview = FALSE] = z
      <4>1. [z EXCEPT !.have_preview = FALSE]
              = [f \in DOMAIN z |-> IF f = "have_preview" THEN FALSE ELSE z[f]]
        BY Zenon
      <4> QED
        BY <3>3, <3>4, <4>1
    <3>9. [z EXCEPT !.have_animation = FALSE] = z
      <4>1. [z EXCEPT !.have_animation = FALSE]
              = [f \in DOMAIN z |-> IF f = "have_animation" THEN FALSE ELSE z[f]]
        BY Zenon
      <4> QED
        BY <3>3, <3>4, <4>1
    <3> QED
      BY <3>5, <3>6, <3>7, <3>8, <3>9
  <2>15. H!TakeField(q, field, got) =
           [ok |-> got.ok /\ Head(q.rest)[1] = field, rest |-> Tail(q.rest), b |-> z]
    BY <2>11, <2>13, <2>14 DEF H!TakeField
  <2>16. H!TakeField(q, field, got) = [ok |-> TRUE, rest |-> r, b |-> z]
    BY <2>4, <2>5, <2>7, <2>11, <2>15
  <2> QED
    BY <2>2, <2>4, <2>10, <2>11, <2>12, <2>13, <2>16 DEF State
<1> QED
  BY <1>8, <1>9

(* The metadata as one piece for each field.                                 *)
AllStream(d) == H!FlattenSeq([k \in 1 .. Len(H!Order.metadata) |->
                                H!MetadataSent(d, H!Order.metadata[k])])

(* They are joined.                                                          *)
LEMMA AllPieces ==
  ASSUME NEW d
  PROVE  \E E, ss, g :
           /\ Joins(g, ss, 15, E, AllStream(d))
           /\ \A k \in 1 .. 15 :
                ss[k] = H!MetadataSent(d, H!Order.metadata[k]) /\ ss[k] \in Seq(E)
<1>1. PICK n \in Nat \ {0} : n = 15 /\ n = Len(H!Order.metadata)
  BY MetadataOrder
<1>2. PICK E : E = {<<H!Order.metadata[k], SaidOf(d, H!Order.metadata[k])>> : k \in 1 .. n}
  OBVIOUS
<1>3. ASSUME NEW k \in 1 .. n PROVE H!MetadataSent(d, H!Order.metadata[k]) \in Seq(E)
  <2>1. PICK x \in E : x = <<H!Order.metadata[k], SaidOf(d, H!Order.metadata[k])>>
    BY <1>2
  <2>2. <<x>> \in Seq(E) /\ <<>> \in Seq(E)
    BY EmptySeq
  <2>3. H!MetadataSent(d, H!Order.metadata[k]) = <<x>>
          \/ H!MetadataSent(d, H!Order.metadata[k]) = <<>>
    BY <2>1 DEF H!MetadataSent, H!Sent, SaidOf
  <2> QED
    BY <2>2, <2>3
<1>4. PICK ss : ss = [k \in 1 .. n |-> H!MetadataSent(d, H!Order.metadata[k])]
  OBVIOUS
<1>5. \A k \in 1 .. n : ss[k] = H!MetadataSent(d, H!Order.metadata[k]) /\ ss[k] \in Seq(E)
  BY <1>3, <1>4
<1>6. Len(ss) = n
  <2>1. ss \in [1 .. n -> Seq(E)]
    BY <1>3, <1>4
  <2> QED
    BY <2>1, SeqOfFunction
<1>7. PICK s : s = AllStream(d)
  OBVIOUS
<1>8. s = C!FlattenSeq(ss)
  BY <1>1, <1>4, <1>7, FlattenAlike DEF AllStream
<1>9. \A k \in 1 .. n : ss[k] \in Seq(E)
  BY <1>5
<1>10. PICK g : Joins(g, ss, n, E, s)
  BY ONLY n \in Nat \ {0}, <1>6, <1>8, <1>9, Flattened
<1> QED
  BY <1>1, <1>5, <1>7, <1>10

(* All the fields of the metadata are read back, with nothing left over.     *)
LEMMA AllBack ==
  ASSUME NEW d, AllUnderstood(d)
  PROVE  /\ AllStream(d) # <<>>
         /\ H!ReadMetadataFields(H!NewMetadata, AllStream(d)) = State(AllSoFar(d, 15), <<>>)
<1>1. PICK n \in Nat \ {0} : n = 15 /\ n = Len(H!Order.metadata)
  BY MetadataOrder
<1>2. PICK s, c : s = AllStream(d) /\ c = H!NewMetadata
  OBVIOUS
<1>3. PICK E, ss, g :
        /\ Joins(g, ss, n, E, s)
        /\ \A k \in 1 .. n : ss[k] = H!MetadataSent(d, H!Order.metadata[k]) /\ ss[k] \in Seq(E)
  BY <1>1, <1>2, AllPieces
<1>4. PICK f : AllReads(f, c, s, n) /\ H!ReadMetadataFields(c, s) = f[n]
  BY <1>1, AllReadsAre
<1>5. PICK X : X = [k \in 0 .. n |-> AllSoFar(d, k)]
  OBVIOUS
<1>6. f[0] = State(X[0], s)
  <2>1. f[0] = [ok |-> TRUE, b |-> c, rest |-> s]
    BY <1>4 DEF AllReads
  <2>2. AllSoFar(d, 0) = c
    BY <1>2, MixedFirst, NewFields DEF AllSoFar
  <2>3. 0 \in 0 .. n
    OBVIOUS
  <2> QED
    BY <1>5, <2>1, <2>2, <2>3 DEF State
<1>7. ASSUME NEW k \in 0 .. n - 1, NEW r \in Seq(E), f[k] = State(X[k], ss[k + 1] \o r)
      PROVE  f[k + 1] = State(X[k + 1], r)
  <2>1. PICK j \in 1 .. n : j = k + 1 /\ j - 1 = k /\ j \in 0 .. n /\ k \in 0 .. n /\ j # 0
    BY <1>7
  <2>2. f[j] = H!ReadMetadataField(f[k], H!Order.metadata[j])
    BY <1>4, <2>1 DEF AllReads
  <2>3. X[k] = AllSoFar(d, k) /\ X[j] = AllSoFar(d, j)
    BY <1>5, <2>1
  <2>4. ss[j] = H!MetadataSent(d, H!Order.metadata[j]) /\ ss[j] \in Seq(E)
    BY <1>3, <2>1
  <2>5. H!ReadMetadataField(State(AllSoFar(d, k), H!MetadataSent(d, H!Order.metadata[k + 1]) \o r),
                            H!Order.metadata[k + 1]) = State(AllSoFar(d, k + 1), r)
    <3>1. k \in 0 .. 14
      BY <1>1
    <3> QED
      BY <2>1, <2>4, <3>1, FieldTaken
  <2> QED
    BY <1>7, <2>1, <2>2, <2>3, <2>4, <2>5
<1>8. \A k \in 0 .. n - 1 : \A r \in Seq(E) :
        f[k] = State(X[k], ss[k + 1] \o r) => f[k + 1] = State(X[k + 1], r)
  BY <1>7
<1>9. f[n] = State(X[n], <<>>)
  BY ONLY n \in Nat \ {0}, <1>3, <1>6, <1>8, ReadAlong
<1>10. n \in 0 .. n /\ X[n] = AllSoFar(d, 15)
  <2>1. n \in 0 .. n
    OBVIOUS
  <2>2. X[n] = AllSoFar(d, n)
    BY <1>5, <2>1
  <2> QED
    BY <1>1, <2>1, <2>2
<1>11. s # <<>>
  <2>1. 1 \in 1 .. n /\ 1 \in 0 .. n /\ 1 - 1 = 0
    OBVIOUS
  <2>2. H!Visits(H!Order.metadata[1], d)
    BY MetadataOrder DEF H!Visits
  <2>3. PICK x : ss[1] = <<x>>
    BY <1>3, <2>1, <2>2 DEF H!MetadataSent, H!Sent
  <2>4. x \in E
    <3>1. <<x>> \in Seq(E)
      BY <1>3, <2>1, <2>3
    <3> QED
      BY <3>1
  <2>5. g[1] = <<x>>
    <3>1. g[1] = g[0] \o ss[1] /\ g[0] = <<>>
      BY <1>3, <2>1 DEF Joins
    <3>2. <<x>> \in Seq(E)
      BY <2>4
    <3> QED
      BY <2>3, <3>1, <3>2, ConcatEmptySeq
  <2>6. PICK r \in Seq(E) : g[1] \o r = s
    BY <1>3, <2>1 DEF Joins
  <2> QED
    BY <2>4, <2>5, <2>6, HeadOf
<1> QED
  BY <1>2, <1>4, <1>9, <1>10, <1>11

(* The extra channels of an image.                                           *)
Channels ==
  {c \in [type : Types \cup {"Alpha"}, bit_depth : {H!IntegerDepth(n) : n \in Int},
          dim_shift : Int, name : Int, alpha_associated : BOOLEAN, spot_color : {0},
          cfa_channel : Int] :
     /\ c.type # "Alpha" => c.alpha_associated = FALSE
     /\ c.type # "CFA" => c.cfa_channel = 1}

(* They are as callers leave them.                                           *)
LEMMA ChannelsGood ==
  ASSUME NEW c \in Channels PROVE GoodChannel(c)
<1>1. PICK n \in Int : c.bit_depth = H!IntegerDepth(n)
  BY DEF Channels
<1>2. c.bit_depth.bits = n
  BY <1>1 DEF H!IntegerDepth
<1>3. c = [type |-> c.type, bit_depth |-> c.bit_depth,
           dim_shift |-> c.dim_shift, name |-> c.name,
           alpha_associated |-> c.alpha_associated, spot_color |-> c.spot_color,
           cfa_channel |-> c.cfa_channel]
  BY DEF Channels
<1>4. c.spot_color = 0 /\ c.alpha_associated \in BOOLEAN
  BY DEF Channels
<1>5. c.type # "Alpha" => c.alpha_associated = FALSE
  BY DEF Channels
<1>6. c.type # "CFA" => c.cfa_channel = 1
  BY DEF Channels
<1> QED
  BY <1>1, <1>2, <1>3, <1>4, <1>5, <1>6 DEF GoodChannel

(* The metadata as callers leave it.                                         *)
GoodMetadata(b) ==
  /\ DOMAIN b = DOMAIN H!NewMetadata /\ b = [f \in DOMAIN H!NewMetadata |-> b[f]]
  /\ b.have_intrinsic_size \in BOOLEAN /\ b.have_preview \in BOOLEAN
  /\ b.have_animation \in BOOLEAN
  /\ b.intrinsic_size \in SizeRecords /\ b.preview_size \in PreviewRecords
  /\ b.animation \in AnimationRecords /\ b.bit_depth \in DepthRecords
  /\ b.extra_channel_info \in Seq(Channels)
  /\ \E t \in Int : b.tone_mapping = ToneOf(t)

(* What is written says so where it has to.                                  *)
WrittenFrom(d, b) ==
  /\ GoodMetadata(d)
  /\ d.extra_fields \in BOOLEAN
  /\ d.extra_fields <=>
       \/ d.orientation # 1 \/ d.have_preview \/ d.have_animation
       \/ d.have_intrinsic_size \/ d.tone_mapping # H!NewTone
  /\ d.num_extra_channels = Len(d.extra_channel_info)
  /\ \A f \in DOMAIN H!NewMetadata \ {"extra_fields", "num_extra_channels"} : d[f] = b[f]

(* It is.                                                                    *)
LEMMA ToWriteIs ==
  ASSUME NEW b, GoodMetadata(b)
  PROVE  WrittenFrom(H!ToWrite(b), b)
<1>1. PICK d, x, n : d = H!ToWrite(b) /\ x = H!ExtraFields(b) /\ n = Len(b.extra_channel_info)
  OBVIOUS
<1>2. d = [b EXCEPT !.extra_fields = x, !.num_extra_channels = n]
  BY <1>1 DEF H!ToWrite
<1>3. PICK D : D = DOMAIN H!NewMetadata /\ DOMAIN b = D
  BY DEF GoodMetadata
<1>4. d = [f \in D |-> CASE f = "extra_fields" -> x [] f = "num_extra_channels" -> n
                         [] OTHER -> b[f]]
  BY <1>2, <1>3
<1>5. \A f \in D \ {"extra_fields", "num_extra_channels"} : d[f] = b[f]
  BY <1>4
<1>6. d.extra_fields = x /\ d.num_extra_channels = n /\ DOMAIN d = D /\ d = [f \in D |-> d[f]]
  BY <1>3, <1>4, NewFields
<1>7. /\ d.have_intrinsic_size = b.have_intrinsic_size /\ d.have_preview = b.have_preview
      /\ d.have_animation = b.have_animation /\ d.intrinsic_size = b.intrinsic_size
      /\ d.preview_size = b.preview_size /\ d.animation = b.animation
      /\ d.bit_depth = b.bit_depth /\ d.extra_channel_info = b.extra_channel_info
      /\ d.tone_mapping = b.tone_mapping /\ d.orientation = b.orientation
  BY <1>3, <1>5, NewFields
<1>8. GoodMetadata(d)
  BY <1>3, <1>6, <1>7 DEF GoodMetadata
<1>9. x \in BOOLEAN
  BY <1>1 DEF H!ExtraFields
<1>10. x <=> \/ d.orientation # 1 \/ d.have_preview \/ d.have_animation
             \/ d.have_intrinsic_size \/ d.tone_mapping # H!NewTone
  BY <1>1, <1>7 DEF H!ExtraFields
<1> QED
  BY <1>1, <1>3, <1>5, <1>6, <1>7, <1>8, <1>9, <1>10 DEF WrittenFrom

(* What is asked for.                                                        *)
LEMMA MetadataVisits ==
  ASSUME NEW b
  PROVE  /\ H!Visits("extra_fields", b) /\ H!Visits("bit_depth", b)
         /\ H!Visits("modular_16_bit_buffer_sufficient", b) /\ H!Visits("num_extra_channels", b)
         /\ H!Visits("xyb_encoded", b) /\ H!Visits("color_encoding", b)
         /\ \A f \in {"orientation", "have_intrinsic_size", "have_preview", "have_animation",
                      "tone_mapping"} : H!Visits(f, b) <=> b.extra_fields
         /\ H!Visits("intrinsic_size", b) <=> b.extra_fields /\ b.have_intrinsic_size
         /\ H!Visits("preview_size", b) <=> b.extra_fields /\ b.have_preview
         /\ H!Visits("animation", b) <=> b.extra_fields /\ b.have_animation
         /\ H!Visits("extra_channel_info", b) <=> b.num_extra_channels # 0
BY DEF H!Visits

(* Fields that are not bundles.                                              *)
Plain == {"extra_fields", "orientation", "have_intrinsic_size", "have_preview",
          "have_animation", "modular_16_bit_buffer_sufficient", "num_extra_channels",
          "xyb_encoded", "color_encoding"}

(* They are taken as they are.                                               *)
LEMMA PlainTaken ==
  ASSUME NEW d, NEW f \in Plain
  PROVE  TakenOf(d, f).b = d[f] /\ (TakenOf(d, f).ok <=> H!Fits(f, d[f]))
<1>1. SaidOf(d, f) = d[f]
  BY DEF SaidOf, H!NestedStream, Plain
<1>2. PICK a, v : a = H!NewMetadata[f] /\ v = d[f]
  OBVIOUS
<1>3. H!ReadNested(f, a, v) = [ok |-> H!Fits(f, v), b |-> v]
  BY DEF H!ReadNested, Plain
<1>4. H!ReadNested(f, a, v).b = v
  BY <1>3
<1>5. H!ReadNested(f, a, v).ok <=> H!Fits(f, v)
  <2>1. [ok |-> H!Fits(f, v), b |-> v].ok = H!Fits(f, v)
    BY Zenon
  <2> QED
    BY <1>3, <2>1
<1> QED
  BY <1>1, <1>2, <1>4, <1>5 DEF TakenOf

(* What a nested bundle becomes on the way.                                  *)
Arrived(f, v, b) ==
  /\ f = "intrinsic_size" => H!SizeX(b) = H!SizeX(v) /\ H!SizeY(b) = H!SizeY(v)
  /\ f = "preview_size" => H!PreviewX(b) = H!PreviewX(v) /\ H!PreviewY(b) = H!PreviewY(v)
  /\ f = "animation" => b = v
  /\ f = "bit_depth" => b = H!Normal("depth", v)
  /\ f = "extra_channel_info" => b = v
  /\ f = "tone_mapping" => \A t \in Int : v = ToneOf(t) => b = ToneOf(H!Half(t))
  /\ f \in Plain => b = v

(* Whatever can be written is taken, and arrives.                            *)
FieldArrives(d, f) == TakenOf(d, f).ok /\ Arrived(f, d[f], TakenOf(d, f).b)

(* Field by field.                                                           *)
LEMMA FieldArrivesIf ==
  ASSUME NEW d, GoodMetadata(d), NEW f \in DOMAIN H!NewMetadata, H!NestedOk(f, d)
  PROVE  FieldArrives(d, f)
<1>1. CASE f = "intrinsic_size"
  <2>1. PICK v, a : v = d.intrinsic_size /\ a = H!NewMetadata.intrinsic_size
    OBVIOUS
  <2>2. v \in SizeRecords /\ a = H!NewSize
    BY <2>1 DEF GoodMetadata, H!NewMetadata
  <2>3. H!LeafOk("size", v)
    BY <1>1, <2>1 DEF H!NestedOk
  <2>4. SaidOf(d, f) = H!LeafStream("size", v)
    BY <1>1, <2>1 DEF SaidOf, H!NestedStream
  <2>5. TakenOf(d, f) = H!ReadLeaf("size", H!NewSize, H!LeafStream("size", v))
    BY <1>1, <2>1, <2>2, <2>4 DEF TakenOf, H!ReadNested
  <2> QED
    BY <1>1, <2>1, <2>2, <2>3, <2>5, SizeBack DEF FieldArrives, Arrived, Plain
<1>2. CASE f = "preview_size"
  <2>1. PICK v, a : v = d.preview_size /\ a = H!NewMetadata.preview_size
    OBVIOUS
  <2>2. v \in PreviewRecords /\ a = H!NewPreview
    BY <2>1 DEF GoodMetadata, H!NewMetadata
  <2>3. H!LeafOk("preview", v)
    BY <1>2, <2>1 DEF H!NestedOk
  <2>4. SaidOf(d, f) = H!LeafStream("preview", v)
    BY <1>2, <2>1 DEF SaidOf, H!NestedStream
  <2>5. TakenOf(d, f) = H!ReadLeaf("preview", H!NewPreview, H!LeafStream("preview", v))
    BY <1>2, <2>1, <2>2, <2>4 DEF TakenOf, H!ReadNested
  <2> QED
    BY <1>2, <2>1, <2>2, <2>3, <2>5, PreviewBack DEF FieldArrives, Arrived, Plain
<1>3. CASE f = "animation"
  <2>1. PICK v, a : v = d.animation /\ a = H!NewMetadata.animation
    OBVIOUS
  <2>2. v \in AnimationRecords /\ a = H!NewAnimation
    BY <2>1 DEF GoodMetadata, H!NewMetadata
  <2>3. H!LeafOk("animation", v)
    BY <1>3, <2>1 DEF H!NestedOk
  <2>4. SaidOf(d, f) = H!LeafStream("animation", v)
    BY <1>3, <2>1 DEF SaidOf, H!NestedStream
  <2>5. TakenOf(d, f) = H!ReadLeaf("animation", H!NewAnimation, H!LeafStream("animation", v))
    BY <1>3, <2>1, <2>2, <2>4 DEF TakenOf, H!ReadNested
  <2> QED
    BY <1>3, <2>1, <2>2, <2>3, <2>5, AnimationBack DEF FieldArrives, Arrived, Plain
<1>4. CASE f = "bit_depth"
  <2>1. PICK v, a : v = d.bit_depth /\ a = H!NewMetadata.bit_depth
    OBVIOUS
  <2>2. v \in DepthRecords /\ a = H!NewDepth
    BY <2>1 DEF GoodMetadata, H!NewMetadata
  <2>3. H!LeafOk("depth", v)
    BY <1>4, <2>1 DEF H!NestedOk
  <2>4. SaidOf(d, f) = H!LeafStream("depth", v)
    BY <1>4, <2>1 DEF SaidOf, H!NestedStream
  <2>5. TakenOf(d, f) = H!ReadLeaf("depth", H!NewDepth, H!LeafStream("depth", v))
    BY <1>4, <2>1, <2>2, <2>4 DEF TakenOf, H!ReadNested
  <2> QED
    BY <1>4, <2>1, <2>2, <2>3, <2>5, DepthBack DEF FieldArrives, Arrived, Plain
<1>5. CASE f = "tone_mapping"
  <2>1. PICK v, a : v = d.tone_mapping /\ a = H!NewMetadata.tone_mapping
    OBVIOUS
  <2>2. a = H!NewTone
    BY <2>1 DEF H!NewMetadata
  <2>3. H!LeafOk("tone", v)
    BY <1>5, <2>1 DEF H!NestedOk
  <2>4. SaidOf(d, f) = H!ToneStream(v)
    BY <1>5, <2>1 DEF SaidOf, H!NestedStream
  <2>5. TakenOf(d, f) = H!ReadTone(H!NewTone, H!ToneStream(v))
    BY <1>5, <2>1, <2>2, <2>4 DEF TakenOf, H!ReadNested
  <2>6. PICK r : r = TakenOf(d, f)
    OBVIOUS
  <2>7. ASSUME NEW t \in Int, v = ToneOf(t) PROVE r.ok /\ r.b = ToneOf(H!Half(t))
    BY <2>3, <2>5, <2>6, <2>7, ToneBack
  <2>8. \E t \in Int : v = ToneOf(t)
    BY <2>1 DEF GoodMetadata
  <2> QED
    BY <1>5, <2>1, <2>6, <2>7, <2>8 DEF FieldArrives, Arrived, Plain
<1>6. CASE f = "extra_channel_info"
  <2>1. PICK v, a : v = d.extra_channel_info /\ a = H!NewMetadata.extra_channel_info
    OBVIOUS
  <2>2. v \in Seq(Channels) /\ a = <<>>
    BY <2>1 DEF GoodMetadata, H!NewMetadata
  <2>3. \A i \in DOMAIN v : H!ChannelOk(v[i])
    BY <1>6, <2>1 DEF H!NestedOk
  <2>4. SaidOf(d, f) = [i \in DOMAIN v |-> H!ChannelStream(v[i])]
    BY <1>6, <2>1 DEF SaidOf, H!NestedStream
  <2>5. TakenOf(d, f) = H!ReadChannels(<<>>, [i \in DOMAIN v |-> H!ChannelStream(v[i])])
    BY <1>6, <2>1, <2>2, <2>4 DEF TakenOf, H!ReadNested
  <2>6. DOMAIN v \subseteq Nat \ {0} /\ v = [i \in DOMAIN v |-> v[i]]
    <3>1. DOMAIN v = 1 .. Len(v) /\ Len(v) \in Nat
      BY <2>2
    <3> QED
      BY <2>2, <3>1
  <2>7. \A i \in DOMAIN v : GoodChannel(v[i])
    <3>1. \A i \in DOMAIN v : v[i] \in Channels
      BY <2>2
    <3> QED
      BY <3>1, ChannelsGood
  <2> QED
    BY <1>6, <2>1, <2>3, <2>5, <2>6, <2>7, ChannelsBack DEF FieldArrives, Arrived, Plain
<1>7. CASE f \in Plain
  <2>1. H!Fits(f, d[f])
    BY <1>7 DEF H!NestedOk, Plain
  <2> QED
    BY <1>7, <2>1, PlainTaken DEF FieldArrives, Arrived, Plain
<1> QED
  BY <1>1, <1>2, <1>3, <1>4, <1>5, <1>6, <1>7, NewFields DEF Plain

(* A field of the metadata after k have been read.                           *)
ReadAt(d, j, k) ==
  AllSoFar(d, k)[H!Order.metadata[j]] =
    IF j <= k /\ H!Visits(H!Order.metadata[j], d)
    THEN TakenOf(d, H!Order.metadata[j]).b ELSE H!NewMetadata[H!Order.metadata[j]]

(* Any of them, after any number.                                            *)
LEMMA ReadsAt ==
  ASSUME NEW d, NEW k \in 0 .. 15 PROVE \A j \in 1 .. 15 : ReadAt(d, j, k)
BY SMTT(40), NotYet DEF ReadAt

(* The fields that say what else there is are known when they are needed.    *)
LEMMA KnownInTime ==
  ASSUME NEW d, NEW k \in 0 .. 14
  PROVE  /\ k >= 1 => AllSoFar(d, k).extra_fields = d.extra_fields
         /\ k >= 3 /\ d.extra_fields =>
              AllSoFar(d, k).have_intrinsic_size = d.have_intrinsic_size
         /\ k >= 5 /\ d.extra_fields => AllSoFar(d, k).have_preview = d.have_preview
         /\ k >= 7 /\ d.extra_fields => AllSoFar(d, k).have_animation = d.have_animation
         /\ k >= 11 => AllSoFar(d, k).num_extra_channels = d.num_extra_channels
<1>1. \A j \in 1 .. 15 : ReadAt(d, j, k)
  BY ReadsAt
<1>2. /\ TakenOf(d, "extra_fields").b = d.extra_fields
      /\ TakenOf(d, "have_intrinsic_size").b = d.have_intrinsic_size
      /\ TakenOf(d, "have_preview").b = d.have_preview
      /\ TakenOf(d, "have_animation").b = d.have_animation
      /\ TakenOf(d, "num_extra_channels").b = d.num_extra_channels
  BY PlainTaken DEF Plain
<1>3. ReadAt(d, 1, k) /\ ReadAt(d, 3, k) /\ ReadAt(d, 5, k) /\ ReadAt(d, 7, k) /\ ReadAt(d, 11, k)
  BY <1>1
<1>4. k >= 1 => AllSoFar(d, k).extra_fields = d.extra_fields
  BY <1>2, <1>3, MetadataOrder, MetadataVisits DEF ReadAt
<1>5. k >= 3 /\ d.extra_fields => AllSoFar(d, k).have_intrinsic_size = d.have_intrinsic_size
  BY <1>2, <1>3, MetadataOrder, MetadataVisits DEF ReadAt
<1>6. k >= 5 /\ d.extra_fields => AllSoFar(d, k).have_preview = d.have_preview
  BY <1>2, <1>3, MetadataOrder, MetadataVisits DEF ReadAt
<1>7. k >= 7 /\ d.extra_fields => AllSoFar(d, k).have_animation = d.have_animation
  BY <1>2, <1>3, MetadataOrder, MetadataVisits DEF ReadAt
<1>8. k >= 11 => AllSoFar(d, k).num_extra_channels = d.num_extra_channels
  BY <1>2, <1>3, MetadataOrder, MetadataVisits DEF ReadAt
<1> QED
  BY <1>4, <1>5, <1>6, <1>7, <1>8

(* So that the reader asks for what was sent.                                *)
LEMMA MetadataAsked ==
  ASSUME NEW d, NEW k \in 0 .. 14
  PROVE  H!Visits(H!Order.metadata[k + 1], AllSoFar(d, k)) <=> H!Visits(H!Order.metadata[k + 1], d)
<1>1. PICK b : b = AllSoFar(d, k)
  OBVIOUS
<1>2. /\ k >= 1 => b.extra_fields = d.extra_fields
      /\ k >= 3 /\ d.extra_fields => b.have_intrinsic_size = d.have_intrinsic_size
      /\ k >= 5 /\ d.extra_fields => b.have_preview = d.have_preview
      /\ k >= 7 /\ d.extra_fields => b.have_animation = d.have_animation
      /\ k >= 11 => b.num_extra_channels = d.num_extra_channels
  BY <1>1, KnownInTime
<1>3. PICK P : P = H!Order.metadata
  OBVIOUS
<1>4. PICK j \in 1 .. 15 : j = k + 1
  OBVIOUS
<1>5. \/ j = 1 \/ j = 2 \/ j = 3 \/ j = 4 \/ j = 5 \/ j = 6 \/ j = 7 \/ j = 8 \/ j = 9
      \/ j = 10 \/ j = 11 \/ j = 12 \/ j = 13 \/ j = 14 \/ j = 15
  OBVIOUS
<1>6. CASE j = 1 \/ j = 9 \/ j = 10 \/ j = 11 \/ j = 13 \/ j = 14
  <2>1. P[j] \in {"extra_fields", "bit_depth", "modular_16_bit_buffer_sufficient",
                  "num_extra_channels", "xyb_encoded", "color_encoding"}
    BY <1>3, <1>6, MetadataOrder
  <2>2. H!Visits(P[j], b) /\ H!Visits(P[j], d)
    BY <2>1, MetadataVisits
  <2> QED
    BY <1>1, <1>3, <1>4, <2>2
<1>7. CASE j = 2 \/ j = 3 \/ j = 5 \/ j = 7 \/ j = 15
  <2>1. P[j] \in {"orientation", "have_intrinsic_size", "have_preview", "have_animation",
                  "tone_mapping"}
    BY <1>3, <1>7, MetadataOrder
  <2>2. (H!Visits(P[j], b) <=> b.extra_fields) /\ (H!Visits(P[j], d) <=> d.extra_fields)
    BY <2>1, MetadataVisits
  <2> QED
    BY <1>1, <1>2, <1>3, <1>4, <1>7, <2>2
<1>8. CASE j = 4
  <2>1. P[j] = "intrinsic_size" /\ k >= 1 /\ k >= 3
    BY <1>3, <1>4, <1>8, MetadataOrder
  <2> QED
    BY <1>1, <1>2, <1>3, <1>4, <2>1, MetadataVisits
<1>9. CASE j = 6
  <2>1. P[j] = "preview_size" /\ k >= 1 /\ k >= 5
    BY <1>3, <1>4, <1>9, MetadataOrder
  <2> QED
    BY <1>1, <1>2, <1>3, <1>4, <2>1, MetadataVisits
<1>10. CASE j = 8
  <2>1. P[j] = "animation" /\ k >= 1 /\ k >= 7
    BY <1>3, <1>4, <1>10, MetadataOrder
  <2> QED
    BY <1>1, <1>2, <1>3, <1>4, <2>1, MetadataVisits
<1>11. CASE j = 12
  <2>1. P[j] = "extra_channel_info" /\ k >= 11
    BY <1>3, <1>4, <1>11, MetadataOrder
  <2> QED
    BY <1>1, <1>2, <1>3, <1>4, <2>1, MetadataVisits
<1> QED
  BY <1>5, <1>6, <1>7, <1>8, <1>9, <1>10, <1>11

(* What can be written arrives, ...                                          *)
LEMMA Arrives ==
  ASSUME NEW d, GoodMetadata(d), H!CanWrite(d), NEW j \in 1 .. 15,
         H!Visits(H!Order.metadata[j], d)
  PROVE  FieldArrives(d, H!Order.metadata[j])
<1>1. H!Order["metadata"] = H!Order.metadata /\ j \in 1 .. Len(H!Order["metadata"])
  BY MetadataOrder
<1>2. H!Order.metadata[j] \in H!Visited("metadata", d)
  BY <1>1, MetadataOrder, VisitedAre
<1>3. H!NestedOk(H!Order.metadata[j], d)
  BY <1>2 DEF H!CanWrite
<1>4. H!Order.metadata[j] \in DOMAIN H!NewMetadata
  BY NewFields
<1> QED
  BY <1>3, <1>4, FieldArrivesIf

(* ... all of it.                                                            *)
LEMMA MetadataUnderstood ==
  ASSUME NEW d, GoodMetadata(d), H!CanWrite(d)
  PROVE  AllUnderstood(d)
<1>1. ASSUME NEW k \in 1 .. 15, H!Visits(H!Order.metadata[k], d)
      PROVE  TakenOf(d, H!Order.metadata[k]).ok
  BY <1>1, Arrives DEF FieldArrives
<1> QED
  BY <1>1, MetadataAsked DEF AllUnderstood

(* What is read of all that was written: field by field, what was sent or    *)
(* what is new.                                                              *)
Received(d, b) ==
  \A f \in DOMAIN H!NewMetadata :
    IF H!Visits(f, d) THEN Arrived(f, d[f], b[f]) ELSE b[f] = H!NewMetadata[f]

(* After the last field.                                                     *)
LEMMA AllReceived ==
  ASSUME NEW d, GoodMetadata(d), H!CanWrite(d)
  PROVE  Received(d, AllSoFar(d, 15))
<1> SUFFICES ASSUME NEW f \in DOMAIN H!NewMetadata
             PROVE  IF H!Visits(f, d) THEN Arrived(f, d[f], AllSoFar(d, 15)[f])
                    ELSE AllSoFar(d, 15)[f] = H!NewMetadata[f]
  BY DEF Received
<1>1. PICK j \in 1 .. 15 : f = H!Order.metadata[j]
  BY MetadataOrder, NewFields
<1>2. ReadAt(d, j, 15)
  <2>1. 15 \in 0 .. 15
    OBVIOUS
  <2> QED
    BY <2>1, ReadsAt
<1>3. H!Visits(f, d) => Arrived(f, d[f], TakenOf(d, f).b)
  BY <1>1, Arrives DEF FieldArrives
<1>4. j <= 15
  OBVIOUS
<1> QED
  BY <1>1, <1>2, <1>3, <1>4 DEF ReadAt

(* The same of what is written: an empty stream if all is as in a new object. *)
LEMMA WrittenBack ==
  ASSUME NEW d, GoodMetadata(d), H!CanWrite(d)
  PROVE  LET r == H!ReadImageMetadata(H!NewMetadata, H!StreamOf(d))
         IN  /\ r.ok /\ r.rest = <<>>
             /\ IF H!MetadataDefault(d) THEN r.b = H!NewMetadata ELSE Received(d, r.b)
<1>1. CASE H!MetadataDefault(d)
  <2>1. H!StreamOf(d) = <<>>
    BY <1>1 DEF H!StreamOf
  <2>2. PICK r : r = H!ReadImageMetadata(H!NewMetadata, H!StreamOf(d))
    OBVIOUS
  <2>3. r = [ok |-> TRUE, b |-> H!NewMetadata, rest |-> <<>>]
    BY <2>1, <2>2 DEF H!ReadImageMetadata
  <2>4. r.ok /\ r.rest = <<>> /\ r.b = H!NewMetadata
    BY <2>3
  <2> QED
    BY <1>1, <2>2, <2>4
<1>2. CASE ~H!MetadataDefault(d)
  <2>1. H!StreamOf(d) = AllStream(d)
    BY <1>2 DEF H!StreamOf, AllStream
  <2>2. PICK r : r = H!ReadImageMetadata(H!NewMetadata, H!StreamOf(d))
    OBVIOUS
  <2>3. AllUnderstood(d)
    BY MetadataUnderstood
  <2>4. r = State(AllSoFar(d, 15), <<>>)
    BY <2>1, <2>2, <2>3, AllBack DEF H!ReadImageMetadata
  <2>5. r.ok /\ r.rest = <<>> /\ r.b = AllSoFar(d, 15)
    BY <2>4 DEF State
  <2> QED
    BY <1>2, <2>2, <2>5, AllReceived
<1> QED
  BY <1>1, <1>2

(* An intensity can be halved in place.                                      *)
LEMMA ToneHalved ==
  ASSUME NEW t \in Int
  PROVE  [ToneOf(t) EXCEPT !.intensity_target = H!Half(@)] = ToneOf(H!Half(t))
<1>1. PICK c, d, h : c = H!NewTone /\ d = ToneOf(t) /\ h = H!Half(t)
  OBVIOUS
<1>2. DOMAIN c = {"intensity_target", "min_nits", "relative_to_max_display", "linear_below"}
  BY <1>1, ToneFields
<1>3. d = [c EXCEPT !.intensity_target = t]
  BY <1>1 DEF ToneOf
<1>4. d = [f \in DOMAIN c |-> IF f = "intensity_target" THEN t ELSE c[f]]
  BY <1>3, Zenon
<1>5. d.intensity_target = t /\ DOMAIN d = DOMAIN c
      /\ \A f \in DOMAIN c : f # "intensity_target" => d[f] = c[f]
  BY <1>2, <1>4
<1>6. [d EXCEPT !.intensity_target = H!Half(@)] = [d EXCEPT !.intensity_target = h]
  BY <1>1, <1>5
<1>7. [d EXCEPT !.intensity_target = h] = [f \in DOMAIN d |-> IF f = "intensity_target" THEN h ELSE d[f]]
  BY Zenon
<1>8. [c EXCEPT !.intensity_target = h] = [f \in DOMAIN c |-> IF f = "intensity_target" THEN h ELSE c[f]]
  BY Zenon
<1>9. \A f \in DOMAIN c : (IF f = "intensity_target" THEN h ELSE d[f])
                            = (IF f = "intensity_target" THEN h ELSE c[f])
  BY <1>5
<1>10. [f \in DOMAIN d |-> IF f = "intensity_target" THEN h ELSE d[f]]
         = [f \in DOMAIN c |-> IF f = "intensity_target" THEN h ELSE c[f]]
  BY <1>5, <1>9
<1> QED
  BY <1>1, <1>6, <1>7, <1>8, <1>10 DEF ToneOf

(* The metadata that comes back, in either case.                             *)
CameBack(d, a) == IF H!MetadataDefault(d) THEN a = H!NewMetadata ELSE Received(d, a)

(* Fields that are not bundles.                                              *)
LEMMA PlainBack ==
  ASSUME NEW d, NEW b, WrittenFrom(d, b), NEW a, CameBack(d, a), NEW f \in Plain
  PROVE  d[f] = a[f]
<1>1. f \in DOMAIN H!NewMetadata
  BY NewFields DEF Plain
<1>2. CASE H!Visits(f, d)
  <2>1. CASE H!MetadataDefault(d)
    <3>1. H!Order["metadata"] = H!Order.metadata /\ Len(H!Order.metadata) = 15
      BY MetadataOrder
    <3>2. PICK j \in 1 .. 15 : f = H!Order.metadata[j]
      BY <1>1, MetadataOrder, NewFields
    <3>3. f \in H!Visited("metadata", d)
      BY <1>2, <3>1, <3>2, MetadataOrder, VisitedAre
    <3>4. f # "bit_depth"
      BY DEF Plain
    <3>5. d[f] = H!NewMetadata[f]
      BY <2>1, <3>3, <3>4 DEF H!MetadataDefault
    <3> QED
      BY <2>1, <3>5 DEF CameBack
  <2>2. CASE ~H!MetadataDefault(d)
    <3>1. Arrived(f, d[f], a[f])
      BY <1>1, <1>2, <2>2 DEF CameBack, Received
    <3> QED
      BY <3>1 DEF Arrived
  <2> QED
    BY <2>1, <2>2
<1>3. CASE ~H!Visits(f, d)
  <2>1. f \in {"orientation", "have_intrinsic_size", "have_preview", "have_animation"}
        /\ ~d.extra_fields
    BY <1>3, MetadataVisits DEF Plain
  <2>2. d.orientation = 1 /\ d.have_intrinsic_size = FALSE /\ d.have_preview = FALSE
        /\ d.have_animation = FALSE
    BY <2>1 DEF WrittenFrom, GoodMetadata
  <2>3. a[f] = H!NewMetadata[f]
    BY <1>1, <1>3 DEF CameBack, Received
  <2>4. d[f] = H!NewMetadata[f]
    <3>1. H!NewMetadata.orientation = 1 /\ H!NewMetadata.have_intrinsic_size = FALSE
          /\ H!NewMetadata.have_preview = FALSE /\ H!NewMetadata.have_animation = FALSE
      BY DEF H!NewMetadata
    <3> QED
      BY <2>1, <2>2, <3>1
  <2> QED
    BY <2>3, <2>4
<1> QED
  BY <1>2, <1>3

(* Without extra fields there are none of the things they are about.         *)
LEMMA NoExtras ==
  ASSUME NEW d, NEW b, WrittenFrom(d, b), ~d.extra_fields
  PROVE  /\ ~d.have_intrinsic_size /\ ~d.have_preview /\ ~d.have_animation
         /\ d.tone_mapping = H!NewTone
BY DEF WrittenFrom

(* Bundles that are always written, or when there is something to say.       *)
LEMMA NestedBack ==
  ASSUME NEW d, NEW b, WrittenFrom(d, b), NEW a, CameBack(d, a)
  PROVE  /\ H!Normal("depth", d.bit_depth) = a.bit_depth
         /\ d.extra_channel_info = a.extra_channel_info
         /\ [d.tone_mapping EXCEPT !.intensity_target = H!Half(@)] = a.tone_mapping
         /\ d.have_animation => d.animation = a.animation
         /\ d.have_intrinsic_size =>
              /\ H!SizeX(d.intrinsic_size) = H!SizeX(a.intrinsic_size)
              /\ H!SizeY(d.intrinsic_size) = H!SizeY(a.intrinsic_size)
         /\ d.have_preview =>
              /\ H!PreviewX(d.preview_size) = H!PreviewX(a.preview_size)
              /\ H!PreviewY(d.preview_size) = H!PreviewY(a.preview_size)
<1>1. H!NewMetadata.bit_depth = H!NewDepth /\ H!NewMetadata.extra_channel_info = <<>>
      /\ H!NewMetadata.tone_mapping = H!NewTone
  BY DEF H!NewMetadata
<1>2. H!MetadataDefault(d) => ~d.extra_fields /\ a = H!NewMetadata
  BY DEF H!MetadataDefault, CameBack
<1>3. H!Normal("depth", d.bit_depth) = a.bit_depth
  <2>1. CASE H!MetadataDefault(d)
    BY <1>1, <1>2, <2>1 DEF H!MetadataDefault
  <2>2. CASE ~H!MetadataDefault(d)
    <3>1. Arrived("bit_depth", d.bit_depth, a.bit_depth)
      BY <2>2, MetadataVisits, NewFields DEF CameBack, Received
    <3> QED
      BY <3>1 DEF Arrived
  <2> QED
    BY <2>1, <2>2
<1>4. d.extra_channel_info = a.extra_channel_info
  <2>1. PICK n \in Nat : n = Len(d.extra_channel_info) /\ n = d.num_extra_channels
    BY DEF WrittenFrom, GoodMetadata
  <2>2. CASE n = 0
    <3>1. d.extra_channel_info = <<>>
      BY <2>1, <2>2 DEF WrittenFrom, GoodMetadata
    <3>2. ~H!Visits("extra_channel_info", d)
      BY <2>1, <2>2, MetadataVisits
    <3>3. a.extra_channel_info = <<>>
      BY <1>1, <1>2, <3>2, NewFields DEF CameBack, Received
    <3> QED
      BY <3>1, <3>3
  <2>3. CASE n # 0
    <3>1. H!Visits("extra_channel_info", d)
      BY <2>1, <2>3, MetadataVisits
    <3>2. ~H!MetadataDefault(d)
      <4>1. d.num_extra_channels = a.num_extra_channels
        BY PlainBack DEF Plain
      <4>2. H!NewMetadata.num_extra_channels = 0
        BY DEF H!NewMetadata
      <4> QED
        BY <1>2, <2>1, <2>3, <4>1, <4>2
    <3>3. Arrived("extra_channel_info", d.extra_channel_info, a.extra_channel_info)
      BY <3>1, <3>2, NewFields DEF CameBack, Received
    <3> QED
      BY <3>3 DEF Arrived
  <2> QED
    BY <2>2, <2>3
<1>5. [d.tone_mapping EXCEPT !.intensity_target = H!Half(@)] = a.tone_mapping
  <2>1. PICK t \in Int : d.tone_mapping = ToneOf(t)
    BY DEF WrittenFrom, GoodMetadata
  <2>2. CASE d.extra_fields
    <3>1. H!Visits("tone_mapping", d) /\ ~H!MetadataDefault(d)
      BY <1>2, <2>2, MetadataVisits
    <3>2. Arrived("tone_mapping", d.tone_mapping, a.tone_mapping)
      BY <3>1, NewFields DEF CameBack, Received
    <3>3. a.tone_mapping = ToneOf(H!Half(t))
      BY <2>1, <3>2 DEF Arrived
    <3> QED
      BY <2>1, <3>3, ToneHalved
  <2>3. CASE ~d.extra_fields
    <3>1. d.tone_mapping = H!NewTone
      BY <2>3, NoExtras
    <3>2. t = 255
      <4>1. ToneOf(t).intensity_target = t
        BY ToneFields
      <4>2. H!NewTone.intensity_target = 255
        BY DEF H!NewTone
      <4> QED
        BY <2>1, <3>1, <4>1, <4>2
    <3>3. H!Half(t) = t
      BY <3>2, HalfSmall
    <3>4. ~H!Visits("tone_mapping", d)
      BY <2>3, MetadataVisits
    <3>5. a.tone_mapping = H!NewTone
      BY <1>1, <1>2, <3>4, NewFields DEF CameBack, Received
    <3> QED
      BY <2>1, <3>1, <3>3, <3>5, ToneHalved
  <2> QED
    BY <2>2, <2>3
<1>6. d.have_animation => d.animation = a.animation
  <2> SUFFICES ASSUME d.have_animation PROVE d.animation = a.animation
    OBVIOUS
  <2>1. d.extra_fields
    BY NoExtras
  <2>2. H!Visits("animation", d) /\ ~H!MetadataDefault(d)
    BY <1>2, <2>1, MetadataVisits
  <2>3. Arrived("animation", d.animation, a.animation)
    BY <2>2, NewFields DEF CameBack, Received
  <2> QED
    BY <2>3 DEF Arrived
<1>7. d.have_intrinsic_size =>
        /\ H!SizeX(d.intrinsic_size) = H!SizeX(a.intrinsic_size)
        /\ H!SizeY(d.intrinsic_size) = H!SizeY(a.intrinsic_size)
  <2> SUFFICES ASSUME d.have_intrinsic_size
               PROVE  /\ H!SizeX(d.intrinsic_size) = H!SizeX(a.intrinsic_size)
                      /\ H!SizeY(d.intrinsic_size) = H!SizeY(a.intrinsic_size)
    OBVIOUS
  <2>1. d.extra_fields
    BY NoExtras
  <2>2. H!Visits("intrinsic_size", d) /\ ~H!MetadataDefault(d)
    BY <1>2, <2>1, MetadataVisits
  <2>3. Arrived("intrinsic_size", d.intrinsic_size, a.intrinsic_size)
    BY <2>2, NewFields DEF CameBack, Received
  <2> QED
    BY <2>3 DEF Arrived
<1>8. d.have_preview =>
        /\ H!PreviewX(d.preview_size) = H!PreviewX(a.preview_size)
        /\ H!PreviewY(d.preview_size) = H!PreviewY(a.preview_size)
  <2> SUFFICES ASSUME d.have_preview
               PROVE  /\ H!PreviewX(d.preview_size) = H!PreviewX(a.preview_size)
                      /\ H!PreviewY(d.preview_size) = H!PreviewY(a.preview_size)
    OBVIOUS
  <2>1. d.extra_fields
    BY NoExtras
  <2>2. H!Visits("preview_size", d) /\ ~H!MetadataDefault(d)
    BY <1>2, <2>1, MetadataVisits
  <2>3. Arrived("preview_size", d.preview_size, a.preview_size)
    BY <2>2, NewFields DEF CameBack, Received
  <2> QED
    BY <2>3 DEF Arrived
<1> QED
  BY <1>3, <1>4, <1>5, <1>6, <1>7, <1>8

(* The metadata and what was last set.                                       *)
PreviewKnown(b) ==
  b.have_preview => <<H!PreviewX(b.preview_size), H!PreviewY(b.preview_size)>> = previewed

(* What comes back is equal to what was written.                             *)
LEMMA EqualBack ==
  ASSUME NEW b, GoodMetadata(b), PreviewKnown(b), H!CanWrite(H!ToWrite(b)), H!AlphaIs(b)
  PROVE  LET r == H!ReadImageMetadata(H!NewMetadata, H!StreamOf(H!ToWrite(b)))
         IN  r.ok /\ r.rest = <<>> /\ H!Equal(H!ToWrite(b), r.b) /\ H!AlphaIs(r.b)
<1>1. PICK d, r : d = H!ToWrite(b) /\ r = H!ReadImageMetadata(H!NewMetadata, H!StreamOf(d))
  OBVIOUS
<1>2. WrittenFrom(d, b) /\ GoodMetadata(d)
  BY <1>1, ToWriteIs DEF WrittenFrom
<1>3. r.ok /\ r.rest = <<>> /\ CameBack(d, r.b)
  BY <1>1, <1>2, WrittenBack DEF CameBack
<1>4. PICK a : a = r.b /\ CameBack(d, a)
  BY <1>3
<1>5. \A f \in DOMAIN d \ {"intrinsic_size", "preview_size", "animation",
                           "tone_mapping", "bit_depth", "extra_channel_info"} : d[f] = a[f]
  <2>1. ASSUME NEW f \in DOMAIN d \ {"intrinsic_size", "preview_size", "animation",
                                     "tone_mapping", "bit_depth", "extra_channel_info"}
        PROVE  f \in Plain
    BY <1>2, NewFields DEF GoodMetadata, Plain
  <2> QED
    BY <1>2, <1>4, <2>1, PlainBack
<1>6. /\ H!Normal("depth", d.bit_depth) = a.bit_depth
      /\ d.extra_channel_info = a.extra_channel_info
      /\ [d.tone_mapping EXCEPT !.intensity_target = H!Half(@)] = a.tone_mapping
      /\ d.have_animation => d.animation = a.animation
      /\ d.have_intrinsic_size =>
           /\ H!SizeX(d.intrinsic_size) = H!SizeX(a.intrinsic_size)
           /\ H!SizeY(d.intrinsic_size) = H!SizeY(a.intrinsic_size)
      /\ d.have_preview =>
           /\ H!PreviewX(d.preview_size) = H!PreviewX(a.preview_size)
           /\ H!PreviewY(d.preview_size) = H!PreviewY(a.preview_size)
  BY <1>2, <1>4, NestedBack
<1>7. /\ d.have_preview = b.have_preview /\ d.preview_size = b.preview_size
      /\ d.extra_channel_info = b.extra_channel_info
  BY <1>2, NewFields DEF WrittenFrom
<1>8. d.have_preview => <<H!PreviewX(a.preview_size), H!PreviewY(a.preview_size)>> = previewed
  BY <1>6, <1>7 DEF PreviewKnown
<1>9. H!Equal(d, a)
  BY <1>5, <1>6, <1>8 DEF H!Equal
<1>10. a.extra_channel_info = b.extra_channel_info
  BY <1>6, <1>7
<1>11. H!AlphaIs(a)
  BY <1>10 DEF H!AlphaIs, H!GetAlphaBits, H!Find
<1> QED
  BY <1>1, <1>3, <1>4, <1>9, <1>11

(* A ratio that is found is that of the size.                                *)
LEMMA RatioFound ==
  ASSUME NEW x, NEW y
  PROVE  LET r == H!FindAspectRatio(x, y)
         IN  r \in Int /\ (r # 0 => x = H!FixedAspect(r, y))
<1> DEFINE S == {r \in 1 .. 7 : x = H!FixedAspect(r, y)}
<1>1. H!FindAspectRatio(x, y) = IF S = {} THEN 0 ELSE H!Min(S)
  BY DEF H!FindAspectRatio
<1>2. \A r \in S : r \in Nat /\ x = H!FixedAspect(r, y)
  OBVIOUS
<1> HIDE DEF S
<1>3. ASSUME S # {} PROVE H!Min(S) \in S
  <2>1. S \subseteq Nat
    BY <1>2
  <2>2. \E j \in S : \A k \in S : j <= k
    BY <1>3, <2>1, LeastNatural
  <2> QED
    BY <2>2 DEF H!Min
<1> QED
  BY <1>1, <1>2, <1>3

(* Setting a size.                                                           *)
LEMMA SizeSet ==
  ASSUME NEW s \in SizeRecords, NEW x \in Int, NEW y \in Int,
         1 <= x, x <= 2 ^ 30, 1 <= y, y <= 2 ^ 30
  PROVE  /\ H!SetSize(s, x, y) \in SizeRecords
         /\ H!LeafOk("size", H!SetSize(s, x, y))
         /\ H!SizeX(H!SetSize(s, x, y)) = x /\ H!SizeY(H!SetSize(s, x, y)) = y
<1>1. PICK ratio \in Int : ratio = H!FindAspectRatio(x, y) /\ (ratio # 0 => x = H!FixedAspect(ratio, y))
  BY RatioFound
<1>2. PICK small \in BOOLEAN : small = H!IsSmall(x, y, ratio)
  BY DEF H!IsSmall
<1>3. PICK d : d = H!SetSize(s, x, y)
  OBVIOUS
<1>4. d = H!SetSizeFields(s, x, y, ratio, small)
  BY <1>1, <1>2, <1>3 DEF H!SetSize
<1>5. /\ small => y <= 256 /\ y % 8 = 0
      /\ small /\ ratio = 0 => x <= 256 /\ x % 8 = 0
  BY <1>2 DEF H!IsSmall, H!InBlocks
<1>6. d = [s EXCEPT !.ratio = ratio, !.small = small,
            !.ysize_div8_minus_1 = IF small THEN (y \div 8) - 1 ELSE @,
            !.ysize = IF small THEN @ ELSE y,
            !.xsize_div8_minus_1 = IF ratio = 0 /\ small THEN (x \div 8) - 1 ELSE @,
            !.xsize = IF ratio = 0 /\ ~small THEN x ELSE @]
  BY <1>4 DEF H!SetSizeFields
<1>7. /\ d.small = small /\ d.ratio = ratio
      /\ d.ysize_div8_minus_1 = IF small THEN (y \div 8) - 1 ELSE s.ysize_div8_minus_1
      /\ d.ysize = IF small THEN s.ysize ELSE y
      /\ d.xsize_div8_minus_1 = IF ratio = 0 /\ small THEN (x \div 8) - 1 ELSE s.xsize_div8_minus_1
      /\ d.xsize = IF ratio = 0 /\ ~small THEN x ELSE s.xsize
  BY <1>6 DEF SizeRecords
<1>8. d \in SizeRecords
  <2>1. /\ s.ysize_div8_minus_1 \in Int /\ s.ysize \in Int
        /\ s.xsize_div8_minus_1 \in Int /\ s.xsize \in Int
    BY DEF SizeRecords
  <2>2. PICK a1 \in Int, a2 \in Int, a3 \in Int, a4 \in Int :
          /\ a1 = IF small THEN (y \div 8) - 1 ELSE s.ysize_div8_minus_1
          /\ a2 = IF small THEN s.ysize ELSE y
          /\ a3 = IF ratio = 0 /\ small THEN (x \div 8) - 1 ELSE s.xsize_div8_minus_1
          /\ a4 = IF ratio = 0 /\ ~small THEN x ELSE s.xsize
    BY <2>1
  <2>3. d = [small |-> small, ysize_div8_minus_1 |-> a1, ysize |-> a2, ratio |-> ratio,
             xsize_div8_minus_1 |-> a3, xsize |-> a4]
    <3>1. DOMAIN d = {"small", "ysize_div8_minus_1", "ysize", "ratio", "xsize_div8_minus_1", "xsize"}
          /\ d = [f \in DOMAIN d |-> d[f]]
      BY <1>6 DEF SizeRecords
    <3>2. d.small = small /\ d.ratio = ratio /\ d.ysize_div8_minus_1 = a1 /\ d.ysize = a2
          /\ d.xsize_div8_minus_1 = a3 /\ d.xsize = a4
      BY <1>7, <2>2
    <3> QED
      BY <3>1, <3>2
  <2> QED
    BY <2>3 DEF SizeRecords
<1>9. H!SizeY(d) = y
  BY <1>5, <1>7 DEF H!SizeY
<1>10. H!SizeX(d) = x
  BY <1>1, <1>5, <1>7, <1>9 DEF H!SizeX
<1>11. H!LeafOk("size", d)
  <2>1. H!Valid("size", d)
    BY DEF H!Valid
  <2>2. \A f : H!Named("size", f) = f
    BY DEF H!Named
  <2>3. ASSUME NEW f \in H!Visited("size", d) PROVE H!Fits(f, d[f])
    <3>1. H!Visits(f, d)
      BY DEF H!Visited
    <3>2. f \in {"small", "ysize_div8_minus_1", "ysize", "ratio", "xsize_div8_minus_1", "xsize"}
      BY DEF H!Visited, H!ToSet, H!Order
    <3>3. "small" \in DOMAIN d
      BY <1>8 DEF SizeRecords
    <3>4. CASE f = "small" \/ f = "ratio"
      BY <3>4 DEF H!Fits
    <3>5. CASE f = "ysize_div8_minus_1"
      <4>1. small
        BY <1>7, <3>1, <3>5 DEF H!Visits
      <4>2. 0 <= (y \div 8) - 1 /\ (y \div 8) - 1 <= 31
        BY <1>5, <4>1
      <4> QED
        BY <1>7, <3>5, <4>1, <4>2 DEF H!Fits, H!Between
    <3>6. CASE f = "xsize_div8_minus_1"
      <4>1. small /\ ratio = 0
        BY <1>7, <3>1, <3>6 DEF H!Visits
      <4>2. 0 <= (x \div 8) - 1 /\ (x \div 8) - 1 <= 31
        BY <1>5, <4>1
      <4> QED
        BY <1>7, <3>6, <4>1, <4>2 DEF H!Fits, H!Between
    <3>7. CASE f = "ysize"
      <4>1. ~small
        BY <1>7, <3>1, <3>3, <3>7 DEF H!Visits
      <4> QED
        BY <1>7, <3>7, <4>1 DEF H!Fits, H!SizeFits, H!Between
    <3>8. CASE f = "xsize"
      <4>1. ratio = 0 /\ ~small
        BY <1>7, <3>1, <3>3, <3>8 DEF H!Visits
      <4> QED
        BY <1>7, <3>8, <4>1 DEF H!Fits, H!SizeFits, H!Between
    <3> QED
      BY <3>2, <3>4, <3>5, <3>6, <3>7, <3>8
  <2> QED
    BY <2>1, <2>2, <2>3 DEF H!LeafOk
<1> QED
  BY <1>3, <1>8, <1>9, <1>10, <1>11

(* Setting that of a preview.                                                *)
LEMMA PreviewSet ==
  ASSUME NEW s \in PreviewRecords, NEW x \in Int, NEW y \in Int, 1 <= x, 1 <= y
  PROVE  /\ H!SetPreview(s, x, y) \in PreviewRecords
         /\ H!PreviewX(H!SetPreview(s, x, y)) = x /\ H!PreviewY(H!SetPreview(s, x, y)) = y
<1>1. PICK ratio \in Int : ratio = H!FindAspectRatio(x, y) /\ (ratio # 0 => x = H!FixedAspect(ratio, y))
  BY RatioFound
<1>2. PICK div8 \in BOOLEAN : div8 <=> x % 8 = 0 /\ y % 8 = 0
  OBVIOUS
<1>3. PICK d : d = H!SetPreview(s, x, y)
  OBVIOUS
<1>4. d = H!SetPreviewFields(s, x, y, ratio, div8)
  BY <1>1, <1>2, <1>3, Zenon DEF H!SetPreview
<1>5. d = [s EXCEPT !.ratio = ratio, !.div8 = div8,
            !.ysize_div8 = IF div8 THEN y \div 8 ELSE @, !.ysize = IF div8 THEN @ ELSE y,
            !.xsize_div8 = IF ratio = 0 /\ div8 THEN x \div 8 ELSE @,
            !.xsize = IF ratio = 0 /\ ~div8 THEN x ELSE @]
  BY <1>4 DEF H!SetPreviewFields
<1>6. /\ d.div8 = div8 /\ d.ratio = ratio
      /\ d.ysize_div8 = IF div8 THEN y \div 8 ELSE s.ysize_div8
      /\ d.ysize = IF div8 THEN s.ysize ELSE y
      /\ d.xsize_div8 = IF ratio = 0 /\ div8 THEN x \div 8 ELSE s.xsize_div8
      /\ d.xsize = IF ratio = 0 /\ ~div8 THEN x ELSE s.xsize
  BY <1>5 DEF PreviewRecords
<1>7. d \in PreviewRecords
  <2>1. s.ysize_div8 \in Int /\ s.ysize \in Int /\ s.xsize_div8 \in Int /\ s.xsize \in Int
    BY DEF PreviewRecords
  <2>2. PICK a1 \in Int, a2 \in Int, a3 \in Int, a4 \in Int :
          /\ a1 = IF div8 THEN y \div 8 ELSE s.ysize_div8
          /\ a2 = IF div8 THEN s.ysize ELSE y
          /\ a3 = IF ratio = 0 /\ div8 THEN x \div 8 ELSE s.xsize_div8
          /\ a4 = IF ratio = 0 /\ ~div8 THEN x ELSE s.xsize
    BY <2>1
  <2>3. d = [div8 |-> div8, ysize_div8 |-> a1, ysize |-> a2, ratio |-> ratio,
             xsize_div8 |-> a3, xsize |-> a4]
    <3>1. DOMAIN d = {"div8", "ysize_div8", "ysize", "ratio", "xsize_div8", "xsize"}
          /\ d = [f \in DOMAIN d |-> d[f]]
      BY <1>5 DEF PreviewRecords
    <3>2. d.div8 = div8 /\ d.ratio = ratio /\ d.ysize_div8 = a1 /\ d.ysize = a2
          /\ d.xsize_div8 = a3 /\ d.xsize = a4
      BY <1>6, <2>2
    <3> QED
      BY <3>1, <3>2
  <2> QED
    BY <2>3 DEF PreviewRecords
<1>8. H!PreviewY(d) = y
  BY <1>2, <1>6 DEF H!PreviewY
<1>9. H!PreviewX(d) = x
  BY <1>1, <1>2, <1>6, <1>8 DEF H!PreviewX
<1> QED
  BY <1>3, <1>7, <1>8, <1>9

(* The first alpha channel of some.                                          *)
FirstAlpha(v, k) ==
  \/ k = 0 /\ \A i \in 1 .. Len(v) : v[i].type # "Alpha"
  \/ /\ k \in 1 .. Len(v) /\ v[k].type = "Alpha"
     /\ \A i \in 1 .. Len(v) : i < k => v[i].type # "Alpha"

(* Is what Find finds.                                                       *)
LEMMA Found ==
  ASSUME NEW b, Len(b.extra_channel_info) \in Nat
  PROVE  FirstAlpha(b.extra_channel_info, H!Find(b, "Alpha"))
<1>1. PICK v : v = b.extra_channel_info /\ Len(v) \in Nat
  OBVIOUS
<1> DEFINE n == Len(v)
<1> DEFINE S == {i \in 1 .. n : v[i].type = "Alpha"}
<1>2. H!Find(b, "Alpha") = IF S # {} THEN H!Min(S) ELSE 0
  BY <1>1 DEF H!Find, H!SelectInSeq
<1>3. \A i : i \in S <=> i \in 1 .. n /\ v[i].type = "Alpha"
  OBVIOUS
<1> HIDE DEF S
<1>4. ASSUME S # {} PROVE H!Min(S) \in S /\ \A k \in S : H!Min(S) <= k
  <2>1. S \subseteq Nat
    BY <1>3
  <2>2. \E j \in S : \A k \in S : j <= k
    BY <1>4, <2>1, LeastNatural
  <2> QED
    BY <2>2 DEF H!Min
<1>5. CASE S = {}
  BY <1>1, <1>2, <1>3, <1>5 DEF FirstAlpha
<1>6. CASE S # {}
  <2>1. PICK k : k = H!Min(S) /\ k \in S /\ \A i \in S : k <= i
    BY <1>4, <1>6
  <2>2. k \in 1 .. n /\ v[k].type = "Alpha"
    BY <1>3, <2>1
  <2>3. \A i \in 1 .. n : i < k => v[i].type # "Alpha"
    BY <1>3, <2>1, <2>2
  <2> QED
    BY <1>1, <1>2, <1>6, <2>1, <2>2, <2>3 DEF FirstAlpha
<1> QED
  BY <1>5, <1>6

(* There is one first.                                                       *)
LEMMA OneFirst ==
  ASSUME NEW v, Len(v) \in Nat, NEW k, NEW l, FirstAlpha(v, k), FirstAlpha(v, l)
  PROVE  k = l
BY DEF FirstAlpha

(* The channels kept of the first n, one by one.                             *)
KeptReads(f, v, n) ==
  f = [i \in 0 .. n |-> IF i = 0 THEN <<>> ELSE H!Unless(v, i, f[i - 1])]

(* The function by which they are kept exists, ...                           *)
LEMMA KeptReadsExist ==
  ASSUME NEW v, NEW n \in Nat
  PROVE  \E f : KeptReads(f, v, n)
<1> DEFINE Bad == {k \in Nat : ~ \E f : KeptReads(f, v, k)}
<1>1. SUFFICES ASSUME Bad # {} PROVE FALSE
  BY <1>1
<1>2. PICK j \in Bad : \A k \in Bad : j <= k
  BY <1>1, LeastNatural
<1>3. j # 0
  <2>1. KeptReads([k \in 0 .. 0 |-> <<>>], v, 0)
    BY DEF KeptReads
  <2> QED
    BY <1>2, <2>1
<1>4. j - 1 \in Nat /\ j - 1 \notin Bad
  BY <1>2, <1>3
<1>5. PICK f : KeptReads(f, v, j - 1)
  BY <1>4
<1> DEFINE g == [k \in 0 .. j |-> IF k = j THEN H!Unless(v, k, f[k - 1]) ELSE f[k]]
<1>6. KeptReads(g, v, j)
  <2>1. j \in Nat \ {0}
    BY <1>2, <1>3
  <2>2. \A k \in 0 .. j - 1 : g[k] = f[k]
    BY <2>1
  <2>3. \A k \in 0 .. j : g[k] = IF k = 0 THEN <<>> ELSE H!Unless(v, k, g[k - 1])
    <3> SUFFICES ASSUME NEW k \in 0 .. j
                 PROVE  g[k] = IF k = 0 THEN <<>> ELSE H!Unless(v, k, g[k - 1])
      OBVIOUS
    <3>1. CASE k = j
      <4>1. g[k - 1] = f[k - 1] /\ k # 0
        BY <2>1, <2>2, <3>1
      <4> QED
        BY <3>1, <4>1
    <3>2. CASE k # j /\ k # 0
      <4>1. k \in 0 .. j - 1 /\ k - 1 \in 0 .. j - 1
        BY <2>1, <3>2
      <4>2. f[k] = H!Unless(v, k, f[k - 1])
        BY <1>5, <3>2, <4>1 DEF KeptReads
      <4>3. g[k] = f[k] /\ g[k - 1] = f[k - 1]
        BY <2>2, <4>1
      <4> QED
        BY <3>2, <4>2, <4>3
    <3>3. CASE k # j /\ k = 0
      <4>1. 0 \in 0 .. j - 1
        BY <2>1
      <4>2. f[0] = <<>>
        BY <1>5, <4>1 DEF KeptReads
      <4> QED
        BY <2>2, <3>3, <4>1, <4>2
    <3> QED
      BY <3>1, <3>2, <3>3
  <2>4. g = [k \in 0 .. j |-> g[k]]
    OBVIOUS
  <2> HIDE DEF g
  <2> QED
    BY <2>3, <2>4 DEF KeptReads
<1> QED
  BY <1>2, <1>6

(* ... and WithoutAlpha is its last value.                                   *)
LEMMA KeptReadsAre ==
  ASSUME NEW v, Len(v) \in Nat
  PROVE  \E f : KeptReads(f, v, Len(v)) /\ H!WithoutAlpha(v) = f[Len(v)]
<1> DEFINE f == CHOOSE f : KeptReads(f, v, Len(v))
<1>1. KeptReads(f, v, Len(v))
  BY KeptReadsExist
<1>2. H!WithoutAlpha(v) = f[Len(v)]
  BY Zenon DEF H!WithoutAlpha, KeptReads
<1> QED
  BY <1>1, <1>2

(* Channels that are not alpha.                                              *)
Others == {c \in Channels : c.type # "Alpha"}

(* Those are kept.                                                           *)
LEMMA OthersKept ==
  ASSUME NEW v \in Seq(Channels)
  PROVE  H!WithoutAlpha(v) \in Seq(Others)
<1>1. Len(v) \in Nat
  OBVIOUS
<1>2. PICK f : KeptReads(f, v, Len(v)) /\ H!WithoutAlpha(v) = f[Len(v)]
  BY <1>1, KeptReadsAre
<1> DEFINE n == Len(v)
<1>3. f[0] = <<>> /\ \A i \in 1 .. n : f[i] = H!Unless(v, i, f[i - 1])
  BY <1>1, <1>2 DEF KeptReads
<1> DEFINE B == {k \in 0 .. n : f[k] \in Seq(Others)}
<1>4. 0 \in B
  <2>1. 0 \in 0 .. n
    BY <1>1
  <2>2. f[0] \in Seq(Others)
    BY <1>3, EmptySeq
  <2> QED
    BY <2>1, <2>2
<1>5. ASSUME NEW k \in 0 .. n - 1, k \in B PROVE k + 1 \in B
  <2>1. PICK i \in 1 .. n : i = k + 1 /\ i - 1 = k
    BY <1>1
  <2>2. f[k] \in Seq(Others) /\ f[i] = H!Unless(v, i, f[k])
    BY <1>3, <1>5, <2>1
  <2>3. v[i] \in Channels
    BY <1>1
  <2>4. f[i] \in Seq(Others)
    <3>1. PICK s \in Seq(Others) : s = f[k]
      BY <2>2
    <3>2. CASE v[i].type = "Alpha"
      BY <2>2, <3>2 DEF H!Unless, H!IsAlpha
    <3>3. CASE v[i].type # "Alpha"
      <4>1. PICK c \in Others : c = v[i]
        BY <2>3, <3>3 DEF Others
      <4>2. f[i] = Append(s, c)
        BY <2>2, <3>1, <3>3, <4>1 DEF H!Unless, H!IsAlpha
      <4>3. Append(s, c) \in Seq(Others)
        OBVIOUS
      <4> QED
        BY <4>2, <4>3
    <3> QED
      BY <3>2, <3>3
  <2> QED
    BY <1>1, <2>1, <2>4
<1> HIDE DEF B
<1>6. \A k \in 0 .. n : k \in B
  BY ONLY <1>1, <1>4, <1>5, AllUpTo
<1>7. n \in B
  BY <1>1, <1>6
<1> QED
  BY <1>2, <1>7 DEF B

(* The alpha channel has this depth, and is associated or not.               *)
AlphaAs(v, bits, p) ==
  \A k : FirstAlpha(v, k) =>
    IF k = 0 THEN bits = 0 ELSE v[k].bit_depth.bits = bits /\ v[k].alpha_associated = p

(* Which is what is asked of it.                                             *)
LEMMA AlphaIsSet ==
  ASSUME NEW b, Len(b.extra_channel_info) \in Nat,
         AlphaAs(b.extra_channel_info, alphaSet[1], alphaSet[2])
  PROVE  H!AlphaIs(b)
<1>1. FirstAlpha(b.extra_channel_info, H!Find(b, "Alpha"))
  BY Found
<1> QED
  BY <1>1 DEF AlphaAs, H!AlphaIs, H!GetAlphaBits

(* An alpha channel as it is set.                                            *)
LEMMA AlphaChannelIs ==
  ASSUME NEW c \in Channels, c.type = "Alpha", NEW bits \in Int, NEW p \in BOOLEAN
  PROVE  /\ H!AlphaChannel(c, bits, p) \in Channels
         /\ H!AlphaChannel(c, bits, p).type = "Alpha"
         /\ H!AlphaChannel(c, bits, p).bit_depth.bits = bits
         /\ H!AlphaChannel(c, bits, p).alpha_associated = p
<1>1. PICK e, w : e = H!IntegerDepth(bits) /\ w = H!AlphaChannel(c, bits, p)
  OBVIOUS
<1>2. w = [c EXCEPT !.bit_depth = e, !.alpha_associated = p]
  BY <1>1 DEF H!AlphaChannel
<1>3. DOMAIN c = {"type", "bit_depth", "dim_shift", "name", "alpha_associated", "spot_color",
                  "cfa_channel"}
  BY DEF Channels
<1>4. w = [f \in DOMAIN c |-> CASE f = "bit_depth" -> e [] f = "alpha_associated" -> p
                                [] OTHER -> c[f]]
  BY <1>2, <1>3
<1>5. /\ w.type = c.type /\ w.bit_depth = e /\ w.dim_shift = c.dim_shift /\ w.name = c.name
      /\ w.alpha_associated = p /\ w.spot_color = c.spot_color /\ w.cfa_channel = c.cfa_channel
  BY <1>3, <1>4
<1>6. w = [type |-> w.type, bit_depth |-> w.bit_depth, dim_shift |-> w.dim_shift,
           name |-> w.name, alpha_associated |-> w.alpha_associated,
           spot_color |-> w.spot_color, cfa_channel |-> w.cfa_channel]
  <2>1. DOMAIN w = DOMAIN c /\ w = [f \in DOMAIN c |-> w[f]]
    BY <1>4
  <2> QED
    BY <1>3, <2>1
<1>7. w \in Channels
  <2>1. e \in {H!IntegerDepth(n) : n \in Int}
    BY <1>1
  <2>2. /\ c.type \in Types \cup {"Alpha"} /\ c.dim_shift \in Int /\ c.name \in Int
        /\ c.spot_color \in {0} /\ c.cfa_channel \in Int /\ c.cfa_channel = 1
    BY DEF Channels
  <2> QED
    BY <1>5, <1>6, <2>1, <2>2 DEF Channels
<1>8. w.bit_depth.bits = bits
  BY <1>1, <1>5 DEF H!IntegerDepth
<1> QED
  BY <1>1, <1>5, <1>7, <1>8

(* A new channel is one.                                                     *)
LEMMA NewChannelIs == H!NewChannel \in Channels /\ H!NewChannel.type = "Alpha"
<1>1. H!NewDepth = H!IntegerDepth(8)
  BY DEF H!NewDepth, H!IntegerDepth
<1>2. H!NewDepth \in {H!IntegerDepth(n) : n \in Int}
  BY <1>1
<1> QED
  BY <1>2 DEF H!NewChannel, Channels

(* Setting the alpha channel.                                                *)
LEMMA AlphaSetSo ==
  ASSUME NEW v \in Seq(Channels), NEW k, FirstAlpha(v, k), NEW bits \in Int, NEW p \in BOOLEAN
  PROVE  /\ H!WithAlpha(v, k, bits, p) \in Seq(Channels)
         /\ AlphaAs(H!WithAlpha(v, k, bits, p), bits, p)
<1>1. PICK w : w = H!WithAlpha(v, k, bits, p)
  OBVIOUS
<1>2. CASE bits = 0
  <2>1. w = H!WithoutAlpha(v)
    BY <1>1, <1>2 DEF H!WithAlpha
  <2>2. w \in Seq(Others)
    BY <2>1, OthersKept
  <2>3. w \in Seq(Channels) /\ \A i \in 1 .. Len(w) : w[i].type # "Alpha"
    <3>1. \A i \in 1 .. Len(w) : w[i] \in Others
      BY <2>2
    <3>2. Others \subseteq Channels /\ \A c \in Others : c.type # "Alpha"
      BY DEF Others
    <3> QED
      BY <2>2, <3>1, <3>2
  <2> QED
    BY <1>1, <1>2, <2>3 DEF AlphaAs, FirstAlpha
<1>3. CASE bits # 0 /\ k = 0
  <2>1. PICK c : c = H!AlphaChannel(H!NewChannel, bits, p)
    OBVIOUS
  <2>2. c \in Channels /\ c.type = "Alpha" /\ c.bit_depth.bits = bits /\ c.alpha_associated = p
    BY <2>1, AlphaChannelIs, NewChannelIs
  <2>3. w = <<c>> \o v
    BY <1>1, <1>3, <2>1 DEF H!WithAlpha
  <2>4. w \in Seq(Channels) /\ Len(w) \in Nat /\ 1 \in 1 .. Len(w) /\ w[1] = c
    BY <2>2, <2>3
  <2>5. FirstAlpha(w, 1)
    BY <2>2, <2>4 DEF FirstAlpha
  <2>6. \A l : FirstAlpha(w, l) => l = 1
    BY <2>4, <2>5, OneFirst
  <2> QED
    BY <1>1, <2>2, <2>4, <2>6 DEF AlphaAs
<1>4. CASE bits # 0 /\ k # 0
  <2>1. k \in 1 .. Len(v) /\ v[k].type = "Alpha" /\ \A i \in 1 .. Len(v) : i < k => v[i].type # "Alpha"
    BY <1>4 DEF FirstAlpha
  <2>2. PICK c : c = H!AlphaChannel(v[k], bits, p)
    OBVIOUS
  <2>3. v[k] \in Channels
    BY <2>1
  <2>4. c \in Channels /\ c.type = "Alpha" /\ c.bit_depth.bits = bits /\ c.alpha_associated = p
    BY <2>1, <2>2, <2>3, AlphaChannelIs
  <2>5. w = [v EXCEPT ![k] = c]
    BY <1>1, <1>4, <2>2 DEF H!WithAlpha
  <2>6. w \in Seq(Channels) /\ Len(w) = Len(v) /\ Len(v) \in Nat /\ w[k] = c
        /\ \A i \in 1 .. Len(v) : i # k => w[i] = v[i]
    BY <2>1, <2>4, <2>5
  <2>7. FirstAlpha(w, k)
    BY <2>1, <2>4, <2>6 DEF FirstAlpha
  <2>8. \A l : FirstAlpha(w, l) => l = k
    BY <2>6, <2>7, OneFirst
  <2> QED
    BY <1>1, <1>4, <2>4, <2>6, <2>8 DEF AlphaAs
<1> QED
  BY <1>2, <1>3, <1>4

(* What a field of the metadata can be.                                      *)
GoodField(f, v) ==
  /\ f \in {"have_intrinsic_size", "have_preview", "have_animation"} => v \in BOOLEAN
  /\ f = "intrinsic_size" => v \in SizeRecords
  /\ f = "preview_size" => v \in PreviewRecords
  /\ f = "animation" => v \in AnimationRecords
  /\ f = "bit_depth" => v \in DepthRecords
  /\ f = "extra_channel_info" => v \in Seq(Channels)
  /\ f = "tone_mapping" => \E t \in Int : v = ToneOf(t)

(* The metadata with a field set.                                            *)
Assigned(a, b, f, v) ==
  /\ GoodMetadata(a) /\ a[f] = v
  /\ \A g \in DOMAIN H!NewMetadata \ {f} : a[g] = b[g]

(* A field can be set to what it can be.                                     *)
LEMMA Update ==
  ASSUME NEW b, GoodMetadata(b), NEW f \in DOMAIN H!NewMetadata, NEW v, GoodField(f, v)
  PROVE  Assigned([b EXCEPT ![f] = v], b, f, v)
<1>1. PICK D : D = DOMAIN H!NewMetadata
  OBVIOUS
<1>2. DOMAIN b = D
  BY <1>1 DEF GoodMetadata
<1>3. PICK a : a = [b EXCEPT ![f] = v]
  OBVIOUS
<1>4. a = [g \in D |-> IF g = f THEN v ELSE b[g]]
  BY <1>2, <1>3
<1>5. DOMAIN a = D /\ a = [g \in D |-> a[g]] /\ a[f] = v /\ \A g \in D \ {f} : a[g] = b[g]
  BY <1>1, <1>4
<1>6. \A g \in D : GoodField(g, b[g])
  BY <1>1 DEF GoodMetadata, GoodField
<1>7. \A g \in D : GoodField(g, a[g])
  BY <1>5, <1>6
<1>8. /\ a.have_intrinsic_size \in BOOLEAN /\ a.have_preview \in BOOLEAN
      /\ a.have_animation \in BOOLEAN
  BY <1>1, <1>7, NewFields DEF GoodField
<1>9. /\ a.intrinsic_size \in SizeRecords /\ a.preview_size \in PreviewRecords
      /\ a.animation \in AnimationRecords /\ a.bit_depth \in DepthRecords
      /\ a.extra_channel_info \in Seq(Channels)
  BY <1>1, <1>7, NewFields DEF GoodField
<1>10. \E t \in Int : a.tone_mapping = ToneOf(t)
  BY <1>1, <1>7, NewFields DEF GoodField
<1>11. GoodMetadata(a)
  BY <1>1, <1>5, <1>8, <1>9, <1>10 DEF GoodMetadata
<1> QED
  BY <1>1, <1>3, <1>5, <1>11 DEF Assigned

(* The size of the codestream is what was set.                               *)
SizeGood(s, e) ==
  s \in SizeRecords /\ H!LeafOk("size", s) /\ <<H!SizeX(s), H!SizeY(s)>> = e

(* The metadata is as callers leave it, and what was last set.               *)
MetaGood(b, e, a) ==
  /\ GoodMetadata(b)
  /\ b.have_preview => <<H!PreviewX(b.preview_size), H!PreviewY(b.preview_size)>> = e
  /\ AlphaAs(b.extra_channel_info, a[1], a[2])

(* Both.                                                                     *)
HeadersInv == SizeGood(size, sized) /\ MetaGood(m, previewed, alphaSet)

(* A setter that leaves the preview and the extra channels alone.            *)
LEMMA OtherSet ==
  ASSUME NEW b, NEW e, NEW a, MetaGood(b, e, a), NEW c, GoodMetadata(c),
         c.have_preview = b.have_preview, c.preview_size = b.preview_size,
         c.extra_channel_info = b.extra_channel_info
  PROVE  MetaGood(c, e, a)
BY DEF MetaGood

(* Sizes that callers give.                                                  *)
LEMMA ExtentsAre ==
  ASSUME NEW e \in Extents
  PROVE  /\ e[1] \in Int /\ e[2] \in Int /\ e = <<e[1], e[2]>>
         /\ 1 <= e[1] /\ e[1] <= 2 ^ 30 /\ 1 <= e[2] /\ e[2] <= 2 ^ 30
<1>1. e \in (1 .. 2 ^ 30) \X (1 .. 2 ^ 30)
  BY DescriptionsAssumption DEF H!Assumptions
<1>2. PICK n \in Int : n = 2 ^ 30
  OBVIOUS
<1>3. e \in (1 .. n) \X (1 .. n)
  BY <1>1, <1>2
<1>4. e[1] \in 1 .. n /\ e[2] \in 1 .. n /\ e = <<e[1], e[2]>>
  BY <1>3
<1> QED
  BY <1>2, <1>4

(* The size of the codestream is set.                                        *)
LEMMA SizeGoodSet ==
  ASSUME NEW s, NEW o, SizeGood(s, o), NEW e \in Extents
  PROVE  SizeGood(H!SetSize(s, e[1], e[2]), e)
BY SizeSet, ExtentsAre DEF SizeGood

(* That of the preview.                                                      *)
LEMMA PreviewGoodSet ==
  ASSUME NEW b, NEW o, NEW a, MetaGood(b, o, a), NEW e \in Extents
  PROVE  MetaGood([b EXCEPT !.have_preview = TRUE, !.preview_size = H!SetPreview(@, e[1], e[2])],
                  e, a)
<1>1. PICK v : v = H!SetPreview(b.preview_size, e[1], e[2])
  OBVIOUS
<1>2. v \in PreviewRecords /\ H!PreviewX(v) = e[1] /\ H!PreviewY(v) = e[2]
  BY <1>1, PreviewSet, ExtentsAre DEF MetaGood, GoodMetadata
<1>3. PICK b1 : b1 = [b EXCEPT !["have_preview"] = TRUE]
  OBVIOUS
<1>4. Assigned(b1, b, "have_preview", TRUE)
  BY <1>3, Update, NewFields DEF MetaGood, GoodField
<1>5. PICK b2 : b2 = [b1 EXCEPT !["preview_size"] = v]
  OBVIOUS
<1>6. Assigned(b2, b1, "preview_size", v)
  <2>1. GoodMetadata(b1)
    BY <1>2, <1>4, <1>5 DEF Assigned
  <2>2. GoodField("preview_size", v) /\ "preview_size" \in DOMAIN H!NewMetadata
    BY <1>2, <1>4, <1>5, NewFields DEF GoodField
  <2> QED
    BY <1>2, <1>4, <1>5, <2>1, <2>2, Update
<1>7. b1.preview_size = b.preview_size
  BY <1>4, NewFields DEF Assigned
<1>8. b2 = [b EXCEPT !.have_preview = TRUE, !.preview_size = H!SetPreview(@, e[1], e[2])]
  BY <1>1, <1>3, <1>5, <1>7
<1>9. b2.preview_size = v /\ b2.extra_channel_info = b.extra_channel_info /\ GoodMetadata(b2)
  BY <1>4, <1>6, NewFields DEF Assigned
<1> QED
  BY <1>2, <1>8, <1>9, ExtentsAre DEF MetaGood

(* The intrinsic size.                                                       *)
LEMMA IntrinsicGoodSet ==
  ASSUME NEW b, NEW o, NEW a, MetaGood(b, o, a), NEW e \in Extents
  PROVE  MetaGood([b EXCEPT !.have_intrinsic_size = TRUE,
                            !.intrinsic_size = H!SetSize(@, e[1], e[2])], o, a)
<1>1. PICK v : v = H!SetSize(b.intrinsic_size, e[1], e[2])
  OBVIOUS
<1>2. v \in SizeRecords
  BY <1>1, SizeSet, ExtentsAre DEF MetaGood, GoodMetadata
<1>3. PICK b1 : b1 = [b EXCEPT !["have_intrinsic_size"] = TRUE]
  OBVIOUS
<1>4. Assigned(b1, b, "have_intrinsic_size", TRUE)
  BY <1>3, Update, NewFields DEF MetaGood, GoodField
<1>5. PICK b2 : b2 = [b1 EXCEPT !["intrinsic_size"] = v]
  OBVIOUS
<1>6. Assigned(b2, b1, "intrinsic_size", v)
  <2>1. GoodMetadata(b1)
    BY <1>2, <1>4, <1>5 DEF Assigned
  <2>2. GoodField("intrinsic_size", v) /\ "intrinsic_size" \in DOMAIN H!NewMetadata
    BY <1>2, <1>4, <1>5, NewFields DEF GoodField
  <2> QED
    BY <1>2, <1>4, <1>5, <2>1, <2>2, Update
<1>7. b1.intrinsic_size = b.intrinsic_size
  BY <1>4, NewFields DEF Assigned
<1>8. b2 = [b EXCEPT !.have_intrinsic_size = TRUE, !.intrinsic_size = H!SetSize(@, e[1], e[2])]
  BY <1>1, <1>3, <1>5, <1>7
<1>9. b2.have_preview = b.have_preview /\ b2.preview_size = b.preview_size
      /\ b2.extra_channel_info = b.extra_channel_info /\ GoodMetadata(b2)
  BY <1>4, <1>6, NewFields DEF Assigned
<1> QED
  BY <1>8, <1>9, OtherSet

(* The alpha channel.                                                        *)
LEMMA AlphaGoodSet ==
  ASSUME NEW b, NEW o, NEW a, MetaGood(b, o, a), NEW bits \in Int, NEW p \in BOOLEAN
  PROVE  MetaGood(H!SetAlphaBits(b, bits, p), o, <<bits, p>>)
<1>1. PICK v, k, w : /\ v = b.extra_channel_info /\ k = H!Find(b, "Alpha")
                     /\ w = H!WithAlpha(v, k, bits, p)
  OBVIOUS
<1>2. v \in Seq(Channels) /\ Len(v) \in Nat
  BY <1>1 DEF MetaGood, GoodMetadata
<1>3. FirstAlpha(v, k)
  BY <1>1, <1>2, Found
<1>4. w \in Seq(Channels) /\ AlphaAs(w, bits, p)
  BY <1>1, <1>2, <1>3, AlphaSetSo
<1>5. PICK n, q : n = Len(w) /\ q = (b.modular_16_bit_buffer_sufficient /\ bits <= 12)
  OBVIOUS
<1>6. PICK b1 : b1 = [b EXCEPT !["extra_channel_info"] = w]
  OBVIOUS
<1>7. Assigned(b1, b, "extra_channel_info", w)
  BY <1>4, <1>6, Update, NewFields DEF MetaGood, GoodField
<1>8. PICK b2 : b2 = [b1 EXCEPT !["num_extra_channels"] = n]
  OBVIOUS
<1>9. Assigned(b2, b1, "num_extra_channels", n)
  <2>1. GoodMetadata(b1)
    BY <1>7, <1>8 DEF Assigned
  <2>2. GoodField("num_extra_channels", n) /\ "num_extra_channels" \in DOMAIN H!NewMetadata
    BY <1>7, <1>8, NewFields DEF GoodField
  <2> QED
    BY <1>7, <1>8, <2>1, <2>2, Update
<1>10. PICK b3 : b3 = [b2 EXCEPT !["modular_16_bit_buffer_sufficient"] = q]
  OBVIOUS
<1>11. Assigned(b3, b2, "modular_16_bit_buffer_sufficient", q)
  <2>1. GoodMetadata(b2)
    BY <1>9, <1>10 DEF Assigned
  <2>2. GoodField("modular_16_bit_buffer_sufficient", q) /\ "modular_16_bit_buffer_sufficient" \in DOMAIN H!NewMetadata
    BY <1>9, <1>10, NewFields DEF GoodField
  <2> QED
    BY <1>9, <1>10, <2>1, <2>2, Update
<1>12. b2.modular_16_bit_buffer_sufficient = b.modular_16_bit_buffer_sufficient
  BY <1>7, <1>9, NewFields DEF Assigned
<1>13. b3 = H!SetAlphaBits(b, bits, p)
  <2>1. H!SetAlphaBits(b, bits, p) =
          [b EXCEPT !.extra_channel_info = w, !.num_extra_channels = n,
                    !.modular_16_bit_buffer_sufficient = @ /\ bits <= 12]
    BY <1>1, <1>5 DEF H!SetAlphaBits
  <2>2. b3 = [b2 EXCEPT !.modular_16_bit_buffer_sufficient = @ /\ bits <= 12]
    BY <1>5, <1>10, <1>12
  <2> QED
    BY <1>6, <1>8, <2>1, <2>2
<1>14. b3.have_preview = b.have_preview /\ b3.preview_size = b.preview_size
       /\ b3.extra_channel_info = w /\ GoodMetadata(b3)
  BY <1>7, <1>9, <1>11, NewFields DEF Assigned
<1>15. <<bits, p>>[1] = bits /\ <<bits, p>>[2] = p
  OBVIOUS
<1> QED
  BY <1>4, <1>13, <1>14, <1>15 DEF MetaGood

(* The depth of samples.                                                     *)
LEMMA DepthGoodSet ==
  ASSUME NEW b, NEW o, NEW a, MetaGood(b, o, a), NEW v \in DepthRecords, NEW q
  PROVE  MetaGood([b EXCEPT !.bit_depth = v, !.modular_16_bit_buffer_sufficient = q], o, a)
<1>1. PICK b1 : b1 = [b EXCEPT !["bit_depth"] = v]
  OBVIOUS
<1>2. Assigned(b1, b, "bit_depth", v)
  BY <1>1, Update, NewFields DEF MetaGood, GoodField
<1>3. PICK b2 : b2 = [b1 EXCEPT !["modular_16_bit_buffer_sufficient"] = q]
  OBVIOUS
<1>4. Assigned(b2, b1, "modular_16_bit_buffer_sufficient", q)
  <2>1. GoodMetadata(b1)
    BY <1>2, <1>3 DEF Assigned
  <2>2. GoodField("modular_16_bit_buffer_sufficient", q) /\ "modular_16_bit_buffer_sufficient" \in DOMAIN H!NewMetadata
    BY <1>2, <1>3, NewFields DEF GoodField
  <2> QED
    BY <1>2, <1>3, <2>1, <2>2, Update
<1>5. b2 = [b EXCEPT !.bit_depth = v, !.modular_16_bit_buffer_sufficient = q]
  BY <1>1, <1>3
<1>6. b2.have_preview = b.have_preview /\ b2.preview_size = b.preview_size
      /\ b2.extra_channel_info = b.extra_channel_info /\ GoodMetadata(b2)
  BY <1>2, <1>4, NewFields DEF Assigned
<1> QED
  BY <1>5, <1>6, OtherSet

(* The intensity target.                                                     *)
LEMMA TargetGoodSet ==
  ASSUME NEW b, NEW o, NEW a, MetaGood(b, o, a), NEW t \in Int
  PROVE  MetaGood([b EXCEPT !.tone_mapping.intensity_target = t], o, a)
<1>1. PICK u \in Int : b.tone_mapping = ToneOf(u)
  BY DEF MetaGood, GoodMetadata
<1>2. [ToneOf(u) EXCEPT !.intensity_target = t] = ToneOf(t)
  <2>1. PICK c : c = H!NewTone
    OBVIOUS
  <2>2. [[c EXCEPT !.intensity_target = u] EXCEPT !.intensity_target = t]
          = [c EXCEPT !.intensity_target = t]
    OBVIOUS
  <2> QED
    BY <2>1, <2>2 DEF ToneOf
<1>3. PICK b1 : b1 = [b EXCEPT !["tone_mapping"] = ToneOf(t)]
  OBVIOUS
<1>4. Assigned(b1, b, "tone_mapping", ToneOf(t))
  BY <1>3, Update, NewFields DEF MetaGood, GoodField
<1>5. b1 = [b EXCEPT !.tone_mapping.intensity_target = t]
  BY <1>1, <1>2, <1>3
<1>6. b1.have_preview = b.have_preview /\ b1.preview_size = b.preview_size
      /\ b1.extra_channel_info = b.extra_channel_info /\ GoodMetadata(b1)
  BY <1>4, NewFields DEF Assigned
<1> QED
  BY <1>5, <1>6, OtherSet

(* The orientation.                                                          *)
LEMMA OrientationGoodSet ==
  ASSUME NEW b, NEW o, NEW a, MetaGood(b, o, a), NEW v
  PROVE  MetaGood([b EXCEPT !.orientation = v], o, a)
<1>1. PICK b1 : b1 = [b EXCEPT !["orientation"] = v]
  OBVIOUS
<1>2. Assigned(b1, b, "orientation", v)
  BY <1>1, Update, NewFields DEF MetaGood, GoodField
<1>3. b1.have_preview = b.have_preview /\ b1.preview_size = b.preview_size
      /\ b1.extra_channel_info = b.extra_channel_info /\ GoodMetadata(b1)
  BY <1>2, NewFields DEF Assigned
<1> QED
  BY <1>1, <1>3, OtherSet

(* An animation of numbers.                                                  *)
LEMMA AnimationGoodSet ==
  ASSUME NEW b, NEW o, NEW a, MetaGood(b, o, a), NEW l \in Int, NEW n \in Int
  PROVE  MetaGood(H!Animated(b, l, n), o, a)
<1>1. PICK v : v = [b.animation EXCEPT !.num_loops = l, !.tps_numerator = n]
  OBVIOUS
<1>2. v \in AnimationRecords
  BY <1>1 DEF MetaGood, GoodMetadata, AnimationRecords
<1>3. PICK b1 : b1 = [b EXCEPT !["have_animation"] = TRUE]
  OBVIOUS
<1>4. Assigned(b1, b, "have_animation", TRUE)
  BY <1>3, Update, NewFields DEF MetaGood, GoodField
<1>5. PICK b2 : b2 = [b1 EXCEPT !["animation"] = v]
  OBVIOUS
<1>6. Assigned(b2, b1, "animation", v)
  <2>1. GoodMetadata(b1)
    BY <1>2, <1>4, <1>5 DEF Assigned
  <2>2. GoodField("animation", v) /\ "animation" \in DOMAIN H!NewMetadata
    BY <1>2, <1>4, <1>5, NewFields DEF GoodField
  <2> QED
    BY <1>2, <1>4, <1>5, <2>1, <2>2, Update
<1>7. b1.animation = b.animation
  BY <1>4, NewFields DEF Assigned
<1>8. b2 = H!Animated(b, l, n)
  BY <1>1, <1>3, <1>5, <1>7 DEF H!Animated
<1>9. b2.have_preview = b.have_preview /\ b2.preview_size = b.preview_size
      /\ b2.extra_channel_info = b.extra_channel_info /\ GoodMetadata(b2)
  BY <1>4, <1>6, NewFields DEF Assigned
<1> QED
  BY <1>8, <1>9, OtherSet

(* A channel that a caller adds, which is not the first alpha channel.       *)
LEMMA ChannelGoodAdded ==
  ASSUME NEW b, NEW o, NEW a, MetaGood(b, o, a), NEW c \in Channels,
         c.type = "Alpha" => H!Find(b, "Alpha") # 0
  PROVE  MetaGood([b EXCEPT !.extra_channel_info = Append(@, c)], o, a)
<1>1. PICK v, k, w : v = b.extra_channel_info /\ k = H!Find(b, "Alpha") /\ w = Append(v, c)
  OBVIOUS
<1>2. v \in Seq(Channels) /\ Len(v) \in Nat
  BY <1>1 DEF MetaGood, GoodMetadata
<1>3. FirstAlpha(v, k)
  BY <1>1, <1>2, Found
<1>4. /\ w \in Seq(Channels) /\ Len(w) = Len(v) + 1 /\ w[Len(v) + 1] = c
      /\ \A i \in 1 .. Len(v) : w[i] = v[i]
  BY <1>1, <1>2
<1>5. FirstAlpha(w, k)
  <2>1. CASE k = 0
    BY <1>1, <1>2, <1>3, <1>4, <2>1 DEF FirstAlpha
  <2>2. CASE k # 0
    BY <1>2, <1>3, <1>4, <2>2 DEF FirstAlpha
  <2> QED
    BY <2>1, <2>2
<1>6. AlphaAs(w, a[1], a[2])
  <2>1. AlphaAs(v, a[1], a[2])
    BY <1>1 DEF MetaGood
  <2>2. IF k = 0 THEN a[1] = 0
        ELSE v[k].bit_depth.bits = a[1] /\ v[k].alpha_associated = a[2]
    BY <1>3, <2>1 DEF AlphaAs
  <2>3. k # 0 => w[k] = v[k]
    BY <1>3, <1>4 DEF FirstAlpha
  <2>4. \A l : FirstAlpha(w, l) => l = k
    BY <1>2, <1>4, <1>5, OneFirst
  <2> QED
    BY <2>2, <2>3, <2>4 DEF AlphaAs
<1>7. PICK b1 : b1 = [b EXCEPT !["extra_channel_info"] = w]
  OBVIOUS
<1>8. Assigned(b1, b, "extra_channel_info", w)
  BY <1>4, <1>7, Update, NewFields DEF MetaGood, GoodField
<1>9. b1.have_preview = b.have_preview /\ b1.preview_size = b.preview_size
      /\ b1.extra_channel_info = w /\ GoodMetadata(b1)
  BY <1>8, NewFields DEF Assigned
<1>10. b1 = [b EXCEPT !.extra_channel_info = Append(@, c)]
  BY <1>1, <1>7
<1> QED
  BY <1>6, <1>9, <1>10 DEF MetaGood

(* Such as callers make.                                                     *)
Added(type, shift) ==
  [H!NewChannel EXCEPT !.type = type, !.dim_shift = shift, !.name = 5,
                       !.cfa_channel = IF type = "CFA" THEN 20 ELSE 1]

(* They are extra channels.                                                  *)
LEMMA AddedIs ==
  ASSUME NEW type \in Types, NEW shift \in Int
  PROVE  Added(type, shift) \in Channels /\ Added(type, shift).type = type
<1>1. PICK n \in Int : n = IF type = "CFA" THEN 20 ELSE 1
  OBVIOUS
<1>2. H!NewChannel = [type |-> "Alpha", bit_depth |-> H!NewDepth, dim_shift |-> 0,
                      name |-> 0, alpha_associated |-> FALSE, spot_color |-> 0, cfa_channel |-> 1]
  BY DEF H!NewChannel
<1>3. PICK c : c = H!NewChannel
  OBVIOUS
<1>4. PICK w : w = [c EXCEPT !.type = type, !.dim_shift = shift, !.name = 5, !.cfa_channel = n]
  OBVIOUS
<1>5. DOMAIN c = {"type", "bit_depth", "dim_shift", "name", "alpha_associated", "spot_color",
                  "cfa_channel"}
  BY <1>2, <1>3
<1>6. DOMAIN w = DOMAIN c /\ w = [f \in DOMAIN c |-> w[f]]
  BY <1>4, <1>5
<1>7. w.type = type /\ w.dim_shift = shift /\ w.name = 5 /\ w.cfa_channel = n
      /\ w.bit_depth = c.bit_depth /\ w.alpha_associated = c.alpha_associated
      /\ w.spot_color = c.spot_color
  BY <1>4, <1>5
<1>8. c.bit_depth = H!NewDepth /\ c.alpha_associated = FALSE /\ c.spot_color = 0
  BY <1>2, <1>3
<1>9. H!NewDepth \in {H!IntegerDepth(i) : i \in Int}
  <2>1. H!NewDepth = H!IntegerDepth(8)
    BY DEF H!NewDepth, H!IntegerDepth
  <2> QED
    BY <2>1
<1>10. w = [type |-> w.type, bit_depth |-> w.bit_depth, dim_shift |-> w.dim_shift,
            name |-> w.name, alpha_associated |-> w.alpha_associated,
            spot_color |-> w.spot_color, cfa_channel |-> w.cfa_channel]
  BY <1>5, <1>6
<1>11. w \in Channels
  <2>1. /\ w.type \in Types \cup {"Alpha"} /\ w.dim_shift \in Int /\ w.name \in Int
        /\ w.spot_color \in {0} /\ w.cfa_channel \in Int
    BY <1>7, <1>8
  <2>2. w.bit_depth \in {H!IntegerDepth(i) : i \in Int}
    BY <1>7, <1>8, <1>9
  <2>3. w.alpha_associated = FALSE
    BY <1>7, <1>8
  <2>4. w.type # "CFA" => w.cfa_channel = 1
    BY <1>1, <1>7
  <2>5. w.alpha_associated \in BOOLEAN
    BY <2>3
  <2> QED
    BY <1>10, <2>1, <2>2, <2>3, <2>4, <2>5 DEF Channels
<1>12. w = Added(type, shift)
  BY <1>1, <1>3, <1>4 DEF Added
<1> QED
  BY <1>7, <1>11, <1>12

(* At first nothing was set.                                                 *)
LEMMA HeadersFirst == Init => HeadersInv
<1> SUFFICES ASSUME Init PROVE HeadersInv
  OBVIOUS
<1>1. /\ m = H!NewMetadata /\ size = H!NewSize /\ sized = <<1, 1>> /\ previewed = <<1, 1>>
      /\ alphaSet = <<0, FALSE>>
  BY DEF Init, H!Init
<1>2. SizeGood(H!NewSize, <<1, 1>>)
  <2>1. PICK d : d = H!NewSize
    OBVIOUS
  <2>2. d = [small |-> FALSE, ysize_div8_minus_1 |-> 0, ysize |-> 1, ratio |-> 0,
             xsize_div8_minus_1 |-> 0, xsize |-> 1]
    BY <2>1 DEF H!NewSize
  <2>3. d \in SizeRecords
    BY <2>2 DEF SizeRecords
  <2>4. H!SizeX(d) = 1 /\ H!SizeY(d) = 1
    BY <2>2 DEF H!SizeX, H!SizeY
  <2>5. H!LeafOk("size", d)
    <3>1. H!Valid("size", d) /\ \A f : H!Named("size", f) = f
      BY DEF H!Valid, H!Named
    <3>2. ASSUME NEW f \in H!Visited("size", d) PROVE H!Fits(f, d[f])
      <4>1. f \in {"small", "ysize_div8_minus_1", "ysize", "ratio", "xsize_div8_minus_1", "xsize"}
            /\ H!Visits(f, d)
        BY DEF H!Visited, H!ToSet, H!Order
      <4>2. f \in {"small", "ysize", "ratio", "xsize"}
        BY <2>2, <4>1 DEF H!Visits
      <4>3. f \in {"ysize", "xsize"} => d[f] = 1
        BY <2>2
      <4>4. 1 <= 2 ^ 30
        OBVIOUS
      <4> QED
        BY <4>2, <4>3, <4>4 DEF H!Fits, H!SizeFits, H!Between
    <3> QED
      BY <3>1, <3>2 DEF H!LeafOk
  <2> QED
    BY <2>1, <2>3, <2>4, <2>5 DEF SizeGood
<1>3. GoodMetadata(H!NewMetadata)
  <2>1. PICK b : b = H!NewMetadata
    OBVIOUS
  <2>2. DOMAIN b = DOMAIN H!NewMetadata /\ b = [f \in DOMAIN H!NewMetadata |-> b[f]]
    BY <2>1, NewFields
  <2>3. /\ b.have_intrinsic_size = FALSE /\ b.have_preview = FALSE /\ b.have_animation = FALSE
    BY <2>1 DEF H!NewMetadata
  <2>4. b.intrinsic_size = H!NewSize /\ b.preview_size = H!NewPreview
        /\ b.animation = H!NewAnimation /\ b.bit_depth = H!NewDepth
        /\ b.extra_channel_info = <<>> /\ b.tone_mapping = H!NewTone
    BY <2>1 DEF H!NewMetadata
  <2>5. H!NewSize \in SizeRecords /\ H!NewPreview \in PreviewRecords
        /\ H!NewAnimation \in AnimationRecords /\ H!NewDepth \in DepthRecords
    BY DEF H!NewSize, SizeRecords, H!NewPreview, PreviewRecords, H!NewAnimation,
           AnimationRecords, H!NewDepth, DepthRecords
  <2>6. H!NewTone = ToneOf(255)
    <3>1. 255 \in Int
      OBVIOUS
    <3> QED
      BY <3>1, ToneFields
  <2>7. <<>> \in Seq(Channels)
    BY EmptySeq
  <2>8. \E t \in Int : b.tone_mapping = ToneOf(t)
    <3>1. 255 \in Int
      OBVIOUS
    <3> QED
      BY <2>4, <2>6, <3>1
  <2>9. b.have_intrinsic_size \in BOOLEAN /\ b.have_preview \in BOOLEAN
        /\ b.have_animation \in BOOLEAN
    BY <2>3
  <2> QED
    BY <2>1, <2>2, <2>4, <2>5, <2>7, <2>8, <2>9 DEF GoodMetadata
<1>4. H!NewMetadata.have_preview = FALSE /\ H!NewMetadata.extra_channel_info = <<>>
  BY DEF H!NewMetadata
<1>5. AlphaAs(<<>>, 0, FALSE)
  BY DEF AlphaAs, FirstAlpha
<1>6. MetaGood(H!NewMetadata, <<1, 1>>, <<0, FALSE>>)
  <2>1. <<0, FALSE>>[1] = 0 /\ <<0, FALSE>>[2] = FALSE
    OBVIOUS
  <2> QED
    BY <1>3, <1>4, <1>5, <2>1 DEF MetaGood
<1> QED
  BY <1>1, <1>2, <1>6 DEF HeadersInv

(* Depths that callers give.                                                 *)
LEMMA DepthsAre == \A bits \in Depths \cup {0} : bits \in Int
<1>1. Depths \subseteq Nat
  BY DescriptionsAssumption DEF H!Assumptions
<1> QED
  BY <1>1

(* Every setter leaves what it should.                                       *)
LEMMA HeadersStep == HeadersInv /\ H!Next => HeadersInv'
<1> SUFFICES ASSUME HeadersInv, H!Next PROVE HeadersInv'
  OBVIOUS
<1> USE DEF HeadersInv
<1>1. CASE H!Resize
  <2>1. PICK e \in Extents : size' = H!SetSize(size, e[1], e[2]) /\ sized' = e
                             /\ UNCHANGED <<m, previewed, alphaSet>>
    BY <1>1 DEF H!Resize
  <2>2. SizeGood(H!SetSize(size, e[1], e[2]), e)
    BY SizeGoodSet
  <2> QED
    BY <2>1, <2>2
<1>2. CASE H!SetPreviewSize
  <2>1. PICK e \in Extents :
          /\ previewed' = e /\ UNCHANGED <<size, sized, alphaSet>>
          /\ m' = [m EXCEPT !.have_preview = TRUE, !.preview_size = H!SetPreview(@, e[1], e[2])]
    BY <1>2 DEF H!SetPreviewSize
  <2>2. MetaGood([m EXCEPT !.have_preview = TRUE, !.preview_size = H!SetPreview(@, e[1], e[2])],
                 e, alphaSet)
    BY PreviewGoodSet
  <2> QED
    BY <2>1, <2>2
<1>3. CASE H!SetIntrinsicSize
  <2>1. PICK e \in Extents :
          /\ UNCHANGED <<size, sized, previewed, alphaSet>>
          /\ m' = [m EXCEPT !.have_intrinsic_size = TRUE,
                            !.intrinsic_size = H!SetSize(@, e[1], e[2])]
    BY <1>3 DEF H!SetIntrinsicSize, H!Change
  <2>2. MetaGood([m EXCEPT !.have_intrinsic_size = TRUE,
                           !.intrinsic_size = H!SetSize(@, e[1], e[2])], previewed, alphaSet)
    BY IntrinsicGoodSet
  <2> QED
    BY <2>1, <2>2
<1>4. CASE H!SetAlphaDepth
  <2>1. PICK bits \in Depths \cup {0}, p \in BOOLEAN :
          /\ m' = H!SetAlphaBits(m, bits, p) /\ alphaSet' = <<bits, p>>
          /\ UNCHANGED <<size, sized, previewed>>
    BY <1>4 DEF H!SetAlphaDepth
  <2>2. bits \in Int
    BY DepthsAre
  <2>3. MetaGood(H!SetAlphaBits(m, bits, p), previewed, <<bits, p>>)
    BY <2>2, AlphaGoodSet
  <2> QED
    BY <2>1, <2>3
<1>5. CASE H!SetUintSamples
  <2>1. PICK bits \in Depths :
          /\ UNCHANGED <<size, sized, previewed, alphaSet>>
          /\ m' = [m EXCEPT !.bit_depth = H!IntegerDepth(bits),
                            !.modular_16_bit_buffer_sufficient = H!Sufficient(m, bits)]
    BY <1>5 DEF H!SetUintSamples, H!Change
  <2>2. bits \in Int
    BY DepthsAre
  <2>3. PICK v \in DepthRecords : v = H!IntegerDepth(bits)
    <3>1. [floating |-> FALSE, bits |-> bits, exponent |-> 0] \in DepthRecords
      BY <2>2 DEF DepthRecords
    <3> QED
      BY <3>1 DEF H!IntegerDepth
  <2>4. PICK q : q = H!Sufficient(m, bits)
    OBVIOUS
  <2>5. MetaGood([m EXCEPT !.bit_depth = v, !.modular_16_bit_buffer_sufficient = q],
                 previewed, alphaSet)
    BY DepthGoodSet
  <2> QED
    BY <2>1, <2>3, <2>4, <2>5
<1>6. CASE H!SetFloatSamples
  <2>1. PICK d \in {<<32, 8>>, <<16, 5>>} :
          /\ UNCHANGED <<size, sized, previewed, alphaSet>>
          /\ m' = [m EXCEPT !.bit_depth = [floating |-> TRUE, bits |-> d[1], exponent |-> d[2]],
                            !.modular_16_bit_buffer_sufficient = FALSE]
    BY <1>6 DEF H!SetFloatSamples, H!Change
  <2>2. d[1] \in Int /\ d[2] \in Int
    OBVIOUS
  <2>3. PICK v \in DepthRecords : v = [floating |-> TRUE, bits |-> d[1], exponent |-> d[2]]
    BY <2>2 DEF DepthRecords
  <2>4. MetaGood([m EXCEPT !.bit_depth = v, !.modular_16_bit_buffer_sufficient = FALSE],
                 previewed, alphaSet)
    BY DepthGoodSet
  <2> QED
    BY <2>1, <2>3, <2>4
<1>7. CASE H!SetIntensityTarget
  <2>1. PICK t \in Targets :
          /\ UNCHANGED <<size, sized, previewed, alphaSet>>
          /\ m' = [m EXCEPT !.tone_mapping.intensity_target = t]
    BY <1>7 DEF H!SetIntensityTarget, H!Change
  <2>2. t \in Int
    BY DescriptionsAssumption DEF H!Assumptions
  <2>3. MetaGood([m EXCEPT !.tone_mapping.intensity_target = t], previewed, alphaSet)
    BY <2>2, TargetGoodSet
  <2> QED
    BY <2>1, <2>3
<1>8. CASE H!SetOrientation
  <2>1. PICK v \in Orientations :
          /\ UNCHANGED <<size, sized, previewed, alphaSet>>
          /\ m' = [m EXCEPT !.orientation = v]
    BY <1>8 DEF H!SetOrientation, H!Change
  <2>2. MetaGood([m EXCEPT !.orientation = v], previewed, alphaSet)
    BY OrientationGoodSet
  <2> QED
    BY <2>1, <2>2
<1>9. CASE H!SetAnimation
  <2>1. PICK loops \in {0, 70000}, num \in {0, 100} :
          /\ UNCHANGED <<size, sized, previewed, alphaSet>>
          /\ m' = H!Animated(m, loops, num)
    BY <1>9 DEF H!SetAnimation, H!Change
  <2>2. loops \in Int /\ num \in Int
    OBVIOUS
  <2>3. MetaGood(H!Animated(m, loops, num), previewed, alphaSet)
    BY <2>2, AnimationGoodSet
  <2> QED
    BY <2>1, <2>3
<1>10. CASE H!AddChannel
  <2>1. PICK type \in Types, shift \in {0, 4} :
          /\ UNCHANGED <<size, sized, previewed, alphaSet>>
          /\ type = "Alpha" => H!Find(m, "Alpha") # 0
          /\ m' = [m EXCEPT !.extra_channel_info = Append(@, Added(type, shift))]
    BY <1>10 DEF H!AddChannel, H!Change, Added
  <2>2. shift \in Int
    OBVIOUS
  <2>3. PICK c \in Channels : c = Added(type, shift) /\ c.type = type
    BY <2>2, AddedIs
  <2>4. MetaGood([m EXCEPT !.extra_channel_info = Append(@, c)], previewed, alphaSet)
    BY <2>1, <2>3, ChannelGoodAdded
  <2> QED
    BY <2>1, <2>3, <2>4
<1> QED
  BY <1>1, <1>2, <1>3, <1>4, <1>5, <1>6, <1>7, <1>8, <1>9, <1>10 DEF H!Next

(* The size of the codestream reads back.                                    *)
LEMMA SizeAgain == HeadersInv => H!SizeReadsBack
<1> SUFFICES ASSUME HeadersInv PROVE H!SizeReadsBack
  OBVIOUS
<1>1. size \in SizeRecords /\ H!LeafOk("size", size) /\ <<H!SizeX(size), H!SizeY(size)>> = sized
  BY DEF HeadersInv, SizeGood
<1>2. PICK r : r = H!ReadLeaf("size", H!NewSize, H!LeafStream("size", size))
  OBVIOUS
<1>3. r.ok /\ H!SizeX(r.b) = H!SizeX(size) /\ H!SizeY(r.b) = H!SizeY(size)
  BY <1>1, <1>2, SizeBack
<1> QED
  BY <1>1, <1>2, <1>3 DEF H!SizeReadsBack

(* So does the rest.                                                         *)
LEMMA HeadersAgain == HeadersInv => H!HeaderReadsBack
<1> SUFFICES ASSUME HeadersInv PROVE H!HeaderReadsBack
  OBVIOUS
<1>1. H!SizeReadsBack
  BY SizeAgain
<1>2. GoodMetadata(m) /\ PreviewKnown(m) /\ AlphaAs(m.extra_channel_info, alphaSet[1], alphaSet[2])
  BY DEF HeadersInv, MetaGood, PreviewKnown
<1>3. H!AlphaIs(m)
  <2>1. Len(m.extra_channel_info) \in Nat
    BY <1>2 DEF GoodMetadata
  <2> QED
    BY <1>2, <2>1, AlphaIsSet
<1>4. PICK w, r : w = H!WriteImageMetadata(m) /\ r = H!ReadImageMetadata(H!NewMetadata, w.s)
  OBVIOUS
<1>5. ASSUME w.ok
      PROVE  r.ok /\ r.rest = <<>> /\ H!Equal(H!ToWrite(m), r.b) /\ H!AlphaIs(r.b)
  <2>1. H!CanWrite(H!ToWrite(m))
    <3> SUFFICES ASSUME ~H!CanWrite(H!ToWrite(m)) PROVE FALSE
      OBVIOUS
    <3>1. w = [ok |-> FALSE, s |-> <<>>]
      BY <1>4 DEF H!WriteImageMetadata
    <3> QED
      BY <1>5, <3>1
  <2>2. w = [ok |-> TRUE, s |-> H!StreamOf(H!ToWrite(m))]
    BY <1>4, <2>1 DEF H!WriteImageMetadata
  <2>3. w.s = H!StreamOf(H!ToWrite(m))
    BY <2>2
  <2> QED
    BY <1>2, <1>3, <1>4, <2>1, <2>3, EqualBack
<1> QED
  BY <1>1, <1>4, <1>5 DEF H!HeaderReadsBack

(* Whatever setters were called, and in whatever order, what can be written  *)
(* is read back by a new object as it was (headers.cc:39-150,                *)
(* image_metadata.cc:19-415).                                                *)
THEOREM HeadersReadBack == Spec => []HeaderReadsBack
<1>1. Init => HeadersInv
  BY HeadersFirst
<1>2. HeadersInv /\ [Next]_<<which, encodingVars, profileVars, headerVars>> => HeadersInv'
  <2> SUFFICES ASSUME HeadersInv, [Next]_<<which, encodingVars, profileVars, headerVars>>
               PROVE  HeadersInv'
    OBVIOUS
  <2>1. CASE UNCHANGED headerVars
    BY <2>1 DEF headerVars, HeadersInv
  <2>2. CASE H!Next
    BY <2>2, HeadersStep
  <2> QED
    BY <2>1, <2>2 DEF Next
<1>3. HeadersInv => HeaderReadsBack
  BY HeadersAgain DEF HeaderReadsBack
<1> QED
  BY <1>1, <1>2, <1>3, PTL DEF Spec
==============================================================================
