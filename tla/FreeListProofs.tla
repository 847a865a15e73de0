--------------------------- MODULE FreeListProofs ---------------------------
(***************************************************************************)
(* The free list as a vector: sorting and sweeping it is merging the set   *)
(* of its extents, so that it implements ExtentStore and inherits what is  *)
(* proved there.                                                           *)
(***************************************************************************)
EXTENDS FreeList, FoldLemmas

\* Two places of a vector, and the order the stable sort puts them in.
Before(s, i, j) == s[i].offset < s[j].offset \/ (s[i].offset = s[j].offset /\ i < j)

\* The ranks of the stable sort follow that order, and are places.
LEMMA RankIsOrder ==
  ASSUME NEW s \in Seq(Extent)
  PROVE  /\ \A i \in DOMAIN s : Rank(s, i) \in DOMAIN s
         /\ \A i, j \in DOMAIN s : Before(s, i, j) => Rank(s, i) < Rank(s, j)
<1> DEFINE n == Len(s)
           Upto(i) == {k \in DOMAIN s : \/ s[k].offset < s[i].offset
                                        \/ s[k].offset = s[i].offset /\ k <= i}
<1>1. n \in Nat /\ DOMAIN s = 1 .. n /\ \A i \in 1 .. n : s[i].offset \in Nat
  <2>1. \A i \in 1 .. n : s[i] \in Extent
    OBVIOUS
  <2> QED
    BY <2>1 DEF Extent
<1>2. IsFiniteSet(1 .. n) /\ Cardinality(1 .. n) = n
  BY <1>1, FS_Interval
<1>3. ASSUME NEW i \in 1 .. n
      PROVE  /\ Rank(s, i) = Cardinality(Upto(i))
             /\ IsFiniteSet(Upto(i))
             /\ Cardinality(Upto(i)) \in 1 .. n
             /\ i \in Upto(i)
  <2>1. Rank(s, i) = Cardinality(Upto(i))
    BY DEF Rank
  <2>2. i \in Upto(i) /\ Upto(i) \in SUBSET (1 .. n)
    BY <1>1
  <2> HIDE DEF Upto
  <2>3. IsFiniteSet(Upto(i)) /\ Cardinality(Upto(i)) <= n
    BY <1>2, <2>2, FS_Subset
  <2>4. Cardinality(Upto(i)) \in Nat /\ Cardinality(Upto(i)) # 0
    BY <2>2, <2>3, FS_CardinalityType, FS_EmptySet
  <2> QED
    BY <1>1, <2>1, <2>2, <2>3, <2>4
<1>4. ASSUME NEW i \in 1 .. n, NEW j \in 1 .. n, Before(s, i, j)
      PROVE  Rank(s, i) < Rank(s, j)
  <2>1. Upto(i) \subseteq Upto(j) /\ j \notin Upto(i) /\ j \in Upto(j)
    BY <1>1, <1>4 DEF Before
  <2>2. Upto(i) # Upto(j) /\ Upto(i) \in SUBSET Upto(j)
    BY <2>1
  <2> HIDE DEF Upto
  <2>3. /\ Cardinality(Upto(i)) <= Cardinality(Upto(j))
        /\ Cardinality(Upto(i)) # Cardinality(Upto(j))
    BY <1>3, <2>2, FS_Subset
  <2> QED
    BY <1>1, <1>3, <2>3
<1> QED
  BY <1>1, <1>3, <1>4

\* Sorting permutes the vector and puts it in the order of the offsets.
LEMMA SortedIs ==
  ASSUME NEW s \in Seq(Extent)
  PROVE  /\ ByOffset(s) \in Seq(Extent)
         /\ Len(ByOffset(s)) = Len(s)
         /\ Range(ByOffset(s)) = Range(s)
         /\ \A p, q \in 1 .. Len(s) : p <= q => ByOffset(s)[p].offset <= ByOffset(s)[q].offset
<1> DEFINE n == Len(s)
           rank == [i \in 1 .. n |-> Rank(s, i)]
           At(r) == CHOOSE i \in DOMAIN s : Rank(s, i) = r
<1>1. n \in Nat /\ DOMAIN s = 1 .. n /\ \A i \in 1 .. n : s[i] \in Extent /\ s[i].offset \in Nat
  <2>1. \A i \in 1 .. n : s[i] \in Extent
    OBVIOUS
  <2> QED
    BY <2>1 DEF Extent
<1>2. \A i, j \in 1 .. n : i # j => Before(s, i, j) \/ Before(s, j, i)
  BY <1>1 DEF Before
<1>3. \A i \in 1 .. n : Rank(s, i) \in 1 .. n
  BY <1>1, RankIsOrder
<1>4. \A i, j \in 1 .. n : Rank(s, i) = Rank(s, j) => i = j
  <2>1. ASSUME NEW i \in 1 .. n, NEW j \in 1 .. n, i # j PROVE Rank(s, i) # Rank(s, j)
    BY <1>1, <1>2, <1>3, <2>1, RankIsOrder
  <2> QED
    BY <2>1
<1>5. rank \in Injection(1 .. n, 1 .. n)
  BY <1>3, <1>4 DEF Injection, IsInjective
<1>6. \A r \in 1 .. n : \E i \in 1 .. n : Rank(s, i) = r
  <2>1. IsFiniteSet(1 .. n)
    BY <1>1, FS_Interval
  <2>2. rank \in Surjection(1 .. n, 1 .. n)
    <3> HIDE DEF rank
    <3> QED
      BY <1>5, <2>1, FS_Injection
  <2> QED
    BY <2>2 DEF Surjection
<1>7. \A r \in 1 .. n : At(r) \in 1 .. n /\ Rank(s, At(r)) = r
  BY <1>1, <1>6, Zenon
<1>8. ByOffset(s) = [r \in 1 .. n |-> s[At(r)]]
  BY <1>1 DEF ByOffset
<1>9. \A i \in 1 .. n : At(Rank(s, i)) = i
  BY <1>3, <1>4, <1>7
<1> HIDE DEF At, n
<1>10. /\ ByOffset(s) \in Seq(Extent)
       /\ Len(ByOffset(s)) = n
       /\ DOMAIN ByOffset(s) = 1 .. n
  <2>1. ByOffset(s) \in [1 .. n -> Extent]
    BY <1>1, <1>7, <1>8
  <2> QED
    BY <1>1, <2>1
<1>11. Range(ByOffset(s)) = Range(s)
  <2>1. ASSUME NEW r \in 1 .. n PROVE ByOffset(s)[r] \in Range(s)
    BY <1>1, <1>7, <1>8 DEF Range
  <2>2. ASSUME NEW i \in 1 .. n PROVE s[i] \in Range(ByOffset(s))
    <3>1. ByOffset(s)[Rank(s, i)] = s[i]
      BY <1>3, <1>8, <1>9
    <3> QED
      BY <1>3, <1>10, <3>1 DEF Range
  <2> QED
    BY <1>1, <1>10, <2>1, <2>2 DEF Range
<1>12. ASSUME NEW p \in 1 .. n, NEW q \in 1 .. n, p <= q
       PROVE  s[At(p)].offset <= s[At(q)].offset
  <2>1. CASE Before(s, At(q), At(p))
    <3>1. Rank(s, At(q)) < Rank(s, At(p))
      BY <1>1, <1>7, <2>1, RankIsOrder
    <3> QED
      BY <1>1, <1>7, <1>12, <3>1
  <2>2. CASE ~Before(s, At(q), At(p))
    BY <1>1, <1>7, <2>2 DEF Before
  <2> QED
    BY <2>1, <2>2
<1> QED
  BY <1>8, <1>10, <1>11, <1>12 DEF n

-----------------------------------------------------------------------------
\* Joining an extent to one it touches.
LEMMA JoinedTypes ==
  ASSUME NEW e \in Extent, NEW x \in Extent
  PROVE  /\ Joined(e, x) \in Extent
         /\ Joined(e, x).offset = e.offset
         /\ End(Joined(e, x)) = IF End(x) > End(e) THEN End(x) ELSE End(e)
<1> DEFINE top == IF End(x) > End(e) THEN End(x) ELSE End(e)
<1>1. /\ e.offset \in Nat \ {0} /\ e.length \in Nat \ {0}
      /\ x.offset \in Nat \ {0} /\ x.length \in Nat \ {0}
  BY DEF Extent
<1>2. top \in Nat /\ top > e.offset
  BY <1>1 DEF End
<1>3. e = [offset |-> e.offset, length |-> e.length]
  BY DEF Extent
<1>4. Joined(e, x) = [offset |-> e.offset, length |-> top - e.offset]
  BY <1>3 DEF Joined
<1> HIDE DEF top
<1>5. Joined(e, x) \in Extent /\ End(Joined(e, x)) = top
  BY <1>1, <1>2, <1>4 DEF Extent, End
<1> QED
  BY <1>4, <1>5 DEF top

\* A step of the sweep keeps a vector of extents.
LEMMA AbsorbTypes ==
  ASSUME NEW m \in Seq(Extent), NEW x \in Extent
  PROVE  Absorb(m, x) \in Seq(Extent)
<1>1. CASE m # <<>> /\ Touches(Last(m), x)
  <2>1. m[Len(m)] \in Extent /\ Len(m) \in Nat \ {0}
    BY <1>1
  <2>2. Joined(Last(m), x) \in Extent
    BY <2>1, JoinedTypes DEF Last
  <2>3. Front(m) \in Seq(Extent)
    BY <2>1 DEF Front
  <2> QED
    BY <1>1, <2>2, <2>3 DEF Absorb
<1>2. CASE ~(m # <<>> /\ Touches(Last(m), x))
  BY <1>2 DEF Absorb
<1> QED
  BY <1>1, <1>2

\* The vectors the sweep goes through, one after each extent.
LEMMA SweepRounds ==
  ASSUME NEW s \in Seq(Extent)
  PROVE  \E m \in [0 .. Len(s) -> Seq(Extent)] :
           /\ m[0] = <<>>
           /\ \A k \in 1 .. Len(s) : m[k] = Absorb(m[k - 1], s[k])
           /\ FoldLeft(Absorb, <<>>, s) = m[Len(s)]
<1> DEFINE n == Len(s)
           A == Seq(Extent)
           D == [p \in A \X (1 .. n) |-> Absorb(p[1], s[p[2]])]
           Rec(h) == h = [t \in SUBSET (1 .. n) |->
                            IF t = {} THEN <<>> ELSE Absorb(h[t \ {Max(t)}], s[Max(t)])]
           h == CHOOSE g : Rec(g)
<1>1. n \in Nat /\ <<>> \in A /\ DOMAIN s = 1 .. n /\ \A i \in 1 .. n : s[i] \in Extent
  OBVIOUS
<1>2. D \in [A \X (1 .. n) -> A]
  BY <1>1, AbsorbTypes
<1>3. PICK g \in [SUBSET (1 .. n) -> A] : IsFold(g, n, <<>>, D)
  <2> HIDE DEF D, A, n
  <2> QED
    BY <1>1, <1>2, FoldDefined, Zenon
<1>4. Rec(g)
  <2>1. ASSUME NEW t \in SUBSET (1 .. n), t # {}
        PROVE  D[<<g[t \ {Max(t)}], Max(t)>>] = Absorb(g[t \ {Max(t)}], s[Max(t)])
    <3>1. Max(t) \in 1 .. n /\ g[t \ {Max(t)}] \in A
      BY <1>1, <2>1, MaxIn
    <3> QED
      BY <3>1
  <2> HIDE DEF D, A
  <2> QED
    BY <1>3, <2>1 DEF IsFold
<1>5. Rec(h)
  BY <1>4, Zenon
<1>6. FoldLeft(Absorb, <<>>, s) = h[1 .. n]
  BY <1>1 DEF FoldLeft, MapThenFoldSet
<1>7. h[{}] = <<>>
  BY <1>5
<1>8. ASSUME NEW t \in SUBSET (1 .. n), t # {}, h[t \ {Max(t)}] \in A
      PROVE  h[t] = D[<<h[t \ {Max(t)}], Max(t)>>]
  <2>1. Max(t) \in 1 .. n
    BY <1>1, <1>8, MaxIn
  <2>2. D[<<h[t \ {Max(t)}], Max(t)>>] = Absorb(h[t \ {Max(t)}], s[Max(t)])
    <3> HIDE DEF h
    <3> QED
      BY <1>8, <2>1
  <2> HIDE DEF h, D
  <2> QED
    BY <1>5, <1>8, <2>2
<1> HIDE DEF h
<1>9. PICK m \in [0 .. n -> A] : IsRounds(m, h, n, <<>>, D)
  <2>1. IsFoldIn(h, n, A, <<>>, D)
    BY <1>7, <1>8 DEF IsFoldIn
  <2> HIDE DEF A, D, n
  <2> QED
    BY <1>1, <1>2, <2>1, FoldRounds, Zenon
<1>10. ASSUME NEW k \in 1 .. n PROVE m[k] = Absorb(m[k - 1], s[k])
  <2>1. k - 1 \in 0 .. n
    BY <1>1
  <2>2. m[k - 1] \in A
    BY <2>1
  <2>3. D[<<m[k - 1], k>>] = Absorb(m[k - 1], s[k])
    BY <2>2
  <2> QED
    BY <1>9, <2>3 DEF IsRounds
<1>11. m[0] = <<>> /\ h[1 .. n] = m[n]
  BY <1>9 DEF IsRounds
<1> QED
  BY <1>6, <1>10, <1>11

-----------------------------------------------------------------------------
\* What the sweep has made: extents in order that do not touch.
Apart(m) == \A i, j \in DOMAIN m : i < j => End(m[i]) < m[j].offset

\* A vector without its last extent.
LEMMA FrontIs ==
  ASSUME NEW m \in Seq(Extent), m # <<>>
  PROVE  /\ Front(m) \in Seq(Extent) /\ Len(Front(m)) = Len(m) - 1
         /\ \A i \in 1 .. (Len(m) - 1) : Front(m)[i] = m[i]
<1>1. Len(m) \in Nat \ {0}
  OBVIOUS
<1>2. Front(m) \in Seq(Extent)
  BY <1>1 DEF Front
<1>3. Len(Front(m)) = Len(m) - 1
  BY <1>1 DEF Front
<1>4. \A i \in 1 .. (Len(m) - 1) : Front(m)[i] = m[i]
  BY <1>1 DEF Front
<1> QED
  BY <1>2, <1>3, <1>4

\* Vec::push adds one extent to those of the vector.
LEMMA RangeAppend ==
  ASSUME NEW m \in Seq(Extent), NEW x \in Extent
  PROVE  Range(Append(m, x)) = Range(m) \cup {x}
<1>1. /\ DOMAIN m = 1 .. Len(m) /\ Len(m) \in Nat
      /\ DOMAIN Append(m, x) = 1 .. (Len(m) + 1)
      /\ Append(m, x)[Len(m) + 1] = x
      /\ \A i \in 1 .. Len(m) : Append(m, x)[i] = m[i]
  OBVIOUS
<1>2. 1 .. (Len(m) + 1) = (1 .. Len(m)) \cup {Len(m) + 1}
  BY <1>1
<1> QED
  BY <1>1, <1>2 DEF Range

\* The bytes of a vector without and with its last extent.
LEMMA CoveredLast ==
  ASSUME NEW m \in Seq(Extent), NEW x \in Extent
  PROVE  /\ Covered(Range(Append(m, x))) = Covered(Range(m)) \cup Bytes(x)
         /\ m # <<>> => Covered(Range(m)) = Covered(Range(Front(m))) \cup Bytes(Last(m))
<1>1. Range(Append(m, x)) = Range(m) \cup {x}
  BY RangeAppend
<1>2. ASSUME m # <<>> PROVE Range(m) = Range(Front(m)) \cup {Last(m)}
  <2>1. Len(m) \in Nat \ {0} /\ DOMAIN m = 1 .. Len(m)
    BY <1>2
  <2>2. DOMAIN Front(m) = 1 .. (Len(m) - 1) /\ \A i \in 1 .. (Len(m) - 1) : Front(m)[i] = m[i]
    BY <1>2, <2>1, FrontIs
  <2>3. DOMAIN m = DOMAIN Front(m) \cup {Len(m)}
    BY <2>1, <2>2
  <2> QED
    BY <2>2, <2>3 DEF Range, Last
<1> QED
  BY <1>1, <1>2 DEF Covered

\* One step of merge_adjacent's loop: the extent is covered, by the last one
\* made or by a new one, and what has been made stays apart.
LEMMA AbsorbIs ==
  ASSUME NEW m \in Seq(Extent), NEW x \in Extent, Apart(m),
         m # <<>> => Last(m).offset <= x.offset
  PROVE  /\ Covered(Range(Absorb(m, x))) = Covered(Range(m)) \cup Bytes(x)
         /\ Apart(Absorb(m, x))
         /\ Absorb(m, x) # <<>> /\ Last(Absorb(m, x)).offset <= x.offset
         /\ Len(Absorb(m, x)) <= Len(m) + 1
<1>1. Len(m) \in Nat /\ DOMAIN m = 1 .. Len(m) /\ \A i \in 1 .. Len(m) : m[i] \in Extent
  OBVIOUS
<1>2. \A e \in Extent : e.offset \in Nat /\ e.length \in Nat /\ End(e) \in Nat /\ e.offset < End(e)
  BY DEF Extent, End
<1>3. CASE m # <<>> /\ Touches(Last(m), x)
  <2> DEFINE last == m[Len(m)]
             j == Joined(last, x)
             f == Front(m)
  <2>1. Len(m) \in Nat \ {0} /\ last \in Extent /\ Last(m) = last
    BY <1>1, <1>3 DEF Last
  <2>2. j \in Extent /\ j.offset = last.offset /\ End(j) = IF End(x) > End(last) THEN End(x) ELSE End(last)
    BY <2>1, JoinedTypes
  <2>3. Absorb(m, x) = Append(f, j)
    BY <1>3, <2>1 DEF Absorb
  <2>4. /\ f \in Seq(Extent) /\ Len(f) = Len(m) - 1
        /\ \A i \in 1 .. (Len(m) - 1) : f[i] = m[i]
    BY <1>3, FrontIs
  <2> HIDE DEF f, j, last
  <2>5. Bytes(j) = Bytes(last) \cup Bytes(x)
    <3>1. last.offset <= x.offset /\ x.offset <= End(last)
      BY <1>3, <2>1 DEF Touches
    <3>2. last.offset \in Nat /\ x.offset \in Nat /\ End(last) \in Nat /\ End(x) \in Nat
      BY <1>2, <2>1
    <3>3. Bytes(j) = last.offset .. ((IF End(x) > End(last) THEN End(x) ELSE End(last)) - 1)
      BY <2>2 DEF Bytes
    <3>4. Bytes(last) = last.offset .. (End(last) - 1) /\ Bytes(x) = x.offset .. (End(x) - 1)
      BY DEF Bytes
    <3> QED
      BY <3>1, <3>2, <3>3, <3>4
  <2>6. Covered(Range(Append(f, j))) = Covered(Range(m)) \cup Bytes(x)
    <3>1. Covered(Range(m)) = Covered(Range(f)) \cup Bytes(last)
      BY <1>3, <2>1, CoveredLast DEF f
    <3>2. Covered(Range(Append(f, j))) = Covered(Range(f)) \cup Bytes(j)
      BY <2>2, <2>4, CoveredLast
    <3> QED
      BY <2>5, <3>1, <3>2
  <2>7. Apart(Append(f, j))
    <3>1. ASSUME NEW i \in 1 .. Len(m), NEW k \in 1 .. Len(m), i < k
          PROVE  End(Append(f, j)[i]) < Append(f, j)[k].offset
      <4>1. i \in 1 .. (Len(m) - 1) /\ Append(f, j)[i] = m[i] /\ End(m[i]) < m[k].offset
        BY <1>1, <2>4, <3>1 DEF Apart
      <4>2. CASE k = Len(m)
        BY <2>1, <2>2, <2>4, <4>1, <4>2 DEF last
      <4>3. CASE k # Len(m)
        BY <2>1, <2>4, <4>1, <4>3
      <4> QED
        BY <4>2, <4>3
    <3>2. DOMAIN Append(f, j) = 1 .. Len(m)
      BY <2>1, <2>4
    <3> QED
      BY <3>1, <3>2 DEF Apart
  <2>8. Last(Append(f, j)) = j /\ Len(Append(f, j)) = Len(m) /\ Append(f, j) # <<>>
    BY <2>1, <2>4 DEF Last
  <2> QED
    BY <1>1, <1>3, <2>1, <2>2, <2>3, <2>6, <2>7, <2>8
<1>4. CASE ~(m # <<>> /\ Touches(Last(m), x))
  <2>1. Absorb(m, x) = Append(m, x)
    BY <1>4 DEF Absorb
  <2>2. Apart(Append(m, x))
    <3>1. ASSUME NEW i \in 1 .. (Len(m) + 1), NEW k \in 1 .. (Len(m) + 1), i < k
          PROVE  End(Append(m, x)[i]) < Append(m, x)[k].offset
      <4>1. i \in 1 .. Len(m) /\ Append(m, x)[i] = m[i] /\ Len(m) \in 1 .. Len(m)
        BY <1>1, <3>1
      <4>2. CASE k = Len(m) + 1
        <5>1. m # <<>> /\ End(m[Len(m)]) < x.offset
          BY <1>1, <1>2, <1>4, <4>1 DEF Touches, Last
        <5>2. i = Len(m) \/ End(m[i]) < m[Len(m)].offset
          <6>1. SUFFICES ASSUME i # Len(m) PROVE End(m[i]) < m[Len(m)].offset
            OBVIOUS
          <6> DEFINE n == Len(m)
          <6>3. DOMAIN m = 1 .. n /\ n \in 1 .. n /\ i \in 1 .. n /\ i # n
            BY <1>1, <4>1, <6>1
          <6> HIDE DEF n
          <6>4. i < n
            BY <6>3
          <6>2. i \in DOMAIN m /\ Len(m) \in DOMAIN m /\ i < Len(m)
            BY <6>3, <6>4 DEF n
          <6> QED
            BY <6>2 DEF Apart
        <5>3. m[i] \in Extent /\ m[Len(m)] \in Extent
          BY <1>1, <4>1
        <5>4. End(m[i]) < x.offset
          BY <1>2, <5>1, <5>2, <5>3
        <5> QED
          BY <1>1, <4>1, <4>2, <5>4
      <4>3. CASE k # Len(m) + 1
        <5>1. k \in 1 .. Len(m) /\ Append(m, x)[k] = m[k]
          BY <1>1, <4>3
        <5> QED
          BY <1>1, <3>1, <4>1, <5>1 DEF Apart
      <4> QED
        BY <4>2, <4>3
    <3>2. DOMAIN Append(m, x) = 1 .. (Len(m) + 1)
      BY <1>1
    <3> QED
      BY <3>1, <3>2 DEF Apart
  <2>3. Last(Append(m, x)) = x /\ Len(Append(m, x)) = Len(m) + 1 /\ Append(m, x) # <<>>
    BY <1>1 DEF Last
  <2> QED
    BY <1>1, <1>2, <2>1, <2>2, <2>3, CoveredLast
<1> QED
  BY <1>3, <1>4

\* The whole sweep over a vector that is in order.
LEMMA SweepIs ==
  ASSUME NEW s \in Seq(Extent),
         \A p, q \in 1 .. Len(s) : p <= q => s[p].offset <= s[q].offset
  PROVE  LET r == FoldLeft(Absorb, <<>>, s) IN
         /\ r \in Seq(Extent) /\ Len(r) <= Len(s)
         /\ Apart(r)
         /\ Covered(Range(r)) = Covered(Range(s))
<1> DEFINE n == Len(s)
           Upto(k) == {s[i] : i \in 1 .. k}
<1>1. n \in Nat /\ DOMAIN s = 1 .. n /\ \A i \in 1 .. n : s[i] \in Extent /\ s[i].offset \in Nat
  <2>1. \A i \in 1 .. n : s[i] \in Extent
    OBVIOUS
  <2> QED
    BY <2>1 DEF Extent
<1>2. PICK m \in [0 .. n -> Seq(Extent)] :
        /\ m[0] = <<>>
        /\ \A k \in 1 .. n : m[k] = Absorb(m[k - 1], s[k])
        /\ FoldLeft(Absorb, <<>>, s) = m[n]
  BY SweepRounds
<1> DEFINE Good(k) == /\ Len(m[k]) <= k
                      /\ Apart(m[k])
                      /\ Covered(Range(m[k])) = Covered(Upto(k))
                      /\ m[k] # <<>> => k # 0 /\ Last(m[k]).offset <= s[k].offset
           T == {k \in 0 .. n : Good(k)}
<1>3. 0 \in T
  <2>1. Upto(0) = {} /\ Range(<<>>) = {}
    BY DEF Range
  <2>2. Apart(<<>>)
    BY DEF Apart
  <2>3. m[0] = <<>> /\ Len(<<>>) = 0 /\ 0 \in 0 .. n
    BY <1>1, <1>2
  <2>4. Good(0)
    <3>1. Len(m[0]) <= 0 /\ Apart(m[0]) /\ (m[0] # <<>> => FALSE)
      BY <2>2, <2>3
    <3>2. Covered(Range(m[0])) = Covered(Upto(0))
      BY <2>1, <2>3, Zenon
    <3> HIDE DEF Upto
    <3> QED
      BY <3>1, <3>2
  <2> HIDE DEF Good
  <2> QED
    BY <2>3, <2>4
<1>4. ASSUME NEW k \in 0 .. (n - 1), k \in T PROVE k + 1 \in T
  <2>1. /\ k \in 0 .. n /\ k + 1 \in 1 .. n /\ k + 1 \in 0 .. n /\ (k + 1) - 1 = k
        /\ m[k] \in Seq(Extent) /\ s[k + 1] \in Extent
    BY <1>1
  <2>2. Good(k)
    BY <1>4
  <2>3. m[k + 1] = Absorb(m[k], s[k + 1])
    BY <1>2, <2>1
  <2>4. m[k] # <<>> => Last(m[k]).offset <= s[k + 1].offset
    <3>1. SUFFICES ASSUME m[k] # <<>> PROVE Last(m[k]).offset <= s[k + 1].offset
      OBVIOUS
    <3>2. k \in 1 .. n /\ Last(m[k]).offset <= s[k].offset
      BY <2>1, <2>2, <3>1
    <3>3. s[k].offset <= s[k + 1].offset
      BY <2>1, <3>2
    <3>4. Last(m[k]) \in Extent
      BY <2>1, <3>1 DEF Last
    <3>5. Last(m[k]).offset \in Nat
      BY <3>4 DEF Extent
    <3> QED
      BY <1>1, <2>1, <3>2, <3>3, <3>5
  <2>5. /\ Covered(Range(m[k + 1])) = Covered(Range(m[k])) \cup Bytes(s[k + 1])
        /\ Apart(m[k + 1])
        /\ Last(m[k + 1]).offset <= s[k + 1].offset
        /\ Len(m[k + 1]) <= Len(m[k]) + 1
    BY <2>1, <2>2, <2>3, <2>4, AbsorbIs
  <2>6. Covered(Upto(k + 1)) = Covered(Upto(k)) \cup Bytes(s[k + 1])
    <3>1. 1 .. (k + 1) = (1 .. k) \cup {k + 1}
      OBVIOUS
    <3>2. Upto(k + 1) = Upto(k) \cup {s[k + 1]}
      BY <3>1
    <3> HIDE DEF Upto
    <3> QED
      BY <3>2 DEF Covered
  <2>7. m[k + 1] \in Seq(Extent)
    BY <2>1
  <2>8. Len(m[k + 1]) <= k + 1
    BY <2>1, <2>2, <2>5, <2>7
  <2>9. Good(k + 1)
    <3> HIDE DEF Upto
    <3> QED
      BY <2>1, <2>2, <2>5, <2>6, <2>8
  <2> HIDE DEF Good
  <2> QED
    BY <2>1, <2>9
<1>5. n \in T
  <2> HIDE DEF T
  <2>1. 0 .. n \subseteq T
    BY <1>1, <1>3, <1>4, UpTo
  <2> QED
    BY <1>1, <2>1
<1>6. Upto(n) = Range(s)
  BY <1>1 DEF Range
<1>7. m[n] \in Seq(Extent)
  BY <1>1
<1> QED
  BY <1>2, <1>5, <1>6, <1>7

-----------------------------------------------------------------------------
\* Extents that do not touch are told by the bytes they cover: they are the
\* maximal runs of those bytes.
LEMMA MergeUnique ==
  ASSUME NEW S \in SUBSET Extent, NEW T \in SUBSET Extent,
         Covered(T) = Covered(S),
         \A e, f \in T : e # f => End(e) < f.offset \/ End(f) < e.offset
  PROVE  T = Merge(S)
<1>1. \A e \in Extent :
        /\ e.offset \in Nat \ {0} /\ End(e) \in Nat /\ e.offset < End(e)
        /\ e = [offset |-> e.offset, length |-> End(e) - e.offset]
  BY DEF Extent, End
<1>2. \A U \in SUBSET Extent, x \in Int :
        x \in Covered(U) <=> \E e \in U : e.offset <= x /\ x < End(e)
  BY <1>1 DEF Covered, Bytes
<1>3. ASSUME NEW e \in T
      PROVE  /\ e.offset .. (End(e) - 1) \subseteq Covered(T)
             /\ e.offset - 1 \notin Covered(T)
             /\ End(e) \notin Covered(T)
  <2>1. e \in Extent
    OBVIOUS
  <2>2. ASSUME e.offset - 1 \in Covered(T) PROVE FALSE
    <3>1. PICK f \in T : f.offset <= e.offset - 1 /\ e.offset - 1 < End(f)
      BY <1>1, <1>2, <2>1, <2>2
    <3> QED
      BY <1>1, <2>1, <3>1
  <2>3. ASSUME End(e) \in Covered(T) PROVE FALSE
    <3>1. PICK f \in T : f.offset <= End(e) /\ End(e) < End(f)
      BY <1>1, <1>2, <2>1, <2>3
    <3> QED
      BY <1>1, <2>1, <3>1
  <2>4. Bytes(e) \subseteq Covered(T)
    BY DEF Covered
  <2> QED
    BY <2>2, <2>3, <2>4 DEF Bytes
<1>4. ASSUME NEW e \in T PROVE e \in Merge(S)
  <2>1. e \in Extent /\ e.offset \in Covered(S) /\ End(e) - 1 \in Covered(S)
    BY <1>1, <1>2
  <2>2. PICK a \in S : a.offset <= e.offset /\ e.offset < End(a)
    BY <1>1, <1>2, <2>1
  <2>3. PICK b \in S : b.offset <= End(e) - 1 /\ End(e) - 1 < End(b)
    BY <1>1, <1>2, <2>1
  <2>4. a.offset = e.offset
    <3>1. SUFFICES ASSUME a.offset # e.offset PROVE e.offset - 1 \in Covered(S)
      BY <1>3
    <3>2. a \in Extent /\ e.offset - 1 \in Int /\ a.offset <= e.offset - 1 /\ e.offset - 1 < End(a)
      BY <1>1, <2>1, <2>2, <3>1
    <3> QED
      BY <1>2, <3>2
  <2>5. End(b) = End(e)
    <3>1. SUFFICES ASSUME End(b) # End(e) PROVE End(e) \in Covered(S)
      BY <1>3
    <3>2. b \in Extent /\ End(e) \in Int /\ b.offset <= End(e) /\ End(e) < End(b)
      BY <1>1, <2>1, <2>3, <3>1
    <3> QED
      BY <1>2, <3>2
  <2>6. e = [offset |-> a.offset, length |-> End(b) - a.offset]
    BY <1>1, <2>1, <2>4, <2>5
  <2> DEFINE r == <<a, b>>
  <2>7. r \in S \X S /\ r[1] = a /\ r[2] = b
    OBVIOUS
  <2>8. /\ a.offset < End(b)
        /\ a.offset .. (End(b) - 1) \subseteq Covered(S)
        /\ a.offset - 1 \notin Covered(S)
        /\ End(b) \notin Covered(S)
    BY <1>1, <1>3, <2>1, <2>4, <2>5
  <2> HIDE DEF r
  <2> QED
    BY <2>6, <2>7, <2>8 DEF Merge
<1>5. ASSUME NEW x \in Merge(S) PROVE x \in T
  <2>1. PICK r \in S \X S :
          /\ x = [offset |-> r[1].offset, length |-> End(r[2]) - r[1].offset]
          /\ r[1].offset < End(r[2])
          /\ r[1].offset .. (End(r[2]) - 1) \subseteq Covered(S)
          /\ r[1].offset - 1 \notin Covered(S)
          /\ End(r[2]) \notin Covered(S)
    BY <1>5 DEF Merge
  <2> DEFINE from == r[1].offset
             to == End(r[2])
  <2>2. from \in Nat \ {0} /\ to \in Nat /\ from < to
    BY <1>1, <2>1
  <2>3. /\ from .. (to - 1) \subseteq Covered(T)
        /\ from - 1 \notin Covered(T)
        /\ to \notin Covered(T)
        /\ x = [offset |-> from, length |-> to - from]
    BY <2>1
  <2> HIDE DEF from, to
  <2>4. from \in Covered(T)
    BY <2>2, <2>3
  <2>5. PICK f \in T : f.offset <= from /\ from < End(f)
    BY <1>2, <2>2, <2>4
  <2>6. f \in Extent
    OBVIOUS
  <2>7. f.offset = from
    <3>1. SUFFICES ASSUME f.offset # from PROVE from - 1 \in Covered(T)
      BY <2>3
    <3>2. from - 1 \in Int /\ f.offset <= from - 1 /\ from - 1 < End(f)
      BY <1>1, <2>2, <2>5, <2>6, <3>1
    <3> QED
      BY <1>2, <3>2
  <2>8. End(f) = to
    <3>1. CASE End(f) < to
      <4>1. End(f) \in from .. (to - 1)
        BY <1>1, <2>2, <2>5, <2>6, <3>1
      <4> QED
        BY <1>3, <2>3, <4>1
    <3>2. CASE to < End(f)
      <4>1. to \in Int /\ f.offset <= to
        BY <1>1, <2>2, <2>5, <2>6
      <4> QED
        BY <1>2, <2>3, <3>2, <4>1
    <3> QED
      BY <1>1, <2>2, <2>6, <3>1, <3>2
  <2> QED
    BY <1>1, <2>3, <2>6, <2>7, <2>8
<1> QED
  BY <1>4, <1>5

\* A vector whose extents do not touch has none of them twice.
LEMMA ApartIs ==
  ASSUME NEW m \in Seq(Extent), Apart(m)
  PROVE  /\ IsInjective(m)
         /\ \A e, f \in Range(m) : e # f => End(e) < f.offset \/ End(f) < e.offset
<1>1. Len(m) \in Nat /\ DOMAIN m = 1 .. Len(m)
  OBVIOUS
<1>2. ASSUME NEW i \in DOMAIN m, NEW j \in DOMAIN m, i # j
      PROVE  /\ m[i] # m[j]
             /\ End(m[i]) < m[j].offset \/ End(m[j]) < m[i].offset
  <2>1. m[i] \in Extent /\ m[j] \in Extent
    OBVIOUS
  <2>2. i < j \/ j < i
    BY <1>1, <1>2
  <2>3. End(m[i]) < m[j].offset \/ End(m[j]) < m[i].offset
    BY <2>2 DEF Apart
  <2> QED
    BY <2>1, <2>3 DEF End, Extent
<1> QED
  BY <1>2 DEF Range, IsInjective

\* merge_adjacent merges.
LEMMA MergeAdjacentIs ==
  ASSUME NEW s \in Seq(Extent)
  PROVE  /\ merge_adjacent(s) \in Seq(Extent)
         /\ Len(merge_adjacent(s)) <= Len(s)
         /\ IsInjective(merge_adjacent(s))
         /\ Range(merge_adjacent(s)) = Merge(Range(s))
         /\ Covered(Range(merge_adjacent(s))) = Covered(Range(s))
<1>1. Range(s) \in SUBSET Extent /\ Len(s) \in Nat /\ DOMAIN s = 1 .. Len(s)
  BY DEF Range
<1>2. CASE Len(s) < 2
  <2>1. merge_adjacent(s) = s
    BY <1>2 DEF merge_adjacent
  <2>2. \A i, j \in DOMAIN s : i = j
    BY <1>1, <1>2
  <2>3. IsInjective(s) /\ \A e, f \in Range(s) : e = f
    BY <2>2 DEF IsInjective, Range
  <2> QED
    BY <1>1, <2>1, <2>3, MergeUnique
<1>3. CASE ~(Len(s) < 2)
  <2> DEFINE o == ByOffset(s)
             r == FoldLeft(Absorb, <<>>, o)
  <2>1. /\ o \in Seq(Extent) /\ Len(o) = Len(s) /\ Range(o) = Range(s)
        /\ \A p, q \in 1 .. Len(o) : p <= q => o[p].offset <= o[q].offset
    BY SortedIs
  <2> HIDE DEF o
  <2>2. /\ r \in Seq(Extent) /\ Len(r) <= Len(o) /\ Apart(r)
        /\ Covered(Range(r)) = Covered(Range(o))
    BY <2>1, SweepIs
  <2>3. merge_adjacent(s) = r
    BY <1>3 DEF merge_adjacent, o
  <2> HIDE DEF r
  <2>4. Range(r) \in SUBSET Extent
    BY <2>2 DEF Range
  <2>5. IsInjective(r) /\ \A e, f \in Range(r) : e # f => End(e) < f.offset \/ End(f) < e.offset
    BY <2>2, ApartIs
  <2>6. Range(r) = Merge(Range(s))
    BY <1>1, <2>1, <2>2, <2>4, <2>5, MergeUnique
  <2> QED
    BY <2>1, <2>2, <2>3, <2>5, <2>6
<1> QED
  BY <1>2, <1>3

\* FreeList::free: a full list is left alone, any other is merged with the
\* freed extent.
LEMMA FreedIs ==
  ASSUME NEW s \in Seq(Extent), NEW e \in Extent
  PROVE  /\ Freed(s, e) \in Seq(Extent)
         /\ Len(Freed(s, e)) <= Len(s) + 1
         /\ IsInjective(s) => IsInjective(Freed(s, e))
         /\ Len(s) >= MaxExtents => Freed(s, e) = s
         /\ Len(s) < MaxExtents =>
              /\ Range(Freed(s, e)) = Merge(Range(s) \cup {e})
              /\ Covered(Range(Freed(s, e))) = Covered(Range(s)) \cup Bytes(e)
<1>1. e.offset # 0 /\ e.length # 0 /\ Len(s) \in Nat /\ MaxExtents \in Nat
  BY ExtentsAssumption DEF Extent
<1>2. Append(s, e) \in Seq(Extent) /\ Len(Append(s, e)) = Len(s) + 1
  OBVIOUS
<1>3. Range(Append(s, e)) = Range(s) \cup {e}
  BY RangeAppend
<1>4. CASE Len(s) >= MaxExtents
  BY <1>1, <1>4 DEF Freed, Capped
<1>5. CASE Len(s) < MaxExtents
  <2>1. Freed(s, e) = merge_adjacent(Append(s, e))
    BY <1>1, <1>5 DEF Freed, Capped
  <2> DEFINE a == Append(s, e)
  <2> HIDE DEF a
  <2>2. /\ merge_adjacent(a) \in Seq(Extent)
        /\ Len(merge_adjacent(a)) <= Len(a)
        /\ IsInjective(merge_adjacent(a))
        /\ Range(merge_adjacent(a)) = Merge(Range(a))
        /\ Covered(Range(merge_adjacent(a))) = Covered(Range(a))
    BY <1>2, MergeAdjacentIs DEF a
  <2>3. Freed(s, e) = merge_adjacent(a) /\ Len(a) = Len(s) + 1 /\ Range(a) = Range(s) \cup {e}
    BY <1>2, <1>3, <2>1 DEF a
  <2>4. Covered(Range(a)) = Covered(Range(s)) \cup Bytes(e)
    BY <2>3 DEF Covered
  <2>5. /\ Freed(s, e) \in Seq(Extent)
        /\ Len(Freed(s, e)) <= Len(s) + 1
        /\ IsInjective(Freed(s, e))
    BY <2>2, <2>3
  <2>6. /\ Range(Freed(s, e)) = Merge(Range(s) \cup {e})
        /\ Covered(Range(Freed(s, e))) = Covered(Range(s)) \cup Bytes(e)
    BY <2>2, <2>3, <2>4
  <2> HIDE DEF a
  <2>7. ~(Len(s) >= MaxExtents)
    BY <1>1, <1>5
  <2> QED
    BY <2>5, <2>6, <2>7
<1> QED
  BY <1>1, <1>4, <1>5

-----------------------------------------------------------------------------
\* The second part of a concatenation.
LEMMA ConcatAt ==
  ASSUME NEW a \in Seq(Extent), NEW b \in Seq(Extent), NEW j \in 1 .. (Len(a) + Len(b)),
         j > Len(a)
  PROVE  (a \o b)[j] = b[j - Len(a)]
OBVIOUS

\* alloc takes the extent at an index out, and puts what is left of it at the
\* end.
LEMMA TakenIs ==
  ASSUME NEW s \in Seq(Extent), IsInjective(s),
         \A e, f \in Range(s) : e # f => End(e) < f.offset \/ End(f) < e.offset,
         NEW i \in DOMAIN s, NEW size \in Nat \ {0}, s[i].length >= size
  PROVE  /\ Taken(s, i, size) \in Seq(Extent)
         /\ Len(Taken(s, i, size)) <= Len(s)
         /\ IsInjective(Taken(s, i, size))
         /\ Range(Taken(s, i, size)) = (Range(s) \ {s[i]}) \cup Store!Remainder(s[i], size)
<1> DEFINE n == Len(s)
           rest == RemoveAt(s, i)
           k == Kept(s[i], size)
<1>1. n \in Nat /\ DOMAIN s = 1 .. n /\ i \in 1 .. n /\ s[i] \in Extent
  OBVIOUS
<1>2. /\ s[i].offset \in Nat \ {0} /\ s[i].length \in Nat \ {0}
      /\ Sector \in Nat \ {0}
  BY <1>1, ExtentsAssumption DEF Extent
<1>3. /\ rest \in Seq(Extent) /\ Len(rest) = n - 1 /\ DOMAIN rest = 1 .. (n - 1)
      /\ \A j \in 1 .. (n - 1) : rest[j] = IF j < i THEN s[j] ELSE s[j + 1]
  <2>1. SubSeq(s, 1, i - 1) \in Seq(Extent) /\ Len(SubSeq(s, 1, i - 1)) = i - 1
    BY <1>1
  <2>2. SubSeq(s, i + 1, n) \in Seq(Extent) /\ Len(SubSeq(s, i + 1, n)) = n - i
    BY <1>1
  <2>3. \A j \in 1 .. (i - 1) : SubSeq(s, 1, i - 1)[j] = s[j]
    BY <1>1
  <2>4. \A j \in 1 .. (n - i) : SubSeq(s, i + 1, n)[j] = s[i + j]
    BY <1>1
  <2>5. rest = SubSeq(s, 1, i - 1) \o SubSeq(s, i + 1, n)
    BY DEF RemoveAt
  <2> DEFINE a == SubSeq(s, 1, i - 1)
             b == SubSeq(s, i + 1, n)
  <2> HIDE DEF a, b, n, rest
  <2>6. a \o b \in Seq(Extent) /\ Len(a \o b) = n - 1 /\ DOMAIN (a \o b) = 1 .. (n - 1)
    BY <1>1, <2>1, <2>2 DEF a, b
  <2>7. ASSUME NEW j \in 1 .. (n - 1) PROVE (a \o b)[j] = IF j < i THEN s[j] ELSE s[j + 1]
    <3>0. a \in Seq(Extent) /\ b \in Seq(Extent) /\ Len(a) = i - 1 /\ Len(b) = n - i
      BY <2>1, <2>2 DEF a, b
    <3>1. CASE j < i
      <4>1. j \in 1 .. (i - 1)
        BY <1>1, <3>1
      <4>2. (a \o b)[j] = a[j]
        BY <1>1, <3>0, <4>1
      <4> QED
        BY <2>3, <3>1, <4>1, <4>2 DEF a
    <3>2. CASE ~(j < i)
      <4>1. j - (i - 1) \in 1 .. (n - i) /\ i + (j - (i - 1)) = j + 1
        BY <1>1, <3>2
      <4>2. (a \o b)[j] = b[j - Len(a)]
        <5>1. j \in 1 .. (Len(a) + Len(b)) /\ j > Len(a)
          BY <1>1, <3>0, <3>2
        <5> QED
          BY <3>0, <5>1, ConcatAt
      <4> QED
        BY <2>4, <3>0, <3>2, <4>1, <4>2 DEF b
    <3> QED
      BY <3>1, <3>2
  <2> QED
    BY <2>5, <2>6, <2>7 DEF a, b
<1>4. Range(rest) = Range(s) \ {s[i]}
  <2>1. ASSUME NEW j \in 1 .. (n - 1) PROVE rest[j] \in Range(s) \ {s[i]}
    <3>1. PICK l \in 1 .. n : rest[j] = s[l] /\ l # i
      BY <1>1, <1>3
    <3> QED
      BY <1>1, <3>1 DEF Range, IsInjective
  <2>2. ASSUME NEW l \in 1 .. n, l # i PROVE s[l] \in Range(rest)
    <3>1. CASE l < i
      <4>1. l \in 1 .. (n - 1) /\ rest[l] = s[l]
        BY <1>1, <1>3, <3>1
      <4> QED
        BY <1>3, <4>1 DEF Range
    <3>2. CASE i < l
      <4>1. l - 1 \in 1 .. (n - 1) /\ rest[l - 1] = s[l]
        BY <1>1, <1>3, <3>2
      <4> QED
        BY <1>3, <4>1 DEF Range
    <3> QED
      BY <1>1, <2>2, <3>1, <3>2
  <2>3. Range(rest) \subseteq Range(s) \ {s[i]}
    BY <1>3, <2>1 DEF Range
  <2>4. Range(s) \ {s[i]} \subseteq Range(rest)
    BY <1>1, <2>2 DEF Range
  <2> QED
    BY <2>3, <2>4
<1>5. IsInjective(rest)
  <2>1. ASSUME NEW j \in 1 .. (n - 1), NEW l \in 1 .. (n - 1), rest[j] = rest[l] PROVE j = l
    <3> DEFINE p(x) == IF x < i THEN x ELSE x + 1
    <3>1. p(j) \in 1 .. n /\ p(l) \in 1 .. n /\ rest[j] = s[p(j)] /\ rest[l] = s[p(l)]
      BY <1>1, <1>3
    <3>2. p(j) = p(l)
      BY <1>1, <2>1, <3>1 DEF IsInjective
    <3> QED
      BY <1>1, <3>2
  <2> QED
    BY <1>3, <2>1 DEF IsInjective
<1> HIDE DEF rest
<1>6. CASE WorthKeeping(s[i].length - size)
  <2>1. Taken(s, i, size) = Append(rest, k)
    BY <1>6 DEF Taken, rest
  <2>2. k \in Extent /\ k.offset = s[i].offset + size /\ s[i].length - size >= Sector
    <3>1. s[i].length - size >= Sector
      BY <1>6 DEF WorthKeeping
    <3>2. s[i].length - size \in Nat \ {0} /\ s[i].offset + size \in Nat \ {0}
      BY <1>2, <3>1
    <3> QED
      BY <3>1, <3>2 DEF Kept, Extent
  <2>3. Store!Remainder(s[i], size) = {k}
    BY <2>2 DEF Store!Remainder, Kept
  <2>4. Range(Append(rest, k)) = Range(rest) \cup {k}
    BY <1>3, <2>2, RangeAppend
  <2>5. k \notin Range(rest)
    <3>1. SUFFICES ASSUME k \in Range(rest) PROVE FALSE
      OBVIOUS
    <3>2. k \in Range(s) /\ k # s[i] /\ s[i] \in Range(s)
      BY <1>1, <1>4, <3>1 DEF Range
    <3>3. End(k) < s[i].offset \/ End(s[i]) < k.offset
      BY <3>2
    <3>4. /\ s[i].offset \in Nat /\ s[i].length \in Nat /\ k.length \in Nat \ {0}
          /\ k.offset = s[i].offset + size /\ size <= s[i].length
      BY <1>2, <2>2 DEF Extent
    <3> HIDE DEF k
    <3> QED
      BY <3>3, <3>4 DEF End
  <2> HIDE DEF k
  <2>6. IsInjective(Append(rest, k))
    <3>1. /\ DOMAIN Append(rest, k) = (1 .. (n - 1)) \cup {n}
          /\ Append(rest, k)[n] = k
          /\ \A j \in 1 .. (n - 1) : Append(rest, k)[j] = rest[j] /\ rest[j] \in Range(rest)
      <4>1. n \in Nat /\ n # 0 /\ rest \in Seq(Extent) /\ Len(rest) = n - 1 /\ k \in Extent
        BY <1>1, <1>3, <2>2
      <4>2. DOMAIN rest = 1 .. (n - 1)
        BY <1>3
      <4> HIDE DEF n
      <4>3. DOMAIN Append(rest, k) = 1 .. n /\ Append(rest, k)[n] = k
        BY <4>1
      <4>4. \A j \in 1 .. (n - 1) : Append(rest, k)[j] = rest[j]
        BY <4>1
      <4>5. 1 .. n = (1 .. (n - 1)) \cup {n}
        BY <4>1
      <4>6. \A j \in 1 .. (n - 1) : rest[j] \in Range(rest)
        BY <4>2 DEF Range
      <4> QED
        BY <4>3, <4>4, <4>5, <4>6
    <3>2. \A j, l \in 1 .. (n - 1) : rest[j] = rest[l] => j = l
      BY <1>3, <1>5 DEF IsInjective
    <3> QED
      BY <2>5, <3>1, <3>2 DEF IsInjective
  <2> QED
    BY <1>1, <1>3, <1>4, <2>1, <2>2, <2>3, <2>4, <2>6
<1>7. CASE ~WorthKeeping(s[i].length - size)
  <2>1. Taken(s, i, size) = rest
    BY <1>7 DEF Taken, rest
  <2>2. Store!Remainder(s[i], size) = {}
    BY <1>2, <1>7 DEF Store!Remainder, WorthKeeping
  <2> QED
    BY <1>1, <1>3, <1>4, <1>5, <2>1, <2>2
<1> QED
  BY <1>6, <1>7

-----------------------------------------------------------------------------
(***************************************************************************)
(* The invariant: that of the set-based allocator, of the set of the       *)
(* vector's extents, and that the vector repeats none and is never longer  *)
(* than its record on disk.                                                *)
(***************************************************************************)
Proved == INSTANCE ExtentStoreProofs WITH extents <- Range(extents)

\* An instance has its own copies of the operators of Extents.
LEMMA SameOps ==
  /\ Proved!ExtentsAssumption
  /\ Proved!Nothing = Nothing /\ Proved!Extent = Extent
  /\ \A e : Proved!End(e) = End(e) /\ Proved!Bytes(e) = Bytes(e)
  /\ \A S : Proved!Covered(S) = Covered(S) /\ Proved!Merge(S) = Merge(S)
  /\ \A S : Proved!Cardinality(S) = Cardinality(S)
<1>1. Proved!ExtentsAssumption
  BY ExtentsAssumption DEF ExtentsAssumption, Proved!ExtentsAssumption
<1>2. Proved!Nothing = Nothing /\ Proved!Extent = Extent
  BY DEF Proved!Nothing, Nothing, Proved!Extent, Extent
<1>3. \A e : Proved!End(e) = End(e) /\ Proved!Bytes(e) = Bytes(e)
  BY DEF Proved!End, End, Proved!Bytes, Bytes
<1>4. \A S : Proved!Covered(S) = Covered(S)
  BY DEF Proved!End, End, Proved!Covered, Covered, Proved!Bytes, Bytes
<1>5. \A S : Proved!Merge(S) = Merge(S)
  BY DEF Proved!Merge, Merge, Proved!End, End, Proved!Covered, Covered, Proved!Bytes, Bytes
<1>6. \A S : Proved!Cardinality(S) = Cardinality(S)
  BY DEF Proved!Cardinality, Cardinality
<1> QED
  BY <1>1, <1>2, <1>3, <1>4, <1>5, <1>6

VectorOK ==
  /\ extents \in Seq(Extent)
  /\ IsInjective(extents)
  /\ Len(extents) <= MaxExtents

IInv == VectorOK /\ Proved!IInv

\* What a vector holds is a finite set of extents, as many as it has places
\* when none repeats.
LEMMA RangeIs ==
  ASSUME NEW s \in Seq(Extent)
  PROVE  Range(s) \in SUBSET Extent /\ IsFiniteSet(Range(s)) /\
         (IsInjective(s) => Cardinality(Range(s)) = Len(s))
<1>1. Len(s) \in Nat /\ DOMAIN s = 1 .. Len(s) /\ s \in [1 .. Len(s) -> Range(s)]
  BY DEF Range
<1>2. IsFiniteSet(1 .. Len(s)) /\ Cardinality(1 .. Len(s)) = Len(s)
  BY <1>1, FS_Interval
<1>3. s \in Surjection(1 .. Len(s), Range(s))
  BY <1>1 DEF Surjection, Range
<1>4. /\ IsFiniteSet(Range(s))
      /\ Cardinality(Range(s)) = Len(s) <=> s \in Injection(1 .. Len(s), Range(s))
  BY <1>2, <1>3, FS_Surjection
<1>5. IsInjective(s) => s \in Injection(1 .. Len(s), Range(s))
  BY <1>1 DEF Injection
<1> QED
  BY <1>4, <1>5 DEF Range

\* A new list is empty, as the allocator of sets is.
LEMMA InitMaps == Init => VectorOK /\ Proved!Init
<1> SUFFICES ASSUME Init PROVE VectorOK /\ Proved!Init
  OBVIOUS
<1>1. VectorOK
  BY ExtentsAssumption DEF Init, VectorOK, IsInjective
<1>2. Proved!Init
  BY SameOps DEF Init, Proved!Init, Range
<1> QED
  BY <1>1, <1>2

\* Every step of the vector keeps it in order and is a step of the set.
LEMMA NextMaps == IInv /\ [Next]_vars => VectorOK' /\ [Proved!Next]_(Proved!vars)
<1> SUFFICES ASSUME IInv, [Next]_vars PROVE VectorOK' /\ [Proved!Next]_(Proved!vars)
  OBVIOUS
<1> USE DEF VectorOK
<1>1. /\ extents \in Seq(Extent) /\ IsInjective(extents) /\ Len(extents) <= MaxExtents
      /\ held \in [Holder -> Extent \cup {Nothing}]
      /\ \A e, f \in Range(extents) : e # f => End(e) < f.offset \/ End(f) < e.offset
  BY SameOps DEF IInv, Proved!IInv, Proved!TypeOK, Proved!Coalesced
<1>6. \A j \in DOMAIN extents : extents[j].length \in Nat
  <2>1. \A j \in DOMAIN extents : extents[j] \in Extent
    BY <1>1
  <2> QED
    BY <2>1 DEF Extent
<1>2. ASSUME NEW h \in Holder, NEW size \in Sizes, AllocReuse(h, size)
      PROVE  VectorOK' /\ Proved!Next
  <2>1. PICK i \in DOMAIN extents :
          /\ IsBestFit(extents, i, size)
          /\ extents' = Taken(extents, i, size)
          /\ held' = [held EXCEPT ![h] = [offset |-> extents[i].offset, length |-> size]]
    BY <1>2 DEF AllocReuse
  <2>2. size \in Nat \ {0} /\ extents[i].length >= size /\ extents[i] \in Range(extents)
    BY <2>1, ExtentsAssumption DEF IsBestFit, Range
  <2>3. /\ extents' \in Seq(Extent) /\ Len(extents') <= Len(extents) /\ IsInjective(extents')
        /\ Range(extents') = (Range(extents) \ {extents[i]}) \cup Store!Remainder(extents[i], size)
    BY <1>1, <2>1, <2>2, TakenIs
  <2>4. VectorOK'
    BY <1>1, <2>3, ExtentsAssumption
  <2>5. \A f \in Proved!Fits(size) : extents[i].length <= f.length
    <3>1. ASSUME NEW f \in Range(extents), f.length >= size PROVE extents[i].length <= f.length
      <4>1. PICK j \in DOMAIN extents : f = extents[j]
        BY DEF Range
      <4>2. extents[i].length < extents[j].length \/ extents[i].length = extents[j].length
        BY <2>1, <3>1, <4>1 DEF IsBestFit
      <4>3. extents[i].length \in Nat /\ extents[j].length \in Nat
        BY <1>6
      <4> QED
        BY <4>1, <4>2, <4>3
    <3> QED
      BY <3>1 DEF Proved!Fits
  <2>6. extents[i] \in Proved!Fits(size)
    BY <2>2 DEF Proved!Fits
  <2>7. Proved!Remainder(extents[i], size) = Store!Remainder(extents[i], size)
    BY DEF Proved!Remainder, Store!Remainder
  <2>8. Proved!AllocReuse(h, size)
    BY <1>2, <2>1, <2>3, <2>5, <2>6, <2>7, SameOps DEF AllocReuse, Proved!AllocReuse, Proved!Hand
  <2> QED
    BY <2>4, <2>8 DEF Proved!Next
<1>3. ASSUME NEW h \in Holder, NEW size \in Sizes, AllocGrow(h, size)
      PROVE  VectorOK' /\ Proved!Next
  <2>1. Proved!Fits(size) = {}
    <3>1. ASSUME NEW f \in Range(extents) PROVE ~(f.length >= size)
      <4>1. PICK j \in DOMAIN extents : f = extents[j]
        BY DEF Range
      <4>2. extents[j].length < size /\ extents[j].length \in Nat /\ size \in Nat
        BY <1>3, <1>6, ExtentsAssumption DEF AllocGrow
      <4> QED
        BY <4>1, <4>2
    <3> QED
      BY <3>1 DEF Proved!Fits
  <2>2. next_data_offset' = Proved!AlignUp(next_data_offset + size)
    <3> DEFINE top == next_data_offset + size
    <3>1. top \in Nat /\ Sector \in Nat \ {0} /\ top % Sector \in Nat
      BY ExtentsAssumption DEF IInv, Proved!IInv, Proved!TypeOK
    <3> HIDE DEF top
    <3>2. next_data_offset' = top + (IF top % Sector = 0 THEN 0 ELSE Sector - (top % Sector))
      BY <1>3 DEF AllocGrow, top
    <3>3. Proved!AlignUp(top) = IF top % Sector = 0 THEN top ELSE top + Sector - (top % Sector)
      BY DEF Proved!AlignUp
    <3>4. next_data_offset' = Proved!AlignUp(top)
      BY <3>1, <3>2, <3>3
    <3> QED
      BY <3>4 DEF top
  <2>3. Proved!AllocGrow(h, size)
    BY <1>3, <2>1, <2>2, SameOps DEF AllocGrow, Proved!AllocGrow, Proved!Hand
  <2> QED
    BY <1>1, <1>3, <2>3 DEF AllocGrow, Proved!Next
<1>4. ASSUME NEW h \in Holder, Free(h) PROVE VectorOK' /\ Proved!Next
  <2>1. held[h] \in Extent /\ Len(extents) \in Nat /\ MaxExtents \in Nat
    BY <1>1, <1>4, ExtentsAssumption DEF Free
  <2>2. /\ Freed(extents, held[h]) \in Seq(Extent)
        /\ Len(Freed(extents, held[h])) <= Len(extents) + 1
        /\ IsInjective(Freed(extents, held[h]))
        /\ Len(extents) >= MaxExtents => Freed(extents, held[h]) = extents
        /\ Len(extents) < MaxExtents =>
             Range(Freed(extents, held[h])) = Merge(Range(extents) \cup {held[h]})
    BY <1>1, <2>1, FreedIs
  <2>3. extents' = Freed(extents, held[h])
    BY <1>4 DEF Free
  <2>4. Len(extents') \in Nat
    BY <2>2, <2>3
  <2>5. VectorOK'
    BY <1>1, <2>1, <2>2, <2>3, <2>4
  <2>6. Cardinality(Range(extents)) = Len(extents)
    BY <1>1, RangeIs
  <2>7. Range(extents') = IF Cardinality(Range(extents)) >= MaxExtents THEN Range(extents)
                          ELSE Merge(Range(extents) \cup {held[h]})
    BY <2>1, <2>2, <2>3, <2>6
  <2>8. Proved!Free(h)
    BY <1>4, <2>7, SameOps DEF Free, Proved!Free
  <2> QED
    BY <2>5, <2>8 DEF Proved!Next
<1>5. CASE UNCHANGED vars
  BY <1>1, <1>5 DEF vars, Proved!vars
<1> QED
  BY <1>2, <1>3, <1>4, <1>5 DEF Next

\* The invariant, with that of the allocator of sets.
LEMMA Inductive == Spec => []IInv
<1>1. Init => IInv
  BY InitMaps, SameOps, Proved!InitTypes, Proved!InitNoDouble, Proved!InitCoalesced
     DEF IInv, Proved!IInv
<1>2. IInv /\ [Next]_vars => IInv'
  BY NextMaps, SameOps, Proved!NextIInv DEF IInv
<1> QED
  BY <1>1, <1>2, PTL DEF Spec

-----------------------------------------------------------------------------
\* The vector holds well-formed extents, none of them twice, and never more
\* than save() writes.
THEOREM TypeCorrect == Spec => []TypeOK
<1>1. IInv => TypeOK
  BY DEF IInv, VectorOK, Proved!IInv, TypeOK, Store!TypeOK, Proved!TypeOK,
         Store!Extent, Proved!Extent, Store!Nothing, Proved!Nothing
<1> QED
  BY <1>1, Inductive, PTL

\* alloc_data and free_data over the vector never give a byte two owners, or an
\* owner while it is free.
THEOREM NoDouble == Spec => []NoDoubleAllocation
<1>1. IInv => NoDoubleAllocation
  BY DEF IInv, Proved!IInv, NoDoubleAllocation, Store!NoDoubleAllocation,
         Proved!NoDoubleAllocation, Store!Covered, Proved!Covered, Store!Bytes,
         Proved!Bytes, Store!End, Proved!End
<1> QED
  BY <1>1, Inductive, PTL

\* No two extents of the vector overlap or touch.
THEOREM FreeIsCoalesced == Spec => []Coalesced
<1>1. IInv => Coalesced
  BY DEF IInv, Proved!IInv, Coalesced, Store!Coalesced, Proved!Coalesced, Store!End, Proved!End
<1> QED
  BY <1>1, Inductive, PTL

\* Taking the first minimum, moving the remainder to the end, sorting and
\* sweeping do what the set-based allocator does.
THEOREM Refinement == Spec => ImplementsStore
<1>1. Init => Store!Init
  BY DEF Init, Store!Init, Store!Nothing, Nothing, Range
<1>2. [Proved!Next]_(Proved!vars) => [Store!Next]_(Store!vars)
  BY DEF Proved!Next, Proved!vars, Proved!AllocReuse, Proved!AllocGrow, Proved!Free,
         Proved!Fits, Proved!Hand, Proved!Remainder, Proved!AlignUp, Proved!Nothing,
         Proved!Merge, Proved!Covered, Proved!Bytes, Proved!End, Proved!Cardinality,
         Store!Next, Store!vars, Store!AllocReuse, Store!AllocGrow, Store!Free,
         Store!Fits, Store!Hand, Store!Remainder, Store!AlignUp, Store!Nothing,
         Store!Merge, Store!Covered, Store!Bytes, Store!End, Store!Cardinality
<1>3. IInv /\ [Next]_vars => [Store!Next]_(Store!vars)
  BY <1>2, NextMaps
<1> QED
  BY <1>1, <1>3, Inductive, PTL DEF Spec, ImplementsStore, Store!Spec

\* What is freed with the size of the data before compression.
LEMMA OversizedIs ==
  ASSUME NEW h, held[h] \in Extent, NEW extra \in Extra
  PROVE  /\ Oversized(h, extra) \in Extent
         /\ Oversized(h, extra).offset = held[h].offset
         /\ End(Oversized(h, extra)) <= End(held[h]) + 2 * Sector
<1>1. extra \in Nat /\ extra <= 2 * Sector /\ Sector \in Nat
  BY ExtentsAssumption DEF Extra
<1> DEFINE e == held[h]
<1>2. e = [offset |-> e.offset, length |-> e.length] /\ e.offset \in Nat \ {0} /\ e.length \in Nat \ {0}
  BY DEF Extent
<1> HIDE DEF e
<1>3. Oversized(h, extra) = [offset |-> e.offset, length |-> e.length + extra]
  BY <1>2 DEF Oversized, e
<1>4. e.length + extra \in Nat \ {0}
  BY <1>1, <1>2
<1>5. Oversized(h, extra) \in Extent
  BY <1>2, <1>3, <1>4 DEF Extent
<1>6. End(Oversized(h, extra)) = e.offset + (e.length + extra)
  BY <1>3 DEF End
<1>7. e.offset + (e.length + extra) <= (e.offset + e.length) + 2 * Sector
  BY <1>1, <1>2
<1> QED
  BY <1>3, <1>5, <1>6, <1>7 DEF End, e

\* Freeing leaves the fewest extents that cover the free bytes, also when the
\* freed extent runs into free ones because its length is that of the data
\* before compression.
THEOREM SweepMerges == Spec => []SweepIsMerge
<1>1. IInv => SweepIsMerge
  <2> SUFFICES ASSUME IInv, NEW h \in Holder, NEW extra \in Extra,
                      held[h] # Nothing, ~Capped(extents)
               PROVE  Range(Freed(extents, Oversized(h, extra)))
                        = Merge(Range(extents) \cup {Oversized(h, extra)})
    BY DEF SweepIsMerge
  <2>1. extents \in Seq(Extent) /\ held[h] \in Extent
    BY SameOps DEF IInv, VectorOK, Proved!IInv, Proved!TypeOK
  <2>2. Oversized(h, extra) \in Extent
    BY <2>1, OversizedIs
  <2>3. Len(extents) < MaxExtents
    BY <2>1, ExtentsAssumption DEF Capped
  <2> QED
    BY <2>1, <2>2, <2>3, FreedIs
<1> QED
  BY <1>1, Inductive, PTL

-----------------------------------------------------------------------------
\* An interval shorter than a sector has fewer bytes than a sector.
LEMMA ShortIsSmall ==
  ASSUME NEW a \in Int, NEW b \in Int, b - a < Sector, NEW U \in SUBSET (a .. (b - 1))
  PROVE  Cardinality(U) < Sector
<1>1. Sector \in Nat \ {0} /\ b - 1 \in Int
  BY ExtentsAssumption
<1>2. /\ IsFiniteSet(a .. (b - 1))
      /\ Cardinality(a .. (b - 1)) = IF a > b - 1 THEN 0 ELSE (b - 1) - a + 1
  BY <1>1, FS_Interval
<1>3. Cardinality(a .. (b - 1)) \in Nat /\ Cardinality(a .. (b - 1)) < Sector
  BY <1>1, <1>2
<1>4. Cardinality(U) <= Cardinality(a .. (b - 1)) /\ Cardinality(U) \in Nat
  BY <1>2, FS_Subset, FS_CardinalityType
<1> QED
  BY <1>1, <1>3, <1>4

\* To lose nothing is to lose less than a sector.
LEMMA NoneIsSmall == Cardinality({}) < Sector
BY FS_EmptySet, ExtentsAssumption

\* Bytes are lost only in the remainder of less than a sector that alloc drops,
\* in the padding to the next sector, and by free when the list is full.
LEMMA NextLoses ==
  IInv /\ Next => \/ Cardinality(Lost' \ Lost) < Sector
                  \/ Len(extents) >= MaxExtents /\ extents' = extents
<1> SUFFICES ASSUME IInv, Next
             PROVE  \/ Cardinality(Lost' \ Lost) < Sector
                    \/ Len(extents) >= MaxExtents /\ extents' = extents
  OBVIOUS
<1>1. /\ extents \in Seq(Extent) /\ IsInjective(extents)
      /\ held \in [Holder -> Extent \cup {Nothing}]
      /\ next_data_offset \in Nat
      /\ \A e, f \in Range(extents) : e # f => End(e) < f.offset \/ End(f) < e.offset
  BY SameOps DEF IInv, VectorOK, Proved!IInv, Proved!TypeOK, Proved!Coalesced
<1>2. Bytes(Nothing) = {}
  BY DEF Bytes, End, Nothing
<1>3. \A x, S : x \in Covered(S) <=> \E e \in S : x \in Bytes(e)
  BY DEF Covered
<1>4. \A x : /\ x \in Covered(Range(held)) <=> \E g \in Holder : x \in Bytes(held[g])
             /\ x \in Lost <=> /\ x \in DataStart .. (next_data_offset - 1)
                              /\ x \notin Covered(Range(extents))
                              /\ \A g \in Holder : x \notin Bytes(held[g])
  <2>1. Range(held) = {held[g] : g \in Holder}
    BY <1>1 DEF Range
  <2> QED
    BY <1>3, <2>1 DEF Lost
<1>5. ASSUME held' \in [Holder -> Extent \cup {Nothing}], NEW x, x \in Lost'
      PROVE  /\ x \in DataStart .. (next_data_offset' - 1)
             /\ x \notin Covered(Range(extents'))
             /\ \A g \in Holder : x \notin Bytes(held'[g])
  <2>1. Range(held') = {held'[g] : g \in Holder}
    BY <1>5 DEF Range
  <2> QED
    BY <1>3, <1>5, <2>1 DEF Lost
<1>6. ASSUME NEW h \in Holder, NEW size \in Sizes, AllocReuse(h, size)
      PROVE  Cardinality(Lost' \ Lost) < Sector
  <2>1. PICK i \in DOMAIN extents :
          /\ IsBestFit(extents, i, size)
          /\ extents' = Taken(extents, i, size)
          /\ held' = [held EXCEPT ![h] = [offset |-> extents[i].offset, length |-> size]]
    BY <1>6 DEF AllocReuse
  <2> DEFINE e == extents[i]
             front == [offset |-> e.offset, length |-> size]
  <2>2. /\ size \in Nat \ {0} /\ e.length >= size /\ e \in Range(extents) /\ e \in Extent
        /\ Sector \in Nat \ {0}
    BY <1>1, <2>1, ExtentsAssumption DEF IsBestFit, Range
  <2>3. Range(extents') = (Range(extents) \ {e}) \cup Store!Remainder(e, size)
    BY <1>1, <2>1, <2>2, TakenIs
  <2>4. /\ held'[h] = front
        /\ \A g \in Holder : g # h => held'[g] = held[g]
        /\ held[h] = Nothing
        /\ next_data_offset' = next_data_offset
    BY <1>1, <1>6, <2>1 DEF AllocReuse
  <2> HIDE DEF e, front
  <2>5. e.offset \in Nat \ {0} /\ e.length \in Nat \ {0}
    BY <2>2 DEF Extent
  <2>6. /\ Bytes(e) = e.offset .. (e.offset + e.length - 1)
        /\ Bytes(front) = e.offset .. (e.offset + size - 1)
    BY <2>2, <2>5 DEF Bytes, End, front
  <2>7. front \in Extent
    BY <2>2, <2>5 DEF front, Extent
  <2>8. held' \in [Holder -> Extent \cup {Nothing}]
    BY <1>1, <2>1, <2>7 DEF front, e
  <2>9. ASSUME NEW x \in Lost' \ Lost
        PROVE  x \in (e.offset + size) .. (e.offset + e.length - 1) /\ ~(e.length - size >= Sector)
    <3>1. /\ x \in DataStart .. (next_data_offset - 1)
          /\ x \notin Covered(Range(extents'))
          /\ \A g \in Holder : x \notin Bytes(held'[g])
      BY <1>5, <2>4, <2>8, <2>9
    <3>2. \A g \in Holder : x \notin Bytes(held[g])
      BY <1>2, <2>4, <3>1
    <3>3. x \in Covered(Range(extents))
      BY <1>4, <2>9, <3>1, <3>2
    <3>4. PICK f \in Range(extents) : x \in Bytes(f)
      BY <1>3, <3>3
    <3>5. f = e
      BY <1>3, <2>3, <3>1, <3>4
    <3>6. x \in (e.offset + size) .. (e.offset + e.length - 1)
      <4>1. x \in Bytes(e) /\ x \notin Bytes(front)
        BY <2>4, <3>1, <3>4, <3>5
      <4> QED
        BY <2>2, <2>5, <2>6, <4>1
    <3>7. ASSUME e.length - size >= Sector PROVE FALSE
      <4> DEFINE r == [offset |-> e.offset + size, length |-> e.length - size]
      <4>1. Store!Remainder(e, size) = {r}
        BY <3>7 DEF Store!Remainder
      <4>2. Bytes(r) = (e.offset + size) .. (e.offset + e.length - 1)
        BY <2>2, <2>5 DEF Bytes, End
      <4>3. r \in Range(extents') /\ x \in Bytes(r)
        BY <2>3, <3>6, <4>1, <4>2
      <4> HIDE DEF r
      <4> QED
        BY <1>3, <3>1, <4>3
    <3> QED
      BY <3>6, <3>7
  <2>10. CASE Lost' \ Lost = {}
    BY <2>10, NoneIsSmall
  <2>11. CASE Lost' \ Lost # {}
    <3> DEFINE a == e.offset + size
               b == e.offset + e.length
    <3> HIDE DEF a, b
    <3>1. \A x \in Lost' \ Lost : x \in a .. (b - 1) /\ ~(e.length - size >= Sector)
      <4>1. TAKE x \in Lost' \ Lost
      <4>2. x \in (e.offset + size) .. (e.offset + e.length - 1) /\ ~(e.length - size >= Sector)
        BY <2>9
      <4> QED
        BY <2>2, <2>5, <4>2 DEF a, b
    <3>2. Lost' \ Lost \in SUBSET (a .. (b - 1))
      BY <3>1
    <3>3. ~(e.length - size >= Sector)
      BY <2>11, <3>1
    <3>4. a \in Int /\ b \in Int /\ b - a < Sector
      BY <2>2, <2>5, <3>3 DEF a, b
    <3> QED
      BY <3>2, <3>4, ShortIsSmall
  <2> QED
    BY <2>10, <2>11
<1>7. ASSUME NEW h \in Holder, NEW size \in Sizes, AllocGrow(h, size)
      PROVE  Cardinality(Lost' \ Lost) < Sector
  <2> DEFINE a == next_data_offset + size
             b == next_data_offset'
             front == [offset |-> next_data_offset, length |-> size]
  <2>1. size \in Nat \ {0} /\ Sector \in Nat \ {0} /\ DataStart \in Nat \ {0}
    BY ExtentsAssumption
  <2>2. a \in Nat /\ a % Sector \in 0 .. (Sector - 1)
    BY <1>1, <2>1
  <2>3. b = a + (IF a % Sector = 0 THEN 0 ELSE Sector - (a % Sector))
    BY <1>7 DEF AllocGrow
  <2>4. b \in Nat /\ b - a < Sector /\ a <= b
    BY <2>1, <2>2, <2>3
  <2>5. front \in Extent
    <3>1. next_data_offset >= DataStart
      BY DEF IInv, Proved!IInv, Proved!TypeOK
    <3> QED
      BY <1>1, <2>1, <3>1 DEF Extent
  <2>6. /\ held' \in [Holder -> Extent \cup {Nothing}]
        /\ held'[h] = front
        /\ \A g \in Holder : g # h => held'[g] = held[g]
        /\ held[h] = Nothing
        /\ extents' = extents
    BY <1>1, <1>7, <2>5 DEF AllocGrow
  <2>7. Bytes(front) = next_data_offset .. (a - 1)
    BY <1>1, <2>1 DEF Bytes, End
  <2>8. ASSUME NEW x \in Lost' \ Lost PROVE x \in a .. (b - 1)
    <3>1. /\ x \in DataStart .. (b - 1)
          /\ x \notin Covered(Range(extents))
          /\ \A g \in Holder : x \notin Bytes(held'[g])
      BY <1>5, <2>6, <2>8
    <3>2. \A g \in Holder : x \notin Bytes(held[g])
      BY <1>2, <2>6, <3>1
    <3>3. x \notin DataStart .. (next_data_offset - 1)
      BY <1>4, <2>8, <3>1, <3>2
    <3>4. x \notin next_data_offset .. (a - 1)
      BY <2>6, <2>7, <3>1
    <3> HIDE DEF a, b
    <3> QED
      BY <1>1, <2>1, <2>2, <2>4, <3>1, <3>3, <3>4
  <2> HIDE DEF a, b
  <2>9. Lost' \ Lost \in SUBSET (a .. (b - 1))
    BY <2>8
  <2>10. a \in Int /\ b \in Int /\ b - a < Sector
    BY <2>2, <2>4
  <2> QED
    BY <2>9, <2>10, ShortIsSmall
<1>8. ASSUME NEW h \in Holder, Free(h), Len(extents) < MaxExtents
      PROVE  Cardinality(Lost' \ Lost) < Sector
  <2>1. held[h] \in Extent
    BY <1>1, <1>8 DEF Free
  <2>2. Covered(Range(extents')) = Covered(Range(extents)) \cup Bytes(held[h])
    BY <1>1, <1>8, <2>1, FreedIs DEF Free
  <2>3. /\ held' \in [Holder -> Extent \cup {Nothing}]
        /\ \A g \in Holder : g # h => held'[g] = held[g]
        /\ next_data_offset' = next_data_offset
    BY <1>1, <1>8 DEF Free
  <2>4. ASSUME NEW x \in Lost' \ Lost PROVE FALSE
    <3>1. /\ x \in DataStart .. (next_data_offset - 1)
          /\ x \notin Covered(Range(extents'))
          /\ \A g \in Holder : x \notin Bytes(held'[g])
      BY <1>5, <2>3, <2>4
    <3>2. \A g \in Holder : x \notin Bytes(held[g])
      BY <2>2, <2>3, <3>1
    <3> QED
      BY <1>4, <2>2, <2>4, <3>1, <3>2
  <2>5. Lost' \ Lost = {}
    BY <2>4
  <2> QED
    BY <2>5, NoneIsSmall
<1>9. ASSUME NEW h \in Holder, Free(h), ~(Len(extents) < MaxExtents)
      PROVE  Len(extents) >= MaxExtents /\ extents' = extents
  <2>1. held[h] \in Extent /\ Len(extents) \in Nat /\ MaxExtents \in Nat
    BY <1>1, <1>9, ExtentsAssumption DEF Free
  <2>2. Len(extents) >= MaxExtents
    BY <1>9, <2>1
  <2>3. Freed(extents, held[h]) = extents
    BY <1>1, <2>1, <2>2, FreedIs
  <2> QED
    BY <1>9, <2>2, <2>3 DEF Free
<1> QED
  BY <1>6, <1>7, <1>8, <1>9 DEF Next

\* An allocation loses less than a sector, and freeing nothing unless the list
\* is full.
THEOREM LossBound == Spec => LossIsBounded
<1>1. IInv /\ [Next]_vars =>
        [\/ Cardinality(Lost' \ Lost) < Sector
         \/ Len(extents) >= MaxExtents /\ extents' = extents]_vars
  BY NextLoses
<1> QED
  BY <1>1, Inductive, PTL DEF Spec, LossIsBounded

-----------------------------------------------------------------------------
(***************************************************************************)
(* rebuild_from_inodes.                                                    *)
(***************************************************************************)
\* What the sweep over the used extents carries along.
Swept == [list : Seq(Extent), cursor : Nat \ {0}]

\* The extent fsck makes of the space between two files.
LEMMA GapIs ==
  ASSUME NEW from \in Nat \ {0}, NEW to \in Nat, from < to
  PROVE  /\ Gap(from, to) \in Extent
         /\ Bytes(Gap(from, to)) = from .. (to - 1)
<1>1. to - from \in Nat \ {0} /\ from + (to - from) = to
  OBVIOUS
<1> QED
  BY <1>1 DEF Gap, Extent, Bytes, End

\* One extent of the sweep: the gap before it is freed, the cursor goes past it.
LEMMA SkipIs ==
  ASSUME NEW acc \in Swept, NEW x \in Extent
  PROVE  /\ Skip(acc, x) \in Swept
         /\ Skip(acc, x).cursor >= acc.cursor /\ Skip(acc, x).cursor >= End(x)
         /\ Skip(acc, x).cursor \in {acc.cursor, End(x)}
         /\ Len(acc.list) >= MaxExtents => Skip(acc, x).list = acc.list
         /\ Len(acc.list) < MaxExtents =>
              Covered(Range(Skip(acc, x).list))
                = Covered(Range(acc.list)) \cup (acc.cursor .. (x.offset - 1))
<1>1. /\ acc.list \in Seq(Extent) /\ acc.cursor \in Nat \ {0}
      /\ x.offset \in Nat \ {0} /\ End(x) \in Nat \ {0}
      /\ Len(acc.list) \in Nat /\ MaxExtents \in Nat
  BY ExtentsAssumption DEF Swept, Extent, End
<1>2. /\ Skip(acc, x).cursor \in Nat \ {0}
      /\ Skip(acc, x).cursor >= acc.cursor /\ Skip(acc, x).cursor >= End(x)
      /\ Skip(acc, x).cursor \in {acc.cursor, End(x)}
  BY <1>1 DEF Skip, Past
<1>3. CASE x.offset > acc.cursor
  <2> DEFINE g == Gap(acc.cursor, x.offset)
  <2>1. g \in Extent /\ Bytes(g) = acc.cursor .. (x.offset - 1)
    BY <1>1, <1>3, GapIs
  <2> HIDE DEF g
  <2>2. Skip(acc, x).list = Freed(acc.list, g)
    BY <1>3 DEF Skip, g
  <2>3. /\ Freed(acc.list, g) \in Seq(Extent)
        /\ Len(acc.list) >= MaxExtents => Freed(acc.list, g) = acc.list
        /\ Len(acc.list) < MaxExtents =>
             Covered(Range(Freed(acc.list, g))) = Covered(Range(acc.list)) \cup Bytes(g)
    BY <1>1, <2>1, FreedIs
  <2>4. Skip(acc, x) \in Swept
    BY <1>2, <2>2, <2>3 DEF Skip, Swept
  <2> QED
    BY <1>2, <2>1, <2>2, <2>3, <2>4
<1>4. CASE ~(x.offset > acc.cursor)
  <2>1. Skip(acc, x).list = acc.list
    BY <1>4 DEF Skip
  <2>2. Skip(acc, x) \in Swept
    BY <1>1, <1>2, <2>1 DEF Skip, Swept
  <2>3. acc.cursor .. (x.offset - 1) = {}
    BY <1>1, <1>4
  <2> QED
    BY <1>2, <2>1, <2>2, <2>3
<1> QED
  BY <1>3, <1>4

\* The values the sweep goes through, one after each extent.
LEMMA SkipRounds ==
  ASSUME NEW s \in Seq(Extent), NEW base \in Swept
  PROVE  \E m \in [0 .. Len(s) -> Swept] :
           /\ m[0] = base
           /\ \A k \in 1 .. Len(s) : m[k] = Skip(m[k - 1], s[k])
           /\ FoldLeft(Skip, base, s) = m[Len(s)]
<1> DEFINE n == Len(s)
           D == [p \in Swept \X (1 .. n) |-> Skip(p[1], s[p[2]])]
           Rec(h) == h = [t \in SUBSET (1 .. n) |->
                            IF t = {} THEN base ELSE Skip(h[t \ {Max(t)}], s[Max(t)])]
           h == CHOOSE g : Rec(g)
<1>1. n \in Nat /\ DOMAIN s = 1 .. n /\ \A i \in 1 .. n : s[i] \in Extent
  OBVIOUS
<1>2. D \in [Swept \X (1 .. n) -> Swept]
  <2>1. \A a \in Swept, k \in 1 .. n : Skip(a, s[k]) \in Swept
    BY <1>1, SkipIs
  <2> QED
    BY <2>1
<1>3. PICK g \in [SUBSET (1 .. n) -> Swept] : IsFold(g, n, base, D)
  <2> HIDE DEF D, n
  <2> QED
    BY <1>1, <1>2, FoldDefined, Zenon
<1>4. Rec(g)
  <2>1. ASSUME NEW t \in SUBSET (1 .. n), t # {}
        PROVE  D[<<g[t \ {Max(t)}], Max(t)>>] = Skip(g[t \ {Max(t)}], s[Max(t)])
    <3>1. Max(t) \in 1 .. n /\ g[t \ {Max(t)}] \in Swept
      BY <1>1, <2>1, MaxIn
    <3> QED
      BY <3>1
  <2> HIDE DEF D
  <2> QED
    BY <1>3, <2>1 DEF IsFold
<1>5. Rec(h)
  BY <1>4, Zenon
<1>6. FoldLeft(Skip, base, s) = h[1 .. n]
  BY <1>1 DEF FoldLeft, MapThenFoldSet
<1>7. h[{}] = base
  BY <1>5
<1>8. ASSUME NEW t \in SUBSET (1 .. n), t # {}, h[t \ {Max(t)}] \in Swept
      PROVE  h[t] = D[<<h[t \ {Max(t)}], Max(t)>>]
  <2>1. Max(t) \in 1 .. n
    BY <1>1, <1>8, MaxIn
  <2>2. D[<<h[t \ {Max(t)}], Max(t)>>] = Skip(h[t \ {Max(t)}], s[Max(t)])
    <3> HIDE DEF h
    <3> QED
      BY <1>8, <2>1
  <2> HIDE DEF h, D
  <2> QED
    BY <1>5, <1>8, <2>2
<1> HIDE DEF h
<1>9. PICK m \in [0 .. n -> Swept] : IsRounds(m, h, n, base, D)
  <2>1. IsFoldIn(h, n, Swept, base, D)
    BY <1>7, <1>8 DEF IsFoldIn
  <2> HIDE DEF D, n
  <2> QED
    BY <1>1, <1>2, <2>1, FoldRounds, Zenon
<1>10. ASSUME NEW k \in 1 .. n PROVE m[k] = Skip(m[k - 1], s[k])
  <2>1. k - 1 \in 0 .. n
    BY <1>1
  <2>2. m[k - 1] \in Swept
    BY <2>1
  <2>3. D[<<m[k - 1], k>>] = Skip(m[k - 1], s[k])
    BY <2>2
  <2> QED
    BY <1>9, <2>3 DEF IsRounds
<1>11. m[0] = base /\ h[1 .. n] = m[n]
  BY <1>9 DEF IsRounds
<1> QED
  BY <1>6, <1>10, <1>11

\* After each round the list covers the bytes before the cursor that the extents
\* so far do not, or is full; and none that an extent covers, before or after.
LEMMA SkipsIs ==
  ASSUME NEW s \in Seq(Extent),
         \A p, q \in 1 .. Len(s) : p <= q => s[p].offset <= s[q].offset,
         \A i \in 1 .. Len(s) : s[i].offset <= DiskEnd
  PROVE  LET r == FoldLeft(Skip, [list |-> <<>>, cursor |-> DataStart], s)
             used == Covered(Range(s))
         IN  /\ r \in Swept /\ r.cursor >= DataStart
             /\ \A i \in 1 .. Len(s) : End(s[i]) <= r.cursor
             /\ Covered(Range(r.list)) \subseteq (DataStart .. (DiskEnd - 1)) \ used
             /\ \/ Len(r.list) >= MaxExtents
                \/ (DataStart .. (r.cursor - 1)) \ used \subseteq Covered(Range(r.list))
<1> DEFINE n == Len(s)
           base == [list |-> <<>>, cursor |-> DataStart]
<1>1. /\ n \in Nat /\ DOMAIN s = 1 .. n
      /\ \A i \in 1 .. n : /\ s[i] \in Extent /\ s[i].offset \in Nat \ {0}
                           /\ End(s[i]) \in Nat /\ s[i].offset < End(s[i])
                           /\ Bytes(s[i]) = s[i].offset .. (End(s[i]) - 1)
  <2>1. \A i \in 1 .. n : s[i] \in Extent
    OBVIOUS
  <2> QED
    BY <2>1 DEF Extent, End, Bytes
<1>2. DataStart \in Nat \ {0} /\ DiskEnd \in Nat /\ MaxExtents \in Nat
  BY ExtentsAssumption
<1>3. base \in Swept
  BY <1>2 DEF Swept
<1>4. PICK m \in [0 .. n -> Swept] :
        /\ m[0] = base
        /\ \A k \in 1 .. n : m[k] = Skip(m[k - 1], s[k])
        /\ FoldLeft(Skip, base, s) = m[n]
  <2> HIDE DEF base
  <2> QED
    BY <1>3, SkipRounds
<1> DEFINE Gaps(k) == Covered(Range(m[k].list))
           Passed(k) == \A i \in 1 .. k : End(s[i]) <= m[k].cursor
           Inside(k) == \A x \in Gaps(k) :
                          /\ x \in DataStart .. (DiskEnd - 1)
                          /\ k # 0 /\ x < s[k].offset
                          /\ \A i \in 1 .. k : x \notin Bytes(s[i])
           Whole(k) == \/ Len(m[k].list) >= MaxExtents
                       \/ \A x \in DataStart .. (m[k].cursor - 1) :
                            x \in Gaps(k) \/ \E i \in 1 .. k : x \in Bytes(s[i])
           T == {k \in 0 .. n : m[k].cursor >= DataStart /\ Passed(k) /\ Inside(k) /\ Whole(k)}
<1>5. 0 \in T
  <2>1. m[0].list = <<>> /\ m[0].cursor = DataStart
    BY <1>4
  <2>2. Gaps(0) = {}
    BY <2>1 DEF Covered, Range
  <2>3. DataStart .. (m[0].cursor - 1) = {}
    BY <1>2, <2>1
  <2>4. 1 .. 0 = {} /\ 0 \in 0 .. n
    BY <1>1
  <2>5. Passed(0) /\ Inside(0) /\ Whole(0)
    BY <2>2, <2>3, <2>4
  <2> HIDE DEF Passed, Inside, Whole
  <2> QED
    BY <1>2, <2>1, <2>4, <2>5
<1>6. ASSUME NEW k \in 0 .. (n - 1), k \in T PROVE k + 1 \in T
  <2> DEFINE acc == m[k]
             x == s[k + 1]
             new == m[k + 1]
  <2>1. k \in 0 .. n /\ k + 1 \in 1 .. n /\ k + 1 \in 0 .. n /\ (k + 1) - 1 = k
    BY <1>1
  <2>2. acc \in Swept /\ x \in Extent /\ new = Skip(acc, x)
    <3>1. m[k + 1] = Skip(m[(k + 1) - 1], s[k + 1])
      BY <1>4, <2>1
    <3> QED
      BY <1>1, <2>1, <3>1
  <2>3. acc.cursor >= DataStart /\ Passed(k) /\ Inside(k) /\ Whole(k)
    BY <1>6
  <2>4. /\ new \in Swept
        /\ new.cursor >= acc.cursor /\ new.cursor >= End(x)
        /\ new.cursor \in {acc.cursor, End(x)}
        /\ Len(acc.list) >= MaxExtents => new.list = acc.list
        /\ Len(acc.list) < MaxExtents =>
             Covered(Range(new.list)) = Covered(Range(acc.list)) \cup (acc.cursor .. (x.offset - 1))
    <3> HIDE DEF acc, x, new
    <3> QED
      BY <2>2, SkipIs
  <2>5. acc.cursor \in Nat \ {0} /\ new.cursor \in Nat \ {0} /\ Len(acc.list) \in Nat
    <3>1. acc.list \in Seq(Extent)
      BY <2>2 DEF Swept
    <3> QED
      BY <2>2, <2>4, <3>1 DEF Swept
  <2>6. 1 .. (k + 1) = (1 .. k) \cup {k + 1}
    BY <2>1
  <2>7. \A i \in 1 .. k : i \in 1 .. n /\ s[i].offset <= x.offset
    BY <2>1
  <2>8. /\ x.offset \in Nat \ {0} /\ End(x) \in Nat /\ x.offset < End(x) /\ x.offset <= DiskEnd
        /\ Bytes(x) = x.offset .. (End(x) - 1)
    BY <1>1, <2>1
  <2>9. Passed(k + 1)
    <3>1. ASSUME NEW i \in 1 .. k PROVE End(s[i]) <= new.cursor
      <4>1. End(s[i]) <= acc.cursor /\ End(s[i]) \in Nat
        BY <1>1, <2>3, <2>7
      <4> HIDE DEF acc, new
      <4> QED
        BY <2>4, <2>5, <4>1
    <3>2. End(s[k + 1]) <= new.cursor
      BY <2>4
    <3> QED
      BY <2>6, <3>1, <3>2
  <2> HIDE DEF acc, x, new, Whole, Inside, Passed, Gaps
  <2>10. Inside(k + 1)
    <3>1. SUFFICES ASSUME NEW y \in Gaps(k + 1)
                   PROVE  /\ y \in DataStart .. (DiskEnd - 1)
                          /\ y < x.offset
                          /\ \A i \in 1 .. (k + 1) : y \notin Bytes(s[i])
      BY <2>1 DEF Inside, x
    <3>2. y \in Gaps(k) \/ y \in acc.cursor .. (x.offset - 1)
      BY <1>2, <2>4, <2>5 DEF Gaps, acc, new
    <3>3. CASE y \in Gaps(k)
      <4>1. /\ y \in DataStart .. (DiskEnd - 1)
            /\ k # 0 /\ y < s[k].offset
            /\ \A i \in 1 .. k : y \notin Bytes(s[i])
        BY <2>3, <3>3 DEF Inside
      <4>2. s[k].offset <= x.offset /\ s[k].offset \in Nat
        <5>1. k \in 1 .. k
          BY <2>1, <4>1
        <5> QED
          BY <1>1, <2>7, <5>1
      <4>3. y < x.offset
        BY <1>2, <2>8, <4>1, <4>2
      <4>4. y \notin Bytes(x)
        BY <1>2, <2>8, <4>1, <4>3
      <4> QED
        BY <2>6, <4>1, <4>3, <4>4 DEF x
    <3>4. CASE y \in acc.cursor .. (x.offset - 1)
      <4>1. y \in DataStart .. (DiskEnd - 1) /\ y < x.offset /\ y \notin Bytes(x)
        <5>1. acc.cursor >= DataStart
          BY <2>3
        <5>2. y \in Int /\ y >= acc.cursor /\ y < x.offset
          BY <2>5, <2>8, <3>4
        <5>3. y >= DataStart /\ y <= DiskEnd - 1
          BY <1>2, <2>5, <2>8, <5>1, <5>2
        <5>4. y \notin Bytes(x)
          BY <2>8, <5>2
        <5> QED
          BY <1>2, <5>2, <5>3, <5>4
      <4>2. ASSUME NEW i \in 1 .. k PROVE y \notin Bytes(s[i])
        <5>1. End(s[i]) <= acc.cursor
          BY <2>3 DEF Passed, acc
        <5>2. i \in 1 .. n
          BY <2>7
        <5>3. /\ s[i].offset \in Nat \ {0} /\ End(s[i]) \in Nat
              /\ Bytes(s[i]) = s[i].offset .. (End(s[i]) - 1)
          BY <1>1, <5>2
        <5>4. y \in Int /\ y >= acc.cursor
          BY <2>5, <2>8, <3>4
        <5>5. y >= End(s[i])
          BY <2>5, <5>1, <5>3, <5>4
        <5> QED
          BY <5>3, <5>4, <5>5
      <4> QED
        BY <2>6, <4>1, <4>2 DEF x
    <3> QED
      BY <3>2, <3>3, <3>4
  <2>11. Whole(k + 1)
    <3>1. CASE Len(acc.list) >= MaxExtents
      BY <2>4, <3>1 DEF Whole, acc, new
    <3>2. CASE Len(acc.list) < MaxExtents
      <4>1. ASSUME NEW y \in DataStart .. (new.cursor - 1)
            PROVE  y \in Gaps(k + 1) \/ \E i \in 1 .. (k + 1) : y \in Bytes(s[i])
        <5>1. CASE y < acc.cursor
          <6>1. ~(Len(acc.list) >= MaxExtents)
            BY <1>2, <2>5, <3>2
          <6>2. y \in DataStart .. (acc.cursor - 1)
            BY <1>2, <2>5, <4>1, <5>1
          <6>3. y \in Gaps(k) \/ \E i \in 1 .. k : y \in Bytes(s[i])
            BY <2>3, <6>1, <6>2 DEF Whole, acc
          <6> QED
            BY <2>4, <2>6, <3>2, <6>3 DEF Gaps, acc, new
        <5>2. CASE y >= acc.cursor /\ y < x.offset
          <6>1. y \in acc.cursor .. (x.offset - 1)
            BY <1>2, <2>5, <2>8, <4>1, <5>2
          <6> QED
            BY <2>4, <3>2, <6>1 DEF Gaps, acc, new
        <5>3. CASE y >= acc.cursor /\ y >= x.offset
          <6>1. y < End(x)
            BY <1>2, <2>4, <2>5, <2>8, <4>1, <5>3
          <6>2. y \in Bytes(x)
            BY <1>2, <2>8, <4>1, <5>3, <6>1
          <6> QED
            BY <2>6, <6>2 DEF x
        <5> QED
          BY <1>2, <2>5, <2>8, <4>1, <5>1, <5>2, <5>3
      <4> QED
        BY <4>1 DEF Whole, new
    <3> QED
      BY <1>2, <2>5, <3>1, <3>2
  <2>12. m[k + 1].cursor >= DataStart
    BY <1>2, <2>3, <2>4, <2>5 DEF acc, new
  <2> QED
    BY <2>1, <2>9, <2>10, <2>11, <2>12
<1>7. 0 .. n \subseteq T
  <2> HIDE DEF T
  <2> QED
    BY <1>1, <1>5, <1>6, UpTo
<1>8. n \in T
  <2> HIDE DEF T, n
  <2>1. n \in 0 .. n
    BY <1>1
  <2> QED
    BY <1>7, <2>1
<1>9. m[n].cursor >= DataStart /\ Passed(n) /\ Inside(n) /\ Whole(n) /\ m[n] \in Swept
  BY <1>8
<1>10. \A y : y \in Covered(Range(s)) <=> \E i \in 1 .. n : y \in Bytes(s[i])
  BY <1>1 DEF Covered, Range
<1> QED
  BY <1>4, <1>9, <1>10

\* The list fsck rebuilds from extents that begin on the disk.
LEMMA RebuildIs ==
  ASSUME NEW used \in Seq(Extent), \A e \in Range(used) : e.offset <= DiskEnd
  PROVE  LET list == rebuild_from_inodes(used)
             free == (DataStart .. (DiskEnd - 1)) \ Covered(Range(used))
         IN  /\ Covered(Range(list)) \subseteq free
             /\ Len(list) < MaxExtents => Covered(Range(list)) = free
<1> DEFINE list == rebuild_from_inodes(used)
           free == (DataStart .. (DiskEnd - 1)) \ Covered(Range(used))
<1> SUFFICES /\ Covered(Range(list)) \subseteq free
             /\ Len(list) < MaxExtents => Covered(Range(list)) = free
  OBVIOUS
<1>1. DataStart \in Nat \ {0} /\ DiskEnd \in Nat /\ MaxExtents \in Nat
  BY ExtentsAssumption
<1>2. CASE used = <<>>
  <2> DEFINE g == Gap(DataStart, DiskEnd)
  <2>1. list = <<g>> /\ Covered(Range(used)) = {}
    BY <1>2 DEF rebuild_from_inodes, Range, Covered
  <2>2. Bytes(g) = DataStart .. (DiskEnd - 1)
    BY <1>1 DEF Gap, Bytes, End
  <2> HIDE DEF g
  <2>3. Range(<<g>>) = {g}
    BY DEF Range
  <2>4. Covered(Range(list)) = Bytes(g)
    BY <2>1, <2>3 DEF Covered
  <2> QED
    BY <2>1, <2>2, <2>4
<1>3. CASE used # <<>>
  <2> DEFINE s == ByOffset(used)
             r == FoldLeft(Skip, [list |-> <<>>, cursor |-> DataStart], s)
  <2>1. /\ s \in Seq(Extent) /\ Range(s) = Range(used)
        /\ \A p, q \in 1 .. Len(s) : p <= q => s[p].offset <= s[q].offset
    BY SortedIs
  <2>2. list = IF r.cursor < DiskEnd THEN Freed(r.list, Gap(r.cursor, DiskEnd)) ELSE r.list
    BY <1>3 DEF rebuild_from_inodes
  <2> HIDE DEF s
  <2>3. \A i \in 1 .. Len(s) : s[i] \in Extent /\ s[i] \in Range(used) /\ s[i].offset <= DiskEnd
    <3>1. DOMAIN s = 1 .. Len(s) /\ \A i \in 1 .. Len(s) : s[i] \in Extent
      BY <2>1
    <3>2. \A i \in 1 .. Len(s) : s[i] \in Range(s)
      BY <3>1 DEF Range
    <3> QED
      BY <2>1, <3>1, <3>2
  <2>4. /\ r \in Swept /\ r.cursor >= DataStart
        /\ \A i \in 1 .. Len(s) : End(s[i]) <= r.cursor
        /\ Covered(Range(r.list)) \subseteq (DataStart .. (DiskEnd - 1)) \ Covered(Range(s))
        /\ \/ Len(r.list) >= MaxExtents
           \/ (DataStart .. (r.cursor - 1)) \ Covered(Range(s)) \subseteq Covered(Range(r.list))
    BY <2>1, <2>3, SkipsIs
  <2> HIDE DEF r, list
  <2>5. r.list \in Seq(Extent) /\ r.cursor \in Nat \ {0} /\ Len(r.list) \in Nat
    <3>1. r.list \in Seq(Extent) /\ r.cursor \in Nat \ {0}
      BY <2>4 DEF Swept
    <3> QED
      BY <3>1
  <2>6. CASE r.cursor < DiskEnd
    <3> DEFINE g == Gap(r.cursor, DiskEnd)
    <3>1. g \in Extent /\ Bytes(g) = r.cursor .. (DiskEnd - 1)
      BY <1>1, <2>5, <2>6, GapIs
    <3> HIDE DEF g
    <3>2. list = Freed(r.list, g)
      BY <2>2, <2>6 DEF g
    <3>3. /\ Len(r.list) >= MaxExtents => list = r.list
          /\ Len(r.list) < MaxExtents => Covered(Range(list)) = Covered(Range(r.list)) \cup Bytes(g)
      BY <2>5, <3>1, <3>2, FreedIs
    <3>4. CASE Len(r.list) >= MaxExtents
      BY <1>1, <2>1, <2>4, <2>5, <3>3, <3>4
    <3>5. CASE Len(r.list) < MaxExtents
      <4>1. Bytes(g) \subseteq free
        <5>1. ASSUME NEW y \in Bytes(g), NEW i \in 1 .. Len(s) PROVE y \notin Bytes(s[i])
          <6>1. End(s[i]) <= r.cursor /\ End(s[i]) \in Nat /\ s[i].offset \in Nat
            BY <2>3, <2>4 DEF Extent, End
          <6>2. Bytes(s[i]) = s[i].offset .. (End(s[i]) - 1)
            BY DEF Bytes
          <6>3. y \in r.cursor .. (DiskEnd - 1)
            BY <3>1
          <6> QED
            BY <1>1, <2>5, <6>1, <6>2, <6>3
        <5>2. Bytes(g) \cap Covered(Range(s)) = {}
          BY <2>1, <5>1 DEF Covered, Range
        <5>3. Bytes(g) \subseteq DataStart .. (DiskEnd - 1)
          BY <1>1, <2>4, <2>5, <3>1
        <5> QED
          BY <2>1, <5>2, <5>3
      <4>2. (DataStart .. (r.cursor - 1)) \ Covered(Range(s)) \subseteq Covered(Range(r.list))
        BY <1>1, <2>4, <2>5, <3>5
      <4>3. DataStart .. (DiskEnd - 1) \subseteq (DataStart .. (r.cursor - 1)) \cup Bytes(g)
        BY <1>1, <2>5, <3>1
      <4>4. Covered(Range(list)) = Covered(Range(r.list)) \cup Bytes(g)
        BY <3>3, <3>5
      <4>5. Covered(Range(list)) \subseteq free
        BY <2>1, <2>4, <4>1, <4>4
      <4>6. free \subseteq Covered(Range(list))
        BY <2>1, <4>2, <4>3, <4>4
      <4> QED
        BY <4>5, <4>6
    <3> QED
      BY <1>1, <2>5, <3>4, <3>5
  <2>7. CASE ~(r.cursor < DiskEnd)
    <3>1. list = r.list
      BY <2>2, <2>7
    <3>2. DataStart .. (DiskEnd - 1) \subseteq DataStart .. (r.cursor - 1)
      BY <1>1, <2>5, <2>7
    <3>3. Covered(Range(list)) \subseteq free
      BY <2>1, <2>4, <3>1
    <3>4. ASSUME Len(list) < MaxExtents PROVE free \subseteq Covered(Range(list))
      <4>1. ~(Len(r.list) >= MaxExtents)
        BY <1>1, <2>5, <3>1, <3>4
      <4> QED
        BY <2>1, <2>4, <3>1, <3>2, <4>1
    <3> QED
      BY <3>3, <3>4
  <2> QED
    BY <2>6, <2>7
<1> QED
  BY <1>2, <1>3

\* Finitely many extents fit below an offset, so a set of them is a vector.
LEMMA VectorOf ==
  ASSUME NEW N \in Nat, NEW S \in SUBSET Extent,
         \A e \in S : e.offset <= N /\ e.length <= N
  PROVE  SetToSeq(S) \in Seq(Extent) /\ Range(SetToSeq(S)) = S
<1> DEFINE I == 0 .. N
           F == [p \in I \X I |-> [offset |-> p[1], length |-> p[2]]]
<1>1. IsFiniteSet(I \X I)
  <2>1. IsFiniteSet(I)
    BY FS_Interval
  <2> HIDE DEF I
  <2> QED
    BY <2>1, FS_Product
<1>2. S \subseteq {F[p] : p \in I \X I}
  <2>1. ASSUME NEW e \in S PROVE e \in {F[p] : p \in I \X I}
    <3>1. e.offset \in I /\ e.length \in I /\ e = [offset |-> e.offset, length |-> e.length]
      BY DEF Extent
    <3>2. <<e.offset, e.length>> \in I \X I /\ F[<<e.offset, e.length>>] = e
      BY <3>1
    <3> HIDE DEF F, I
    <3> QED
      BY <3>2
  <2> QED
    BY <2>1
<1>3. F \in Surjection(I \X I, {F[p] : p \in I \X I})
  <2> HIDE DEF I
  <2> QED
    BY DEF Surjection
<1>4. IsFiniteSet(S)
  <2> HIDE DEF F, I
  <2>1. IsFiniteSet({F[p] : p \in I \X I})
    BY <1>1, <1>3, FS_Surjection
  <2> QED
    BY <1>2, <2>1, FS_Subset
<1> DEFINE n == Cardinality(S)
           f == SetToSeq(S)
<1>5. n \in Nat /\ ExistsBijection(1 .. n, S)
  BY <1>4, FS_CardinalityType
<1>6. PICK b \in [1 .. n -> S] : IsInjective(b)
  BY <1>5 DEF ExistsBijection, Bijection, Injection
<1>7. f \in [1 .. n -> S] /\ IsInjective(f)
  BY <1>6, Zenon DEF SetToSeq
<1> HIDE DEF f
<1>8. f \in Surjection(1 .. n, S)
  <2>1. f \in Injection(1 .. n, S)
    BY <1>7 DEF Injection
  <2>2. Cardinality(1 .. n) = n
    BY <1>5, FS_Interval
  <2> QED
    BY <1>4, <2>1, <2>2, FS_Injection
<1> HIDE DEF n
<1>9. f \in Seq(Extent)
  <2>1. f \in [1 .. n -> Extent]
    BY <1>7
  <2> QED
    BY <1>5, <2>1
<1>10. Range(f) = S
  BY <1>7, <1>8 DEF Range, Surjection
<1> QED
  BY <1>9, <1>10 DEF f

\* alloc_data hands out nothing beyond the bound on the data region.
InDisk ==
  /\ \A h \in Holder : End(held[h]) <= DiskEnd
  /\ \A x \in Covered(Range(extents)) : x < DiskEnd

\* Nothing is handed out or freed past the end of the disk.
LEMMA InDiskInductive == Spec => []InDisk
<1>1. Init => InDisk
  BY ExtentsAssumption DEF Init, InDisk, Covered, Range, End, Nothing
<1>2. ASSUME IInv, InDisk, [Next]_vars PROVE InDisk'
  <2>1. /\ extents \in Seq(Extent) /\ IsInjective(extents)
        /\ held \in [Holder -> Extent \cup {Nothing}]
        /\ \A e, f \in Range(extents) : e # f => End(e) < f.offset \/ End(f) < e.offset
        /\ next_data_offset \in Nat
    BY <1>2, SameOps DEF IInv, VectorOK, Proved!IInv, Proved!TypeOK, Proved!Coalesced
  <2>2. ASSUME NEW h \in Holder, NEW size \in Sizes, AllocReuse(h, size) PROVE InDisk'
    <3>1. PICK i \in DOMAIN extents :
            /\ IsBestFit(extents, i, size)
            /\ extents' = Taken(extents, i, size)
            /\ held' = [held EXCEPT ![h] = [offset |-> extents[i].offset, length |-> size]]
      BY <2>2 DEF AllocReuse
    <3> DEFINE e == extents[i]
               front == [offset |-> e.offset, length |-> size]
    <3>2. /\ size \in Nat \ {0} /\ e.length >= size /\ e \in Range(extents) /\ e \in Extent
          /\ Sector \in Nat \ {0} /\ DiskEnd \in Nat
      BY <2>1, <3>1, ExtentsAssumption DEF IsBestFit, Range
    <3>3. Range(extents') = (Range(extents) \ {e}) \cup Store!Remainder(e, size)
      BY <2>1, <3>1, <3>2, TakenIs
    <3>4. held' = [held EXCEPT ![h] = front]
      BY <3>1
    <3> HIDE DEF e
    <3>5. e.offset \in Nat \ {0} /\ e.length \in Nat \ {0} /\ End(e) = e.offset + e.length
      BY <3>2 DEF Extent, End
    <3>6. End(e) - 1 \in Bytes(e) /\ Bytes(e) \subseteq Covered(Range(extents))
      <4>1. Bytes(e) = e.offset .. (End(e) - 1)
        BY DEF Bytes
      <4>2. Bytes(e) \subseteq Covered(Range(extents))
        BY <3>2 DEF Covered
      <4> QED
        BY <3>5, <4>1, <4>2
    <3>7. End(e) <= DiskEnd
      <4>1. End(e) - 1 < DiskEnd
        BY <1>2, <3>6 DEF InDisk
      <4> QED
        BY <3>2, <3>5, <4>1
    <3>8. End(front) <= DiskEnd
      BY <3>2, <3>5, <3>7 DEF End
    <3> HIDE DEF front
    <3>9. \A g \in Holder : End(held'[g]) <= DiskEnd
      BY <1>2, <2>1, <3>4, <3>8 DEF InDisk
    <3>10. \A r \in Store!Remainder(e, size) : Bytes(r) \subseteq Bytes(e)
      <4>1. Bytes(e) = e.offset .. (e.offset + e.length - 1)
        BY <3>5 DEF Bytes
      <4>2. \A r \in Store!Remainder(e, size) :
              r = [offset |-> e.offset + size, length |-> e.length - size]
        BY DEF Store!Remainder
      <4>3. Bytes([offset |-> e.offset + size, length |-> e.length - size])
              = (e.offset + size) .. (e.offset + e.length - 1)
        BY <3>2, <3>5 DEF Bytes, End
      <4>4. (e.offset + size) .. (e.offset + e.length - 1) \subseteq e.offset .. (e.offset + e.length - 1)
        BY <3>2, <3>5
      <4> QED
        BY <4>1, <4>2, <4>3, <4>4
    <3>11. Covered(Range(extents')) \subseteq Covered(Range(extents))
      BY <3>3, <3>6, <3>10 DEF Covered
    <3> QED
      BY <1>2, <3>9, <3>11 DEF InDisk
  <2>3. ASSUME NEW h \in Holder, NEW size \in Sizes, AllocGrow(h, size) PROVE InDisk'
    <3> DEFINE front == [offset |-> next_data_offset, length |-> size]
    <3>1. /\ End(front) <= DiskEnd
          /\ held' = [held EXCEPT ![h] = front]
          /\ extents' = extents
      BY <2>3 DEF AllocGrow, End
    <3> HIDE DEF front
    <3> QED
      BY <1>2, <2>1, <3>1 DEF InDisk
  <2>4. ASSUME NEW h \in Holder, Free(h) PROVE InDisk'
    <3>1. /\ held[h] \in Extent /\ End(held[h]) <= DiskEnd
          /\ extents' = Freed(extents, held[h])
          /\ held' = [held EXCEPT ![h] = Nothing]
          /\ DiskEnd \in Nat /\ MaxExtents \in Nat /\ Len(extents) \in Nat
      BY <1>2, <2>1, <2>4, ExtentsAssumption DEF Free, InDisk
    <3>2. \/ extents' = extents
          \/ Covered(Range(extents')) = Covered(Range(extents)) \cup Bytes(held[h])
      <4>1. CASE Len(extents) >= MaxExtents
        BY <2>1, <3>1, <4>1, FreedIs
      <4>2. CASE Len(extents) < MaxExtents
        BY <2>1, <3>1, <4>2, FreedIs
      <4> QED
        BY <3>1, <4>1, <4>2
    <3>3. \A x \in Bytes(held[h]) : x < DiskEnd
      <4> DEFINE e == held[h]
      <4>1. e.offset \in Nat /\ End(e) \in Nat /\ End(e) <= DiskEnd
        BY <3>1 DEF Extent, End
      <4>2. Bytes(e) = e.offset .. (End(e) - 1)
        BY DEF Bytes
      <4> HIDE DEF e
      <4>3. \A x \in Bytes(e) : x < DiskEnd
        BY <3>1, <4>1, <4>2
      <4> QED
        BY <4>3 DEF e
    <3>4. \A x \in Covered(Range(extents')) : x < DiskEnd
      BY <1>2, <3>2, <3>3 DEF InDisk
    <3>5. End(Nothing) <= DiskEnd
      BY <3>1 DEF End, Nothing
    <3>6. \A g \in Holder : End(held'[g]) <= DiskEnd
      BY <1>2, <2>1, <3>1, <3>5 DEF InDisk
    <3> QED
      BY <3>4, <3>6 DEF InDisk
  <2>5. CASE UNCHANGED vars
    BY <1>2, <2>5 DEF vars, InDisk
  <2> QED
    BY <1>2, <2>2, <2>3, <2>4, <2>5 DEF Next
<1> QED
  BY <1>1, <1>2, Inductive, PTL DEF Spec

\* From the extents the inodes name, one of them longer than what is stored,
\* fsck makes a list of free bytes only, and of all of them unless it is full.
THEOREM RebuildsComplement == Spec => []RebuildIsComplement
<1>1. ASSUME IInv, InDisk PROVE RebuildIsComplement
  <2> SUFFICES ASSUME NEW h \in Holder, NEW extra \in Extra
               PROVE  LET used == {held[g] : g \in Holder \ {h}} \cup
                                  {IF held[h] = Nothing THEN Nothing ELSE Oversized(h, extra)}
                          free == (DataStart .. (DiskEnd - 1)) \ Covered(used)
                          list == rebuild_from_inodes(SetToSeq(used \ {Nothing}))
                      IN  /\ Covered(Range(list)) \subseteq free
                          /\ Len(list) < MaxExtents => Covered(Range(list)) = free
    BY DEF RebuildIsComplement
  <2> DEFINE last == IF held[h] = Nothing THEN Nothing ELSE Oversized(h, extra)
             used == {held[g] : g \in Holder \ {h}} \cup {last}
             N == DiskEnd + 2 * Sector
             s == SetToSeq(used \ {Nothing})
  <2>1. /\ held \in [Holder -> Extent \cup {Nothing}]
        /\ DiskEnd \in Nat /\ Sector \in Nat /\ N \in Nat
        /\ \A g \in Holder : End(held[g]) <= DiskEnd
    BY <1>1, SameOps, ExtentsAssumption DEF IInv, Proved!IInv, Proved!TypeOK, InDisk
  <2>2. \A e \in Extent : /\ e.offset \in Nat \ {0} /\ e.length \in Nat \ {0}
                          /\ End(e) = e.offset + e.length
    BY DEF Extent, End
  <2>3. ASSUME NEW e \in used \ {Nothing}
        PROVE  e \in Extent /\ e.offset <= DiskEnd /\ e.length <= N
    <3>1. CASE e = last
      <4>1. held[h] \in Extent /\ e = Oversized(h, extra)
        BY <2>1, <2>3, <3>1
      <4>2. /\ e \in Extent /\ e.offset = held[h].offset
            /\ End(e) <= End(held[h]) + 2 * Sector /\ End(held[h]) <= DiskEnd
        BY <2>1, <4>1, OversizedIs
      <4> QED
        BY <2>1, <2>2, <4>1, <4>2
    <3>2. CASE e # last
      <4>1. e \in Extent /\ End(e) <= DiskEnd
        BY <2>1, <2>3, <3>2
      <4> QED
        BY <2>1, <2>2, <4>1
    <3> QED
      BY <3>1, <3>2
  <2> HIDE DEF used, N
  <2>4. s \in Seq(Extent) /\ Range(s) = used \ {Nothing}
    <3>1. \A e \in used \ {Nothing} : e.offset <= N /\ e.length <= N
      BY <2>1, <2>2, <2>3 DEF N
    <3> QED
      BY <2>1, <2>3, <3>1, VectorOf
  <2> HIDE DEF s
  <2>5. \A e \in Range(s) : e.offset <= DiskEnd
    BY <2>3, <2>4
  <2>6. Covered(Range(s)) = Covered(used)
    <3>1. Bytes(Nothing) = {}
      BY DEF Bytes, End, Nothing
    <3> QED
      BY <2>4, <3>1 DEF Covered
  <2>7. LET list == rebuild_from_inodes(s)
            free == (DataStart .. (DiskEnd - 1)) \ Covered(used)
        IN  /\ Covered(Range(list)) \subseteq free
            /\ Len(list) < MaxExtents => Covered(Range(list)) = free
    BY <2>4, <2>5, <2>6, RebuildIs
  <2> QED
    BY <2>7 DEF s, used
<1> QED
  BY <1>1, Inductive, InDiskInductive, PTL

-----------------------------------------------------------------------------
(***************************************************************************)
(* What the three operations promise whoever calls them in some other      *)
(* order than alloc_data and free_data do: no two extents meet, and a byte *)
(* that is free afterwards was free, or was given back.                    *)
(***************************************************************************)
Distinct(s) ==
  \A i, j \in DOMAIN s : i # j => End(s[i]) <= s[j].offset \/ End(s[j]) <= s[i].offset

LEMMA EndsAre == \A e \in Extent : /\ e.offset \in Nat \ {0} /\ e.length \in Nat \ {0}
                                   /\ End(e) \in Nat /\ e.offset < End(e)
BY DEF Extent, End

LEMMA ApartIsDistinct ==
  ASSUME NEW m \in Seq(Extent), Apart(m)
  PROVE  Distinct(m)
<1>1. DOMAIN m = 1 .. Len(m) /\ Len(m) \in Nat /\ \A i \in DOMAIN m : m[i] \in Extent
  OBVIOUS
<1>2. ASSUME NEW i \in DOMAIN m, NEW j \in DOMAIN m, i # j
      PROVE  End(m[i]) <= m[j].offset \/ End(m[j]) <= m[i].offset
  <2>1. i < j \/ j < i
    BY <1>1, <1>2
  <2>2. End(m[i]) < m[j].offset \/ End(m[j]) < m[i].offset
    BY <2>1 DEF Apart
  <2>3. m[i] \in Extent /\ m[j] \in Extent
    BY <1>1
  <2> QED
    BY <2>2, <2>3, EndsAre
<1> QED
  BY <1>2 DEF Distinct

LEMMA FewAreDistinct == \A s \in Seq(Extent) : Len(s) < 2 => Distinct(s)
<1> SUFFICES ASSUME NEW s \in Seq(Extent), Len(s) < 2 PROVE Distinct(s)
  OBVIOUS
<1>1. \A i, j \in DOMAIN s : i = j
  OBVIOUS
<1> QED
  BY <1>1 DEF Distinct

\* free
LEMMA FreedStaysDistinct ==
  ASSUME NEW s \in Seq(Extent), Distinct(s), NEW e \in Extent
  PROVE  /\ Freed(s, e) \in Seq(Extent) /\ Distinct(Freed(s, e))
         /\ Covered(Range(Freed(s, e))) \subseteq Covered(Range(s)) \cup Bytes(e)
<1>1. e.offset # 0 /\ e.length # 0 /\ Len(s) \in Nat /\ MaxExtents \in Nat
  BY ExtentsAssumption DEF Extent
<1>2. CASE Len(s) >= MaxExtents
  BY <1>2, FreedIs
<1>3. CASE Len(s) < MaxExtents
  <2> DEFINE a == Append(s, e)
  <2>1. Freed(s, e) = merge_adjacent(a) /\ a \in Seq(Extent)
    BY <1>1, <1>3 DEF Freed, Capped
  <2> HIDE DEF a
  <2>2. Distinct(merge_adjacent(a))
    <3>1. CASE Len(a) < 2
      BY <2>1, <3>1, FewAreDistinct DEF merge_adjacent
    <3>2. CASE ~(Len(a) < 2)
      <4> DEFINE b == ByOffset(a)
                 r == FoldLeft(Absorb, <<>>, b)
      <4>1. /\ b \in Seq(Extent) /\ Len(b) = Len(a)
            /\ \A p, q \in 1 .. Len(b) : p <= q => b[p].offset <= b[q].offset
        BY <2>1, SortedIs
      <4> HIDE DEF b
      <4>2. r \in Seq(Extent) /\ Apart(r)
        BY <4>1, SweepIs
      <4>3. merge_adjacent(a) = r
        BY <3>2 DEF merge_adjacent, b
      <4> HIDE DEF r
      <4> QED
        BY <4>2, <4>3, ApartIsDistinct
    <3> QED
      BY <3>1, <3>2
  <2> QED
    BY <1>3, <2>1, <2>2, FreedIs
<1> QED
  BY <1>1, <1>2, <1>3

\* Where what follows place i was, once place i is left out.
Moved(i, j) == IF j < i THEN j ELSE j + 1

\* A vector without one of its extents.
LEMMA RestIs ==
  ASSUME NEW s \in Seq(Extent), NEW i \in DOMAIN s
  PROVE  /\ RemoveAt(s, i) \in Seq(Extent) /\ Len(RemoveAt(s, i)) = Len(s) - 1
         /\ \A j \in 1 .. (Len(s) - 1) : /\ Moved(i, j) \in 1 .. Len(s) /\ Moved(i, j) # i
                                       /\ RemoveAt(s, i)[j] = s[Moved(i, j)]
         /\ \A j, l \in 1 .. (Len(s) - 1) : j # l => Moved(i, j) # Moved(i, l)
<1> DEFINE n == Len(s)
           a == SubSeq(s, 1, i - 1)
           b == SubSeq(s, i + 1, n)
           at(j) == Moved(i, j)
<1>1. n \in Nat /\ DOMAIN s = 1 .. n /\ i \in 1 .. n
  OBVIOUS
<1>2. /\ a \in Seq(Extent) /\ Len(a) = i - 1 /\ \A j \in 1 .. (i - 1) : a[j] = s[j]
  BY <1>1
<1>3. b \in Seq(Extent) /\ Len(b) = n - i /\ \A j \in 1 .. (n - i) : b[j] = s[i + j]
  BY <1>1
<1>4. RemoveAt(s, i) = a \o b
  BY DEF RemoveAt
<1> HIDE DEF a, b, n
<1>5. a \o b \in Seq(Extent) /\ Len(a \o b) = n - 1
  <2>1. a \in Seq(Extent) /\ b \in Seq(Extent)
    BY <1>2, <1>3
  <2>2. a \o b \in Seq(Extent) /\ Len(a \o b) = Len(a) + Len(b)
    BY <2>1
  <2> QED
    BY <1>1, <1>2, <1>3, <2>2
<1>6. ASSUME NEW j \in 1 .. (n - 1)
      PROVE  at(j) \in 1 .. n /\ at(j) # i /\ (a \o b)[j] = s[at(j)]
  <2>1. CASE j < i
    <3>1. j \in 1 .. (i - 1)
      BY <1>1, <2>1
    <3>2. (a \o b)[j] = a[j]
      BY <1>2, <1>3, <3>1
    <3> QED
      BY <1>1, <1>2, <2>1, <3>1, <3>2 DEF Moved
  <2>2. CASE ~(j < i)
    <3>1. j - (i - 1) \in 1 .. (n - i) /\ i + (j - (i - 1)) = j + 1
      BY <1>1, <2>2
    <3>2. (a \o b)[j] = b[j - Len(a)]
      <4>1. j \in 1 .. (Len(a) + Len(b)) /\ j > Len(a)
        BY <1>1, <1>2, <1>3, <2>2
      <4> QED
        BY <1>2, <1>3, <4>1, ConcatAt
    <3>3. (a \o b)[j] = b[j - (i - 1)]
      BY <1>2, <3>2
    <3>4. b[j - (i - 1)] = s[i + (j - (i - 1))]
      BY <1>3, <3>1
    <3>5. at(j) = j + 1
      BY <2>2 DEF Moved
    <3>6. j + 1 \in 1 .. n /\ j + 1 # i
      BY <1>1, <2>2
    <3> QED
      BY <3>1, <3>3, <3>4, <3>5, <3>6
  <2> QED
    BY <2>1, <2>2
<1>7. \A j, l \in 1 .. (n - 1) : j # l => at(j) # at(l)
  BY <1>1 DEF Moved
<1> QED
  BY <1>1, <1>4, <1>5, <1>6, <1>7 DEF n

\* alloc, which the command line may ask for nothing.
LEMMA TakenStaysDistinct ==
  ASSUME NEW s \in Seq(Extent), Distinct(s), NEW i \in DOMAIN s, NEW size \in Nat,
         s[i].length >= size
  PROVE  /\ Taken(s, i, size) \in Seq(Extent) /\ Distinct(Taken(s, i, size))
         /\ \A x \in Covered(Range(Taken(s, i, size))) :
              x \in Covered(Range(s)) /\ ~(s[i].offset <= x /\ x < s[i].offset + size)
<1> DEFINE n == Len(s)
           rest == RemoveAt(s, i)
           k == Kept(s[i], size)
           t == Taken(s, i, size)
           at(j) == Moved(i, j)
<1>1. n \in Nat /\ DOMAIN s = 1 .. n /\ i \in 1 .. n /\ \A j \in 1 .. n : s[j] \in Extent
  OBVIOUS
<1>2. /\ rest \in Seq(Extent) /\ Len(rest) = n - 1
      /\ \A j \in 1 .. (n - 1) : at(j) \in 1 .. n /\ at(j) # i /\ rest[j] = s[at(j)]
  BY RestIs
<1>3. \A j, l \in 1 .. (n - 1) : j # l => at(j) # at(l)
  BY RestIs
<1> HIDE DEF n, rest
<1> DEFINE Within(e, j) == s[j].offset <= e.offset /\ End(e) <= End(s[j])
           Beyond(e) == e.offset = s[i].offset + size
           Of(l) == IF l = n THEN i ELSE at(l)
<1>4. /\ t \in Seq(Extent) /\ Len(t) \in (n - 1) .. n
      /\ \A l \in 1 .. Len(t) : /\ Of(l) \in 1 .. n /\ Within(t[l], Of(l))
                                /\ Of(l) = i => Beyond(t[l])
      /\ \A l, m \in 1 .. Len(t) : l # m => Of(l) # Of(m)
  <2>1. ASSUME NEW j \in 1 .. (n - 1)
        PROVE  Of(j) = at(j) /\ Of(j) \in 1 .. n /\ Of(j) # i /\ Within(rest[j], Of(j))
    <3>1. Of(j) = at(j) /\ at(j) \in 1 .. n /\ at(j) # i /\ rest[j] = s[at(j)]
      <4>1. j # n
        BY <1>1
      <4> QED
        BY <1>2, <4>1
    <3> HIDE DEF at, Of, rest
    <3>2. s[Of(j)] \in Extent
      BY <1>1, <3>1
    <3> QED
      BY <3>1, <3>2, EndsAre
  <2>2. \A l, m \in 1 .. n : l # m => Of(l) # Of(m)
    <3>1. ASSUME NEW l \in 1 .. n, NEW m \in 1 .. n, l # m PROVE Of(l) # Of(m)
      <4>1. /\ l # n => l \in 1 .. (n - 1)
            /\ m # n => m \in 1 .. (n - 1)
        BY <1>1
      <4> QED
        BY <1>2, <1>3, <3>1, <4>1
    <3> QED
      BY <3>1
  <2>3. Of(n) = i
    OBVIOUS
  <2>4. CASE WorthKeeping(s[i].length - size)
    <3>1. t = Append(rest, k)
      BY <2>4 DEF Taken, rest
    <3>2. s[i].offset \in Nat \ {0} /\ s[i].length \in Nat \ {0}
      BY <1>1, EndsAre
    <3>3. k \in Extent /\ Within(k, i) /\ Beyond(k)
      <4>1. s[i].length - size >= 1
        BY <2>4, <3>2, ExtentsAssumption DEF WorthKeeping
      <4>2. k.offset = s[i].offset + size /\ k.length = s[i].length - size
        BY DEF Kept
      <4>3. s[i].offset + size \in Nat \ {0} /\ s[i].length - size \in Nat \ {0}
        BY <3>2, <4>1
      <4>4. k \in Extent
        BY <4>3 DEF Kept, Extent
      <4> QED
        BY <3>2, <4>2, <4>4 DEF End
    <3> HIDE DEF k, rest, t, at, Of, Within, Beyond
    <3>4. /\ t \in Seq(Extent) /\ Len(t) = n /\ t[n] = k
          /\ \A j \in 1 .. (n - 1) : t[j] = rest[j]
      <4>1. /\ t \in Seq(Extent) /\ Len(t) = Len(rest) + 1 /\ t[Len(rest) + 1] = k
            /\ \A j \in 1 .. Len(rest) : t[j] = rest[j]
        BY <1>2, <3>1, <3>3
      <4>2. Len(rest) + 1 = n
        BY <1>1, <1>2
      <4> QED
        BY <1>2, <4>1, <4>2
    <3>5. 1 .. Len(t) = (1 .. (n - 1)) \cup {n} /\ n \in (n - 1) .. n /\ n \in 1 .. n
      BY <1>1, <3>4
    <3>6. ASSUME NEW l \in 1 .. Len(t)
          PROVE  Of(l) \in 1 .. n /\ Within(t[l], Of(l)) /\ (Of(l) = i => Beyond(t[l]))
      BY <1>1, <2>1, <2>3, <3>3, <3>4, <3>5
    <3> QED
      BY <2>2, <3>4, <3>5, <3>6
  <2>5. CASE ~WorthKeeping(s[i].length - size)
    <3>1. t = rest
      BY <2>5 DEF Taken, rest
    <3> HIDE DEF rest, t, at, Of, Within, Beyond
    <3>2. 1 .. (n - 1) \subseteq 1 .. n /\ n - 1 \in (n - 1) .. n
      BY <1>1
    <3> QED
      BY <1>2, <2>1, <2>2, <3>1, <3>2
  <2> QED
    BY <2>4, <2>5
<1> HIDE DEF t, at, Of, rest, k
<1>5. DOMAIN t = 1 .. Len(t) /\ \A l \in 1 .. Len(t) : t[l] \in Extent
  BY <1>4
<1>6. Distinct(t)
  <2>1. ASSUME NEW l \in 1 .. Len(t), NEW m \in 1 .. Len(t), l # m
        PROVE  End(t[l]) <= t[m].offset \/ End(t[m]) <= t[l].offset
    <3>1. /\ Of(l) \in 1 .. n /\ Of(m) \in 1 .. n /\ Of(l) # Of(m)
          /\ Within(t[l], Of(l)) /\ Within(t[m], Of(m))
      BY <1>4, <2>1
    <3>2. End(s[Of(l)]) <= s[Of(m)].offset \/ End(s[Of(m)]) <= s[Of(l)].offset
      BY <1>1, <3>1 DEF Distinct
    <3>3. s[Of(l)] \in Extent /\ s[Of(m)] \in Extent /\ t[l] \in Extent /\ t[m] \in Extent
      BY <1>1, <1>5, <3>1
    <3> HIDE DEF Distinct
    <3>4. /\ s[Of(l)].offset <= t[l].offset /\ End(t[l]) <= End(s[Of(l)])
          /\ s[Of(m)].offset <= t[m].offset /\ End(t[m]) <= End(s[Of(m)])
      BY <3>1
    <3>5. /\ s[Of(l)].offset \in Nat /\ End(s[Of(l)]) \in Nat
          /\ s[Of(m)].offset \in Nat /\ End(s[Of(m)]) \in Nat
          /\ t[l].offset \in Nat /\ End(t[l]) \in Nat
          /\ t[m].offset \in Nat /\ End(t[m]) \in Nat
      BY <3>3, EndsAre
    <3>6. CASE End(s[Of(l)]) <= s[Of(m)].offset
      <4>1. End(t[l]) <= s[Of(m)].offset
        BY <3>4, <3>5, <3>6
      <4> QED
        BY <3>4, <3>5, <4>1
    <3>7. CASE End(s[Of(m)]) <= s[Of(l)].offset
      <4>1. End(t[m]) <= s[Of(l)].offset
        BY <3>4, <3>5, <3>7
      <4> QED
        BY <3>4, <3>5, <4>1
    <3> QED
      BY <3>2, <3>6, <3>7
  <2> QED
    BY <1>5, <2>1 DEF Distinct
<1>7. ASSUME NEW x \in Covered(Range(t))
      PROVE  x \in Covered(Range(s)) /\ ~(s[i].offset <= x /\ x < s[i].offset + size)
  <2>1. PICK l \in 1 .. Len(t) : x \in Bytes(t[l])
    BY <1>5, <1>7 DEF Covered, Range
  <2> DEFINE j == Of(l)
  <2>2. j \in 1 .. n /\ Within(t[l], j) /\ (j = i => Beyond(t[l]))
    BY <1>4
  <2> HIDE DEF j
  <2>3. t[l] \in Extent /\ s[j] \in Extent /\ s[i] \in Extent
    BY <1>1, <1>5, <2>2
  <2>4. x \in Int /\ t[l].offset <= x /\ x < End(t[l])
    BY <2>1, <2>3, EndsAre DEF Bytes
  <2>5. s[j].offset <= x /\ x < End(s[j])
    BY <2>2, <2>3, <2>4, EndsAre
  <2>6. x \in Bytes(s[j])
    BY <2>3, <2>4, <2>5, EndsAre DEF Bytes
  <2>7. x \in Covered(Range(s))
    BY <1>1, <2>2, <2>6 DEF Covered, Range
  <2>8. CASE j = i
    <3>1. t[l].offset = s[i].offset + size
      BY <2>2, <2>8
    <3> QED
      BY <2>3, <2>4, <2>7, <3>1, EndsAre
  <2>9. CASE j # i
    <3>1. End(s[j]) <= s[i].offset \/ End(s[i]) <= s[j].offset
      BY <1>1, <2>2, <2>9 DEF Distinct
    <3>2. s[i].offset + size <= End(s[i])
      BY <1>1, EndsAre DEF End
    <3>3. /\ s[i].offset \in Nat /\ End(s[i]) \in Nat /\ s[j].offset \in Nat /\ End(s[j]) \in Nat
      BY <2>3, EndsAre
    <3>4. x \in Int
      BY <2>4
    <3>5. ~(s[i].offset <= x /\ x < s[i].offset + size)
      BY <2>5, <3>1, <3>2, <3>3, <3>4
    <3> QED
      BY <2>7, <3>5
  <2> QED
    BY <2>8, <2>9
<1> QED
  BY <1>4, <1>6, <1>7 DEF t

\* rebuild_from_inodes, on a disk that has room for data.
LEMMA RebuiltIsDistinct ==
  ASSUME NEW used \in Seq(Extent), DataStart < DiskEnd
  PROVE  rebuild_from_inodes(used) \in Seq(Extent) /\ Distinct(rebuild_from_inodes(used))
<1>1. DataStart \in Nat \ {0} /\ DiskEnd \in Nat
  BY ExtentsAssumption
<1>2. CASE used = <<>>
  <2> DEFINE g == Gap(DataStart, DiskEnd)
  <2>1. g \in Extent
    BY <1>1, GapIs
  <2>2. rebuild_from_inodes(used) = <<g>>
    BY <1>2 DEF rebuild_from_inodes
  <2> HIDE DEF g
  <2>3. <<g>> \in Seq(Extent) /\ Len(<<g>>) < 2
    BY <2>1
  <2> QED
    BY <2>2, <2>3, FewAreDistinct
<1>3. CASE used # <<>>
  <2> DEFINE s == ByOffset(used)
             base == [list |-> <<>>, cursor |-> DataStart]
             r == FoldLeft(Skip, base, s)
  <2>1. s \in Seq(Extent)
    BY SortedIs
  <2> HIDE DEF s
  <2> DEFINE n == Len(s)
  <2>2. n \in Nat /\ DOMAIN s = 1 .. n /\ \A i \in 1 .. n : s[i] \in Extent
    BY <2>1
  <2>3. base \in Swept
    BY <1>1 DEF Swept
  <2>4. PICK m \in [0 .. n -> Swept] :
          /\ m[0] = base
          /\ \A k \in 1 .. n : m[k] = Skip(m[k - 1], s[k])
          /\ FoldLeft(Skip, base, s) = m[n]
    <3> HIDE DEF base
    <3> QED
      BY <2>1, <2>3, SkipRounds
  <2> HIDE DEF n
  <2> DEFINE T == {k \in 0 .. n : Distinct(m[k].list)}
  <2>5. 0 \in T
    <3>1. m[0].list = <<>>
      BY <2>4
    <3>2. Distinct(<<>>)
      BY DEF Distinct
    <3> QED
      BY <2>2, <3>1, <3>2
  <2>6. ASSUME NEW k \in 0 .. (n - 1), k \in T PROVE k + 1 \in T
    <3> DEFINE acc == m[k]
               x == s[k + 1]
    <3>1. k \in 0 .. n /\ k + 1 \in 1 .. n /\ k + 1 \in 0 .. n /\ (k + 1) - 1 = k
      BY <2>2
    <3>2. acc \in Swept /\ x \in Extent /\ m[k + 1] = Skip(acc, x) /\ Distinct(acc.list)
      <4>1. m[k + 1] = Skip(m[(k + 1) - 1], s[k + 1])
        BY <2>4, <3>1
      <4> QED
        BY <2>2, <2>6, <3>1, <4>1
    <3> HIDE DEF acc, x
    <3>3. acc.list \in Seq(Extent) /\ acc.cursor \in Nat \ {0} /\ x.offset \in Nat
      BY <3>2, EndsAre DEF Swept
    <3>4. CASE x.offset > acc.cursor
      <4>1. Gap(acc.cursor, x.offset) \in Extent
        BY <3>3, <3>4, GapIs
      <4>2. m[k + 1].list = Freed(acc.list, Gap(acc.cursor, x.offset))
        BY <3>2, <3>4 DEF Skip
      <4> QED
        BY <3>1, <3>2, <3>3, <4>1, <4>2, FreedStaysDistinct
    <3>5. CASE ~(x.offset > acc.cursor)
      <4>1. m[k + 1].list = acc.list
        BY <3>2, <3>5 DEF Skip
      <4> QED
        BY <3>1, <3>2, <4>1
    <3> QED
      BY <3>4, <3>5
  <2>7. n \in T
    <3> HIDE DEF T
    <3>1. 0 .. n \subseteq T
      BY <2>2, <2>5, <2>6, UpTo
    <3> QED
      BY <2>2, <3>1
  <2>8. r.list \in Seq(Extent) /\ r.cursor \in Nat \ {0} /\ Distinct(r.list)
    <3>1. r = m[n] /\ n \in 0 .. n
      BY <2>2, <2>4
    <3>2. m[n] \in Swept
      BY <2>4, <3>1
    <3> QED
      BY <2>7, <3>1, <3>2 DEF Swept
  <2>9. rebuild_from_inodes(used) =
          IF r.cursor < DiskEnd THEN Freed(r.list, Gap(r.cursor, DiskEnd)) ELSE r.list
    BY <1>3 DEF rebuild_from_inodes, s
  <2> HIDE DEF r
  <2>10. CASE r.cursor < DiskEnd
    <3>1. Gap(r.cursor, DiskEnd) \in Extent
      BY <1>1, <2>8, <2>10, GapIs
    <3> QED
      BY <2>8, <2>9, <2>10, <3>1, FreedStaysDistinct
  <2>11. CASE ~(r.cursor < DiskEnd)
    BY <2>8, <2>9, <2>11
  <2> QED
    BY <2>10, <2>11
<1> QED
  BY <1>2, <1>3
=============================================================================
