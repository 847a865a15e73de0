----------------------------- MODULE FoldLemmas -----------------------------
(***************************************************************************)
(* What the proofs need to know of the loops of the models, which are      *)
(* folds over a sequence or a set: that the function a fold is defined by  *)
(* exists.  An induction is an appeal to the least counterexample.         *)
(***************************************************************************)
EXTENDS Integers, FiniteSets, FiniteSetsExt, FiniteSetTheorems,
        WellFoundedInduction, TLAPS

\* A set of naturals that is not empty has a least element.
LEMMA Least ==
  ASSUME NEW T \in SUBSET Nat, T # {}
  PROVE  \E m \in T : \A k \in T : m <= k
<1>1. \E x \in T : \A y \in T : <<y, x>> \notin OpToRel(<, Nat)
  BY NatLessThanWellFounded, WFMin, Zenon
<1>2. OpToRel(<, Nat) = {p \in Nat \X Nat : p[1] < p[2]}
  BY Zenon DEF OpToRel
<1>3. PICK m \in T : \A k \in T : <<k, m>> \notin OpToRel(<, Nat)
  BY <1>1
<1>4. ASSUME NEW k \in T PROVE m <= k
  <2>1. ~(k < m)
    BY <1>2, <1>3
  <2> QED
    BY <2>1
<1> QED
  BY <1>4

\* A set of naturals that contains 0, and m + 1 with m < n, contains 0 .. n.
LEMMA UpTo ==
  ASSUME NEW n \in Nat, NEW T, 0 \in T, \A m \in 0 .. (n - 1) : m \in T => m + 1 \in T
  PROVE  0 .. n \subseteq T
<1>1. SUFFICES ASSUME (0 .. n) \ T # {} PROVE FALSE
  OBVIOUS
<1>2. PICK m \in (0 .. n) \ T : \A k \in (0 .. n) \ T : m <= k
  <2>1. (0 .. n) \ T \in SUBSET Nat
    OBVIOUS
  <2> QED
    BY <1>1, <2>1, Least
<1>3. m # 0 /\ m - 1 \in 0 .. (n - 1)
  BY <1>2
<1>4. m - 1 \in T
  BY <1>2, <1>3
<1> QED
  BY <1>2, <1>3, <1>4

\* The largest element of a set of the form an interval's part and its end.
LEMMA MaxIs ==
  ASSUME NEW T \in SUBSET Int, NEW m \in T, \A k \in T : k <= m
  PROVE  Max(T) = m
<1>1. Max(T) \in T /\ \A k \in T : Max(T) >= k
  <2>1. \E x \in T : \A k \in T : x >= k
    OBVIOUS
  <2> QED
    BY <2>1, Zenon DEF Max
<1>2. Max(T) \in Int /\ m \in Int /\ Max(T) >= m /\ Max(T) <= m
  BY <1>1
<1> QED
  BY <1>2

\* A part of an interval that is not empty has a largest element.
LEMMA MaxIn ==
  ASSUME NEW n \in Nat, NEW t \in SUBSET (1 .. n), t # {}
  PROVE  Max(t) \in t /\ \A k \in t : k <= Max(t)
<1> DEFINE U == {n - k : k \in t}
<1>1. U \in SUBSET Nat /\ U # {}
  <2>1. PICK k \in t : TRUE
    OBVIOUS
  <2>2. n - k \in U
    OBVIOUS
  <2>3. \A i \in t : i \in 1 .. n /\ n - i \in Nat
    OBVIOUS
  <2> QED
    BY <2>2, <2>3
<1>2. PICK u \in U : \A v \in U : u <= v
  BY <1>1, Least
<1>3. PICK m \in t : u = n - m
  BY <1>2
<1>4. \A k \in t : k <= m
  <2>1. ASSUME NEW k \in t PROVE k <= m
    <3>1. n - k \in U
      OBVIOUS
    <3>2. n - m <= n - k
      BY <1>2, <1>3, <3>1
    <3> QED
      BY <3>2
  <2> QED
    BY <2>1
<1>5. t \in SUBSET Int
  OBVIOUS
<1> QED
  BY <1>4, <1>5, MaxIs

\* g is the function FoldLeft computes with over n indices, D its step.
IsFold(g, n, base, D) ==
  \A t \in SUBSET (1 .. n) :
    g[t] = IF t = {} THEN base ELSE D[<<g[t \ {Max(t)}], Max(t)>>]

\* As much of it as is known before its values are known to be in A.
IsFoldIn(h, n, A, base, D) ==
  /\ h[{}] = base
  /\ \A t \in SUBSET (1 .. n) :
       t # {} /\ h[t \ {Max(t)}] \in A => h[t] = D[<<h[t \ {Max(t)}], Max(t)>>]

\* m is what a loop of n rounds has computed after each of them, h's last.
IsRounds(m, h, n, base, D) ==
  /\ m[0] = base
  /\ m[n] = h[1 .. n]
  /\ \A k \in 1 .. n : m[k] = D[<<m[k - 1], k>>]

\* The function FoldLeft computes with exists.
LEMMA FoldDefined ==
  ASSUME NEW n \in Nat, NEW A, NEW base \in A, NEW D \in [A \X (1 .. n) -> A]
  PROVE  \E g \in [SUBSET (1 .. n) -> A] : IsFold(g, n, base, D)
<1> DEFINE Ok(m, g) ==
      \A t \in SUBSET (1 .. m) :
        g[t] = IF t = {} THEN base ELSE D[<<g[t \ {Max(t)}], Max(t)>>]
           T == {m \in 0 .. n : \E g \in [SUBSET (1 .. m) -> A] : Ok(m, g)}
<1>1. 0 \in T
  <2>1. SUBSET (1 .. 0) = {{}}
    OBVIOUS
  <2>2. Ok(0, [t \in SUBSET (1 .. 0) |-> base])
    BY <2>1
  <2>3. [t \in SUBSET (1 .. 0) |-> base] \in [SUBSET (1 .. 0) -> A]
    OBVIOUS
  <2>4. \E g \in [SUBSET (1 .. 0) -> A] : Ok(0, g)
    BY <2>2, <2>3
  <2> HIDE DEF Ok
  <2>5. 0 \in 0 .. n
    OBVIOUS
  <2> QED
    BY <2>4, <2>5
<1>2. ASSUME NEW m \in 0 .. (n - 1), m \in T PROVE m + 1 \in T
  <2>1. PICK g \in [SUBSET (1 .. m) -> A] : Ok(m, g)
    BY <1>2
  <2> DEFINE G == [t \in SUBSET (1 .. (m + 1)) |->
                     IF m + 1 \in t THEN D[<<g[t \ {m + 1}], m + 1>>] ELSE g[t]]
  <2>2. m + 1 \in 1 .. n
    OBVIOUS
  <2>3. ASSUME NEW t \in SUBSET (1 .. (m + 1)), m + 1 \in t
        PROVE  /\ t \ {m + 1} \in SUBSET (1 .. m)
               /\ Max(t) = m + 1
    <3>1. t \ {m + 1} \in SUBSET (1 .. m)
      OBVIOUS
    <3> QED
      BY <3>1, <2>3, MaxIs
  <2>4. ASSUME NEW t \in SUBSET (1 .. (m + 1)), m + 1 \notin t
        PROVE  t \in SUBSET (1 .. m)
    BY <2>4
  <2>5. G \in [SUBSET (1 .. (m + 1)) -> A]
    <3>1. ASSUME NEW t \in SUBSET (1 .. (m + 1)) PROVE G[t] \in A
      <4>1. CASE m + 1 \in t
        BY <2>2, <2>3, <4>1
      <4>2. CASE m + 1 \notin t
        BY <2>4, <4>2
      <4> QED
        BY <4>1, <4>2
    <3> QED
      BY <3>1
  <2>6. ASSUME NEW t \in SUBSET (1 .. (m + 1))
        PROVE  G[t] = IF t = {} THEN base ELSE D[<<G[t \ {Max(t)}], Max(t)>>]
    <3>1. CASE m + 1 \in t
      <4>1. t \ {m + 1} \in SUBSET (1 .. (m + 1)) /\ m + 1 \notin t \ {m + 1}
        OBVIOUS
      <4> QED
        BY <2>3, <3>1, <4>1
    <3>2. CASE m + 1 \notin t
      <4>1. t \in SUBSET (1 .. m) /\ G[t] = g[t]
        BY <2>4, <3>2
      <4>2. CASE t = {}
        BY <2>1, <4>1, <4>2
      <4>3. CASE t # {}
        <5>1. t \ {Max(t)} \in SUBSET (1 .. (m + 1)) /\ m + 1 \notin t \ {Max(t)}
          BY <3>2
        <5>2. G[t \ {Max(t)}] = g[t \ {Max(t)}]
          BY <5>1
        <5>3. g[t] = D[<<g[t \ {Max(t)}], Max(t)>>]
          BY <2>1, <4>1, <4>3
        <5> QED
          BY <4>1, <4>3, <5>2, <5>3
      <4> QED
        BY <4>2, <4>3
    <3> QED
      BY <3>1, <3>2
  <2>7. Ok(m + 1, G)
    BY <2>6
  <2> HIDE DEF G, Ok
  <2> QED
    BY <2>5, <2>7, m + 1 \in 0 .. n
<1> HIDE DEF T
<1>3. 0 .. n \subseteq T
  BY <1>1, <1>2, UpTo
<1>4. n \in T
  BY <1>3
<1>5. \E g \in [SUBSET (1 .. n) -> A] : Ok(n, g)
  <2> HIDE DEF Ok
  <2> QED
    BY <1>4 DEF T
<1> QED
  BY <1>5 DEF IsFold

\* Seen from its results on 1 .. k, such a function is the rounds of a loop.
LEMMA FoldRounds ==
  ASSUME NEW n \in Nat, NEW A, NEW base \in A, NEW D \in [A \X (1 .. n) -> A],
         NEW h, IsFoldIn(h, n, A, base, D)
  PROVE  \E m \in [0 .. n -> A] : IsRounds(m, h, n, base, D)
<1> DEFINE m == [k \in 0 .. n |-> h[1 .. k]]
           T == {k \in 0 .. n : m[k] \in A}
<1>1. m[0] = base /\ h[1 .. n] = m[n]
  <2>1. 1 .. 0 = {}
    OBVIOUS
  <2> QED
    BY <2>1 DEF IsFoldIn
<1>2. ASSUME NEW k \in 1 .. n, m[k - 1] \in A PROVE m[k] = D[<<m[k - 1], k>>]
  <2>1. 1 .. k \in SUBSET Int /\ k \in 1 .. k /\ \A i \in 1 .. k : i <= k
    OBVIOUS
  <2>2. Max(1 .. k) = k
    BY <2>1, MaxIs
  <2>3. (1 .. k) \ {k} = 1 .. (k - 1)
    OBVIOUS
  <2>5. 1 .. k # {} /\ 1 .. k \in SUBSET (1 .. n)
    BY <2>1
  <2>4. m[k] = h[1 .. k] /\ m[k - 1] = h[1 .. (k - 1)]
    OBVIOUS
  <2> HIDE DEF m
  <2> QED
    BY <1>2, <2>2, <2>3, <2>4, <2>5 DEF IsFoldIn
<1>3. 0 .. n \subseteq T
  <2>1. 0 \in T
    BY <1>1
  <2>2. ASSUME NEW k \in 0 .. (n - 1), k \in T PROVE k + 1 \in T
    <3>1. k + 1 \in 1 .. n /\ k + 1 \in 0 .. n /\ (k + 1) - 1 = k /\ m[k] \in A
      BY <2>2
    <3>2. m[k + 1] = D[<<m[k], k + 1>>]
      BY <1>2, <3>1
    <3>3. m[k + 1] \in A
      BY <3>1, <3>2
    <3> HIDE DEF m
    <3> QED
      BY <3>1, <3>3
  <2> HIDE DEF T
  <2> QED
    BY <2>1, <2>2, UpTo
<1>4. m \in [0 .. n -> A]
  BY <1>3
<1>5. \A k \in 1 .. n : m[k] = D[<<m[k - 1], k>>]
  <2>1. \A k \in 1 .. n : m[k - 1] \in A
    BY <1>4
  <2> QED
    BY <1>2, <2>1
<1> HIDE DEF m
<1> QED
  BY <1>1, <1>4, <1>5 DEF IsRounds

-----------------------------------------------------------------------------
(***************************************************************************)
(* Sums over a finite set, as FoldSet computes them: it takes the elements *)
(* in the order CHOOSE gives, which does not matter.                       *)
(***************************************************************************)
Total(d) == FoldSet(LAMBDA k, sum : sum + d[k], 0, DOMAIN d)

Pick(t) == CHOOSE x \in t : TRUE

\* g is the function FoldSet computes with, over the finite set S.
IsSum(g, S, d) ==
  \A t \in SUBSET S : g[t] = IF t = {} THEN 0 ELSE g[t \ {Pick(t)}] + d[Pick(t)]

\* Taking an element out of a part of a finite set makes it smaller by one.
LEMMA Smaller ==
  ASSUME NEW S, IsFiniteSet(S), NEW t \in SUBSET S
  PROVE  /\ IsFiniteSet(t) /\ Cardinality(t) \in Nat /\ Cardinality(t) <= Cardinality(S)
         /\ Cardinality(t) = 0 <=> t = {}
         /\ \A x \in t : /\ t \ {x} \in SUBSET S
                         /\ Cardinality(t \ {x}) = Cardinality(t) - 1
<1>1. IsFiniteSet(t) /\ Cardinality(t) <= Cardinality(S)
  BY FS_Subset
<1>2. Cardinality(t) \in Nat /\ (Cardinality(t) = 0 <=> t = {})
  BY <1>1, FS_CardinalityType, FS_EmptySet
<1>3. ASSUME NEW x \in t PROVE Cardinality(t \ {x}) = Cardinality(t) - 1
  BY <1>1, FS_RemoveElement
<1> QED
  BY <1>1, <1>2, <1>3

\* A finite set of naturals that is not empty has a greatest element.
LEMMA Greatest ==
  ASSUME NEW S \in SUBSET Nat, IsFiniteSet(S), S # {}
  PROVE  \E m \in S : \A x \in S : x <= m
<1> DEFINE c == Cardinality(S)
           Bounded(R) == \E b \in Nat : \A x \in R : x <= b
           T == {k \in 0 .. c : \A R \in SUBSET S : Cardinality(R) = k => Bounded(R)}
<1>1. c \in Nat
  BY FS_CardinalityType
<1>2. 0 \in T
  <2>1. \A R \in SUBSET S : Cardinality(R) = 0 => R = {}
    BY Smaller
  <2>2. Bounded({})
    BY 0 \in Nat
  <2>3. ASSUME NEW R \in SUBSET S, Cardinality(R) = 0 PROVE Bounded(R)
    <3>1. R = {}
      BY <2>1, <2>3
    <3> QED
      BY <2>2, <3>1
  <2> HIDE DEF Bounded
  <2> QED
    BY <1>1, <2>3
<1>3. ASSUME NEW k \in 0 .. (c - 1), k \in T PROVE k + 1 \in T
  <2>1. k \in Nat /\ k + 1 \in 0 .. c
    BY <1>1
  <2>2. ASSUME NEW R \in SUBSET S, Cardinality(R) = k + 1 PROVE Bounded(R)
    <3>1. R # {}
      BY <2>1, <2>2, Smaller
    <3>2. PICK x \in R : TRUE
      BY <3>1
    <3>7. R \ {x} \in SUBSET S /\ Cardinality(R \ {x}) = Cardinality(R) - 1
      BY <3>2, Smaller
    <3>3. R \ {x} \in SUBSET S /\ Cardinality(R \ {x}) = k
      BY <2>1, <2>2, <3>7
    <3>4. PICK b \in Nat : \A y \in R \ {x} : y <= b
      BY <1>3, <3>3
    <3>5. \A y \in R : y <= b + x
      BY <3>2, <3>4
    <3>6. b + x \in Nat
      BY <3>2, <3>4
    <3> QED
      BY <3>5, <3>6
  <2> HIDE DEF Bounded
  <2> QED
    BY <2>1, <2>2
<1> HIDE DEF c
<1>4. Bounded(S)
  <2>1. c \in T
    <3> HIDE DEF T
    <3>1. 0 .. c \subseteq T
      BY <1>1, <1>2, <1>3, UpTo
    <3> QED
      BY <1>1, <3>1
  <2>2. Cardinality(S) = c
    BY DEF c
  <2> HIDE DEF Bounded
  <2> QED
    BY <2>1, <2>2
<1> DEFINE U == {b \in Nat : \A x \in S : x <= b}
<1>5. U \in SUBSET Nat /\ U # {}
  BY <1>4
<1>6. PICK b \in U : \A x \in U : b <= x
  <2> HIDE DEF U
  <2> QED
    BY <1>5, Least
<1>7. b \in S
  <2> SUFFICES ASSUME b \notin S PROVE FALSE
    OBVIOUS
  <2>1. PICK x \in S : x <= b
    BY <1>6
  <2>2. b - 1 \in Nat /\ \A y \in S : y <= b - 1
    BY <1>6, <2>1
  <2>3. b - 1 \in U
    BY <2>2
  <2>4. b <= b - 1 /\ b \in Nat
    BY <1>6, <2>3
  <2> QED
    BY <2>4
<1>8. \A x \in S : x <= b
  BY <1>6
<1>9. \E x \in S : \A y \in S : y <= x
  BY <1>7, <1>8
<1> QED
  BY <1>9

\* CHOOSE finds an element of a set that has one.
LEMMA PickIn == \A t : t # {} => Pick(t) \in t
BY Zenon DEF Pick

\* The function exists.
LEMMA SumDefined ==
  ASSUME NEW S, IsFiniteSet(S), NEW d \in [S -> Nat]
  PROVE  \E g \in [SUBSET S -> Nat] : IsSum(g, S, d)
<1> DEFINE n == Cardinality(S)
           Upto(m) == {t \in SUBSET S : Cardinality(t) <= m}
           Ok(m, g) == \A t \in Upto(m) :
                         g[t] = IF t = {} THEN 0 ELSE g[t \ {Pick(t)}] + d[Pick(t)]
           T == {m \in 0 .. n : \E g \in [Upto(m) -> Nat] : Ok(m, g)}
<1>1. n \in Nat
  BY FS_CardinalityType
<1>2. 0 \in T
  <2>1. ASSUME NEW t \in Upto(0) PROVE t = {}
    BY Smaller
  <2> DEFINE g == [t \in Upto(0) |-> 0]
  <2>2. Ok(0, g)
    BY <2>1
  <2>3. g \in [Upto(0) -> Nat]
    OBVIOUS
  <2> HIDE DEF Ok, g, Upto
  <2>4. 0 \in 0 .. n
    BY <1>1
  <2> QED
    BY <2>2, <2>3, <2>4
<1>3. ASSUME NEW m \in 0 .. (n - 1), m \in T PROVE m + 1 \in T
  <2>1. PICK g \in [Upto(m) -> Nat] : Ok(m, g)
    BY <1>3
  <2> DEFINE G == [t \in Upto(m + 1) |->
                     IF t \in Upto(m) THEN g[t] ELSE g[t \ {Pick(t)}] + d[Pick(t)]]
  <2>2. m \in Nat /\ m + 1 \in 0 .. n
    BY <1>1
  <2>3. ASSUME NEW t \in Upto(m + 1), t # {}
        PROVE  /\ Pick(t) \in t /\ Pick(t) \in S
               /\ t \ {Pick(t)} \in Upto(m) /\ t \ {Pick(t)} \in Upto(m + 1)
    <3>1. t \in SUBSET S /\ Cardinality(t) <= m + 1
      OBVIOUS
    <3>2. Pick(t) \in t
      BY <2>3, PickIn
    <3> DEFINE u == t \ {Pick(t)}
    <3>3. u \in SUBSET S /\ Cardinality(u) = Cardinality(t) - 1 /\ Cardinality(t) \in Nat
      BY <3>1, <3>2, Smaller
    <3> HIDE DEF u
    <3>4. Cardinality(u) <= m /\ Cardinality(u) <= m + 1
      BY <2>2, <3>1, <3>3
    <3> QED
      BY <3>1, <3>2, <3>3, <3>4 DEF u
  <2>4. ASSUME NEW t \in Upto(m + 1), t \notin Upto(m) PROVE t # {}
    <3>1. Cardinality({}) = 0 /\ {} \in SUBSET S
      BY FS_EmptySet
    <3>2. {} \in Upto(m)
      BY <2>2, <3>1
    <3> QED
      BY <2>4, <3>2
  <2>5. G \in [Upto(m + 1) -> Nat]
    <3>1. ASSUME NEW t \in Upto(m + 1) PROVE G[t] \in Nat
      <4> HIDE DEF Upto
      <4>1. CASE t \in Upto(m)
        BY <4>1
      <4>2. CASE t \notin Upto(m)
        <5>1. Pick(t) \in S /\ t \ {Pick(t)} \in Upto(m)
          BY <2>3, <2>4, <4>2
        <5> QED
          BY <4>2, <5>1
      <4> QED
        BY <4>1, <4>2
    <3> HIDE DEF Upto
    <3> QED
      BY <3>1
  <2> HIDE DEF Upto
  <2>6. ASSUME NEW t \in Upto(m + 1)
        PROVE  G[t] = IF t = {} THEN 0 ELSE G[t \ {Pick(t)}] + d[Pick(t)]
    <3>1. CASE t = {}
      <4>1. t \in Upto(m)
        BY <2>4, <3>1
      <4> QED
        BY <2>1, <3>1, <4>1
    <3>2. CASE t # {}
      <4>1. t \ {Pick(t)} \in Upto(m) /\ t \ {Pick(t)} \in Upto(m + 1)
        BY <2>3, <3>2
      <4>2. G[t \ {Pick(t)}] = g[t \ {Pick(t)}]
        BY <4>1
      <4>3. CASE t \in Upto(m)
        BY <2>1, <3>2, <4>2, <4>3
      <4>4. CASE t \notin Upto(m)
        BY <3>2, <4>2, <4>4
      <4> QED
        BY <4>3, <4>4
    <3> QED
      BY <3>1, <3>2
  <2>7. Ok(m + 1, G)
    BY <2>6
  <2> HIDE DEF G, Ok
  <2> QED
    BY <2>2, <2>5, <2>7
<1> HIDE DEF T
<1>4. 0 .. n \subseteq T
  <2> HIDE DEF n
  <2> QED
    BY <1>1, <1>2, <1>3, UpTo
<1>5. n \in T
  <2> HIDE DEF n
  <2>1. n \in 0 .. n
    BY <1>1
  <2> QED
    BY <1>4, <2>1
<1>6. PICK g \in [Upto(n) -> Nat] : Ok(n, g)
  <2> HIDE DEF Upto, Ok, n
  <2> QED
    BY <1>5 DEF T
<1>7. Upto(n) = SUBSET S
  BY Smaller
<1> QED
  BY <1>6, <1>7 DEF IsSum

\* It is the only one, and the sum over a part of S does not depend on S.
LEMMA SumUnique ==
  ASSUME NEW S, IsFiniteSet(S), NEW d, NEW e, NEW g, NEW h, NEW R \in SUBSET S,
         IsSum(g, S, d), IsSum(h, R, e), \A x \in R : d[x] = e[x]
  PROVE  \A t \in SUBSET R : h[t] = g[t]
<1> DEFINE n == Cardinality(S)
           T == {m \in 0 .. n : \A t \in SUBSET R : Cardinality(t) <= m => h[t] = g[t]}
<1>1. n \in Nat
  BY FS_CardinalityType
<1>2. 0 \in T
  <2>1. ASSUME NEW t \in SUBSET R, Cardinality(t) <= 0 PROVE h[t] = g[t]
    <3>1. t = {} /\ t \in SUBSET S
      BY <2>1, Smaller
    <3> QED
      BY <3>1 DEF IsSum
  <2>2. 0 \in 0 .. n
    BY <1>1
  <2> HIDE DEF n
  <2> QED
    BY <2>1, <2>2
<1>3. ASSUME NEW m \in 0 .. (n - 1), m \in T PROVE m + 1 \in T
  <2>1. ASSUME NEW t \in SUBSET R, Cardinality(t) <= m + 1, t # {} PROVE h[t] = g[t]
    <3> DEFINE x == Pick(t)
    <3>1. x \in t
      BY <2>1, PickIn
    <3> HIDE DEF x
    <3>2. /\ t \in SUBSET S /\ t \ {x} \in SUBSET R
          /\ Cardinality(t \ {x}) = Cardinality(t) - 1 /\ Cardinality(t) \in Nat
      BY <3>1, Smaller
    <3>3. Cardinality(t \ {x}) <= m
      BY <1>1, <2>1, <3>2
    <3>4. h[t \ {x}] = g[t \ {x}]
      <4> HIDE DEF n
      <4> QED
        BY <1>3, <3>2, <3>3
    <3>5. h[t] = h[t \ {x}] + e[x]
      BY <2>1 DEF IsSum, x
    <3>6. g[t] = g[t \ {x}] + d[x]
      BY <2>1, <3>2 DEF IsSum, x
    <3> QED
      BY <3>1, <3>4, <3>5, <3>6
  <2>2. h[{}] = g[{}]
    BY DEF IsSum
  <2>3. m + 1 \in 0 .. n
    BY <1>1
  <2> HIDE DEF n
  <2> QED
    BY <2>1, <2>2, <2>3
<1>4. n \in T
  <2> HIDE DEF n, T
  <2>1. 0 .. n \subseteq T
    BY <1>1, <1>2, <1>3, UpTo
  <2>2. n \in 0 .. n
    BY <1>1
  <2> QED
    BY <2>1, <2>2
<1> QED
  BY <1>4, Smaller

\* Any element can be taken out last.
LEMMA SumSplits ==
  ASSUME NEW S, IsFiniteSet(S), NEW d \in [S -> Nat], NEW g \in [SUBSET S -> Nat],
         IsSum(g, S, d)
  PROVE  \A t \in SUBSET S : \A k \in t : g[t] = g[t \ {k}] + d[k]
<1> DEFINE n == Cardinality(S)
           T == {m \in 0 .. n : \A t \in SUBSET S : Cardinality(t) <= m =>
                   \A k \in t : g[t] = g[t \ {k}] + d[k]}
<1>1. n \in Nat
  BY FS_CardinalityType
<1>2. 0 \in T
  <2>1. ASSUME NEW t \in SUBSET S, Cardinality(t) <= 0 PROVE t = {}
    BY <2>1, Smaller
  <2>2. 0 \in 0 .. n
    BY <1>1
  <2> HIDE DEF n
  <2> QED
    BY <2>1, <2>2
<1>3. ASSUME NEW m \in 0 .. (n - 1), m \in T PROVE m + 1 \in T
  <2>1. ASSUME NEW t \in SUBSET S, Cardinality(t) <= m + 1, NEW k \in t
        PROVE  g[t] = g[t \ {k}] + d[k]
    <3> DEFINE x == Pick(t)
    <3>1. x \in t /\ g[t] = g[t \ {x}] + d[x]
      BY PickIn DEF IsSum
    <3> HIDE DEF x
    <3>2. CASE x = k
      BY <3>1, <3>2
    <3>3. CASE x # k
      <4> DEFINE u == t \ {x}
                 v == t \ {k}
                 w == t \ {x, k}
      <4>1. /\ u \in SUBSET S /\ Cardinality(u) = Cardinality(t) - 1
            /\ v \in SUBSET S /\ Cardinality(v) = Cardinality(t) - 1
            /\ Cardinality(t) \in Nat
        BY <3>1, Smaller
      <4>2. u \ {k} = w /\ v \ {x} = w /\ k \in u /\ x \in v /\ w \in SUBSET S
        BY <3>1, <3>3
      <4> HIDE DEF u, v, w
      <4>3. Cardinality(u) <= m /\ Cardinality(v) <= m
        BY <1>1, <2>1, <4>1
      <4>4. g[u] = g[w] + d[k] /\ g[v] = g[w] + d[x]
        <5> HIDE DEF n
        <5> QED
          BY <1>3, <4>1, <4>2, <4>3
      <4>5. g[w] \in Nat /\ d[k] \in Nat /\ d[x] \in Nat
        BY <3>1, <4>2
      <4>6. g[t] = g[u] + d[x]
        BY <3>1 DEF u
      <4>7. g[t] = g[v] + d[k]
        BY <4>4, <4>5, <4>6
      <4> QED
        BY <4>7 DEF v
    <3> QED
      BY <3>2, <3>3
  <2>3. m + 1 \in 0 .. n
    BY <1>1
  <2> HIDE DEF n
  <2> QED
    BY <2>1, <2>3
<1>4. n \in T
  <2> HIDE DEF n, T
  <2>1. 0 .. n \subseteq T
    BY <1>1, <1>2, <1>3, UpTo
  <2>2. n \in 0 .. n
    BY <1>1
  <2> QED
    BY <2>1, <2>2
<1> QED
  BY <1>4, Smaller

\* The sum is the value of such a function.
LEMMA TotalIs ==
  ASSUME NEW S, IsFiniteSet(S), NEW d \in [S -> Nat]
  PROVE  \E g \in [SUBSET S -> Nat] : IsSum(g, S, d) /\ Total(d) = g[S]
<1> DEFINE Rec(h) == h = [t \in SUBSET S |->
                            IF t = {} THEN 0 ELSE h[t \ {Pick(t)}] + d[Pick(t)]]
           h == CHOOSE g : Rec(g)
<1>1. PICK g \in [SUBSET S -> Nat] : IsSum(g, S, d)
  BY SumDefined
<1>2. Rec(g)
  BY <1>1 DEF IsSum
<1>3. Rec(h)
  BY <1>2, Zenon
<1>4. Total(d) = h[S]
  BY DEF Total, FoldSet, MapThenFoldSet, Pick
<1> HIDE DEF h
<1>5. IsSum(h, S, d)
  BY <1>3 DEF IsSum
<1>6. h[S] = g[S]
  <2>1. S \in SUBSET S /\ \A x \in S : d[x] = d[x]
    OBVIOUS
  <2> HIDE DEF Rec
  <2>2. \A t \in SUBSET S : h[t] = g[t]
    BY <1>1, <1>5, <2>1, SumUnique
  <2> QED
    BY <2>1, <2>2
<1> QED
  BY <1>1, <1>4, <1>6

\* What an element contributes to a sum, and what the rest of it is.
LEMMA TotalSplits ==
  ASSUME NEW S, IsFiniteSet(S), NEW d \in [S -> Nat], NEW k \in S
  PROVE  /\ Total(d) \in Nat /\ Total([x \in S \ {k} |-> d[x]]) \in Nat
         /\ Total(d) = Total([x \in S \ {k} |-> d[x]]) + d[k]
<1> DEFINE R == S \ {k}
           e == [x \in R |-> d[x]]
<1>1. PICK g \in [SUBSET S -> Nat] : IsSum(g, S, d) /\ Total(d) = g[S]
  BY TotalIs
<1>2. R \in SUBSET S /\ IsFiniteSet(R) /\ e \in [R -> Nat] /\ S \in SUBSET S /\ R \in SUBSET R
  BY FS_Subset
<1>3. \A x \in R : d[x] = e[x]
  OBVIOUS
<1> HIDE DEF e
<1>4. PICK h \in [SUBSET R -> Nat] : IsSum(h, R, e) /\ Total(e) = h[R]
  BY <1>2, TotalIs
<1>5. h[R] = g[R]
  <2> HIDE DEF R
  <2>1. \A t \in SUBSET R : h[t] = g[t]
    BY <1>1, <1>2, <1>3, <1>4, SumUnique
  <2> QED
    BY <1>2, <2>1
<1>6. g[S] = g[R] + d[k]
  BY <1>1, <1>2, SumSplits
<1> QED
  BY <1>1, <1>2, <1>4, <1>5, <1>6 DEF e

\* A sum of numbers that are not 0 is at least as large as they are many.
LEMMA SumAtLeast ==
  ASSUME NEW S, IsFiniteSet(S), NEW d \in [S -> Nat], \A x \in S : d[x] >= 1,
         NEW g, g[{}] = 0,
         \A t \in SUBSET S : t # {} => g[t] = d[Pick(t)] + g[t \ {Pick(t)}]
  PROVE  g[S] >= Cardinality(S)
<1> DEFINE n == Cardinality(S)
           Ok(t) == g[t] \in Nat /\ g[t] >= Cardinality(t)
           T == {m \in 0 .. n : \A t \in SUBSET S : Cardinality(t) <= m => Ok(t)}
<1>1. n \in Nat
  BY FS_CardinalityType
<1>2. g[{}] = 0 /\ Cardinality({}) = 0
  BY FS_EmptySet
<1>3. 0 \in T
  <2>1. ASSUME NEW t \in SUBSET S, Cardinality(t) <= 0 PROVE Ok(t)
    <3>1. t = {}
      BY <2>1, Smaller
    <3> QED
      BY <1>2, <3>1
  <2>2. 0 \in 0 .. n
    BY <1>1
  <2> HIDE DEF n, Ok
  <2> QED
    BY <2>1, <2>2
<1>4. ASSUME NEW m \in 0 .. (n - 1), m \in T PROVE m + 1 \in T
  <2>1. ASSUME NEW t \in SUBSET S, Cardinality(t) <= m + 1, t # {} PROVE Ok(t)
    <3> DEFINE x == Pick(t)
    <3>1. x \in t
      BY <2>1, PickIn
    <3>2. g[t] = d[x] + g[t \ {x}]
      BY <2>1
    <3> HIDE DEF x
    <3>3. /\ t \ {x} \in SUBSET S
          /\ Cardinality(t \ {x}) = Cardinality(t) - 1 /\ Cardinality(t) \in Nat
      BY <3>1, Smaller
    <3>4. Cardinality(t \ {x}) <= m
      BY <1>1, <2>1, <3>3
    <3>5. Ok(t \ {x})
      <4> HIDE DEF n, Ok
      <4> QED
        BY <1>4, <3>3, <3>4
    <3>6. d[x] \in Nat /\ d[x] >= 1
      BY <3>1
    <3> QED
      BY <3>2, <3>3, <3>5, <3>6
  <2>2. m + 1 \in 0 .. n
    BY <1>1
  <2>3. Ok({})
    BY <1>2
  <2> HIDE DEF n, Ok
  <2> QED
    BY <2>1, <2>2, <2>3
<1>5. n \in T
  <2> HIDE DEF n, T
  <2>1. 0 .. n \subseteq T
    BY <1>1, <1>3, <1>4, UpTo
  <2>2. n \in 0 .. n
    BY <1>1
  <2> QED
    BY <2>1, <2>2
<1> QED
  BY <1>5, Smaller

\* The sum of nothing.
LEMMA TotalEmpty == \A d : DOMAIN d = {} => Total(d) = 0
<1> SUFFICES ASSUME NEW d, DOMAIN d = {} PROVE Total(d) = 0
  OBVIOUS
<1> DEFINE Rec(h) == h = [t \in SUBSET {} |->
                            IF t = {} THEN 0 ELSE h[t \ {Pick(t)}] + d[Pick(t)]]
           h == CHOOSE f : Rec(f)
<1>1. Rec([t \in SUBSET {} |-> 0])
  OBVIOUS
<1>2. Rec(h)
  BY <1>1, Zenon
<1>3. Total(d) = h[{}]
  BY DEF Total, FoldSet, MapThenFoldSet, Pick
<1> HIDE DEF h
<1> QED
  BY <1>2, <1>3
=============================================================================
